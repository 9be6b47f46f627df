\* Market fetches of one page, answered by pages, errors and blanks.
CONSTANTS
  t1 = t1  t2 = t2
  Tickers = {t1, t2}
  Manifests <- MCManifests
  Bars <- MCBars
  MaxBuilds = 4
  MaxStops = 1
  MaxEdits = 2
  Stocks = {t1, t2}
  Runs = {r1, r2}
  Readers = {a1, a2}
  MaxFetches = 2
  MaxHalts = 1
  MaxWrites = 4
  MaxRestarts = 1
  Urls = {u1}
  Jobs = {j1}
  Markets = {m1, m2}
  Ttl = 2
  Interval = 1
  RetryWait = 1
  Attempts = 2
  Absent = Absent
SPECIFICATION ServicesSpec
CHECK_DEADLOCK FALSE
INVARIANT ThrottledIsRetried

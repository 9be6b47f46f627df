\* Four runs of the five scripts of a slice of two tickers, one of them stopped, with two
\* changes by others; two runs over the two market files and two tickers, with one stop;
\* two requests that read the bars, four writes, one restart; three clients and a page, a
\* row of which is fresh for two units of time.
CONSTANTS
  t1 = t1  t2 = t2
  Tickers = {t1, t2}
  Manifests <- MCManifests
  Bars <- MCBars
  MaxBuilds = 4
  MaxStops = 1
  MaxEdits = 2
  Stocks = {t1, t2}
  Runs = {r1, r2}
  Readers = {a1, a2}
  MaxFetches = 2
  MaxHalts = 1
  MaxWrites = 4
  MaxRestarts = 1
  Urls = {u1}
  Jobs = {j1}
  Markets = {m1, m2}
  Ttl = 2
  Interval = 1
  RetryWait = 1
  Attempts = 2
  Absent = Absent
SPECIFICATION ServicesSpec
\* What is bounded comes to an end.
CHECK_DEADLOCK FALSE
INVARIANTS EvidenceFitsPrices SummariesAgreeUnlessCut  BarsNotOutdated BurstBounded
PROPERTIES InputKept

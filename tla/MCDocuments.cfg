\* Two jobs, three runs over three filings with one stop or prune; two indexers over three
\* files with one failure; two requests over three simulations with one stop.
CONSTANTS
  Jobs = {j1, j2}
  LastFiling = 3
  PeriodEnd <- MCPeriodEnd
  FiscalYear <- MCFiscalYear
  WithDividend = {1, 2, 3}
  Table <- MCTable
  MaxPeriods = 2
  KeepPerDir = 1
  MaxRuns = 3
  MaxFaults = 1
  LastFile = 3
  FrontMatter = {1, 3}
  Roots <- MCRoots
  Embedders = {"hashing", "gemini"}
  Hashing = "hashing"
  Unvectored = {{1}}
  Indexers = {i1, i2}
  MaxVersion = 2
  MaxIndexRuns = 2
  MaxFailures = 1
  Records = {s1, s2, s3}
  Clients = {c1, c2}
  MaxCuts = 1
SPECIFICATION DocumentsSpec
SYMMETRY MCSymmetry
\* What is bounded comes to an end.
CHECK_DEADLOCK FALSE
CONSTRAINT Small
INVARIANTS HistoryKept NewestTableHolds SavedFilingsCounted SyncedIndexMatchesDisk SimulationsKept
PROPERTIES NewestWinsUnlessStrained RebuildRestoresSpace

\* The virtual book with two request threads, one price refresh, one reset
\* and one process restart.
CONSTANTS
  h1 = h1  h2 = h2  t1 = t1  t2 = t2
  Handlers = {h1, h2}
  NoHandler = none
  Tickers = {t1, t2}
  TickerOrder <- MCTickerOrder
  LastDate = 3
  BarFiles <- MCBarFiles
  Sector <- MCSector
  DefaultPreset = balanced
  Presets = {balanced}
  TargetPositions <- MCTargetPositions
  MaxPerSector <- MCMaxPerSector
  StopLoss <- MCStopLoss
  TakeProfit <- MCTakeProfit
  Ranking <- MCRanking
  CatchUpCap = 2
  DefaultCash = 800
  Funds <- MCFunds
  OrderSizes = {100}
  Lots = {100, 200, 300}
  MaxUserTrades = 2
  MaxResets = 1
  MaxCrashes = 1
SPECIFICATION Spec
SYMMETRY Symmetry
INVARIANTS RowsRecordCash ReadsReplayUnlessReset

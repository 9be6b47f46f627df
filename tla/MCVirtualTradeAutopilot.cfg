\* Two request threads that run the autopilot, change its preset, read, reset
\* and place one order, of an odd lot; one process restart.
CONSTANTS
  h1 = h1  h2 = h2  t1 = t1  t2 = t2
  Handlers = {h1, h2}
  NoHandler = none
  Tickers = {t1, t2}
  TickerOrder <- MCTickerOrder
  LastDate = 3
  BarFiles <- MCBarFiles
  Sector <- MCSector
  DefaultPreset = balanced
  Presets = {balanced, defensive}
  TargetPositions <- MCTargetPositions
  MaxPerSector <- MCMaxPerSector
  StopLoss <- MCStopLoss
  TakeProfit <- MCTakeProfit
  Ranking <- MCRanking
  CatchUpCap = 2
  DefaultCash = 800
  Funds <- MCFunds
  OrderSizes = {150}
  Lots = {100, 200, 300}
  MaxUserTrades = 1
  MaxResets = 1
  MaxCrashes = 1
SPECIFICATION Spec
SYMMETRY Symmetry
INVARIANTS AiDatesOrdered AiAsOfReplays RunOncePerDate NoRoundTripUnlessStopped
PROPERTIES BuysKeepLimits ImplementsLedger

\* One thread, one restart in the middle of an autopilot cycle.
CONSTANTS
  h1 = h1  h2 = h2  t1 = t1  t2 = t2
  Handlers = {h1}
  NoHandler = none
  Tickers = {t1, t2}
  TickerOrder <- MCTickerOrder
  LastDate = 3
  BarFiles <- MCBarFiles
  Sector <- MCSector
  DefaultPreset = balanced
  Presets = {balanced}
  TargetPositions <- MCTargetPositions
  MaxPerSector <- MCMaxPerSector
  StopLoss <- MCStopLoss
  TakeProfit <- MCTakeProfit
  Ranking <- MCRanking
  CatchUpCap = 2
  DefaultCash = 800
  Funds <- MCFunds
  OrderSizes = {}
  Lots = {100, 200, 300}
  MaxUserTrades = 0
  MaxResets = 0
  MaxCrashes = 1
SPECIFICATION Spec
INVARIANT NoSameDayRoundTrip

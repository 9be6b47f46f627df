\* One thread, no restart: an order on a ticker whose bars lag behind is
\* dated before the orders already in the log.
CONSTANTS
  h1 = h1  h2 = h2  t1 = t1  t2 = t2
  Handlers = {h1}
  NoHandler = none
  Tickers = {t1, t2}
  TickerOrder <- MCTickerOrder
  LastDate = 3
  BarFiles <- MCBarFiles
  Sector <- MCSector
  DefaultPreset = balanced
  Presets = {balanced}
  TargetPositions <- MCTargetPositions
  MaxPerSector <- MCMaxPerSector
  StopLoss <- MCStopLoss
  TakeProfit <- MCTakeProfit
  Ranking <- MCRanking
  CatchUpCap = 2
  DefaultCash = 800
  Funds <- MCFunds
  OrderSizes = {200}
  Lots = {100, 200, 300}
  MaxUserTrades = 3
  MaxResets = 0
  MaxCrashes = 0
SPECIFICATION Spec
INVARIANT UserAsOfReplays

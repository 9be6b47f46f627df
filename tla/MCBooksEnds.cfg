\* The chunker on every text of up to eight characters, long lines included.
CONSTANTS
  Accounts = {ai}
  Tickers = {t1, t2}
  Quantities = {100, 300}
  Prices = {1, 3}
  Funds = {500}
  DefaultCash = 500
  Drift = 300
  Quotes <- MCQuotes
  Slippages = {0, 1, 5}
  Holdings = {1, 2, 3}
  LotCosts = {5, 12, 14}
  LotWorths = {0, 1, 4}
  Budgets = {4, 25, 31}
  Targets = {0, 17}
  Rates <- MCRates
  Fraction = 2
  LoopBound = 8
  CapNum = 2
  CapDen = 5
  CellCap = 40
  Newline = newline
  Space = space
  Letter = letter
  MaxLength = 8
  Texts <- MCTexts
  MaxChars = 5
  OverlapChars = 2
  Collectors = {c1, c2}
  LastStock = 2
  Delisted = {1}
  MaxErrors = 2
  MaxAge = 0
  LastHour = 1
  MaxManual = 2
  MaxHangs = 1
SPECIFICATION BooksSpec
CHECK_DEADLOCK FALSE
CONSTRAINT Small
PROPERTY ChunkingEnds

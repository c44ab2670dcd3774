CONSTANTS
  a = a
  b = b
  NoSymbol = NoSymbol
  Symbols <- MCSymbols
  Candles <- MCCandles
  Actions <- MCActions
  NoId = "none"
  MaxOpenOrders = 2
  SlipPercent = 50
  MinNotional = 8
  InitMargin = 32
  FeePercent = 25
  TradesMayFail = FALSE
  MaxEvents = 4
  MaxActions = 3
  MaxRestarts = 0
SPECIFICATION Spec
INVARIANT BankruptIsFlat
PROPERTIES ExpiryExact FillsInSubmissionOrder
CHECK_DEADLOCK FALSE

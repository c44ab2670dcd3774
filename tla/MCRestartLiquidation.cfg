CONSTANTS
  a = a
  b = b
  NoSymbol = NoSymbol
  Symbols <- MCSymbols
  Candles <- MCCandles
  Actions <- MCActions
  NoId = "none"
  MaxOpenOrders = 2
  SlipPercent = 50
  MinNotional = 8
  InitMargin = 32
  FeePercent = 25
  TradesMayFail = FALSE
  MaxEvents = 3
  MaxActions = 3
  MaxRestarts = 1
SPECIFICATION Spec
INVARIANT BankruptIsFlat
CHECK_DEADLOCK FALSE

CONSTANTS
  a = a
  b = b
  Symbols <- MCSymbols
  Prices <- MCPrices
  Quantities <- MCQuantities
  InitMargin = 1000
  FeePercent = 1
  MaxPosition = 3
  MaxFills = 5
SPECIFICATION Spec
INVARIANTS ReportedIsCashFlow AccountAddsUp
CHECK_DEADLOCK FALSE

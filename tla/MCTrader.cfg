SPECIFICATION Spec
CONSTANT EarlyLoss = FALSE
INVARIANT StopTakesOver
PROPERTY EndsClosed
CHECK_DEADLOCK FALSE

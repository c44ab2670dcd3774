SPECIFICATION Spec
CONSTANT EarlyLoss = TRUE
PROPERTY EndsClosed
CHECK_DEADLOCK FALSE

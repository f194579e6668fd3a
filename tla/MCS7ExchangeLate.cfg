SPECIFICATION Spec
CONSTANTS
  Values <- MCValues
  NoValue = NoValue
  AbortMayFail = FALSE
  MaxQueue = 2
INVARIANTS TimeOutMeansFailed
CHECK_DEADLOCK FALSE

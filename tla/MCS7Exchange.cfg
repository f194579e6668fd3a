SPECIFICATION LiveSpec
CONSTANTS
  Values <- MCValues
  NoValue = NoValue
  AbortMayFail = TRUE
  MaxQueue = 2
INVARIANTS
  TypeOK
  WriteReturnsWritten
  ReadReturnsCurrent
  CrashNeedsRefusal
PROPERTIES CallReturns
CHECK_DEADLOCK FALSE

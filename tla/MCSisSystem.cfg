CONSTANTS
  WorkThreads = 1
  Rows <- MCRows
  Lines <- MCLines
SPECIFICATION FairSpec
INVARIANTS
  TypeOK
  SleepExcludesCalculation
  NoRequestTimesOut
  AutoexecFirst
  OneTickCount
PROPERTIES
  ImplementsDispatch
  QueuedIsCalculated
  FirstEventEnds
  DeactivateEnds
  PeriodicRunsForever
CHECK_DEADLOCK FALSE

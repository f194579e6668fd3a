SPECIFICATION LiveSpec
CONSTANTS
  Callers = {1, 2}
  Intervals <- MCIntervals
  TimerIds <- MCTimerIds
  CreateMayFail = TRUE
INVARIANTS TypeOK TimerMatches
PROPERTY TimerFires
CHECK_DEADLOCK FALSE

CONSTANTS
  WorkThreads = 2
  Rows <- GapRows
  Lines <- GapLines
SPECIFICATION FairSpec
PROPERTY DeactivateEnds
CHECK_DEADLOCK FALSE

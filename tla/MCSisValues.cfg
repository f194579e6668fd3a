SPECIFICATION ValuesSpec
CONSTANTS
  Addresses <- TwoBits
  Values = {0, 1}
  NoValue = NoValue
  ParID <- MCParID
  Uses <- Formulas
  ListHash <- MCListHash
  JunkHandles <- Unassigned
  EmergencyNode = TRUE
  Empty = Empty
  ErrorRead = ErrorRead
  WriteError = WriteError
  Auto2LEIS <- StoredOne
  GroupAuto2LEIS <- AllGroups
INVARIANTS ValuesTypeOK PoolIsPlc HistoryIsPlc ConfirmedIsWritten
PROPERTY OnlyAskedWritten

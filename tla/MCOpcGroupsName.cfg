SPECIFICATION Spec
CONSTANTS
  Addresses <- TwoBits
  Values = {0, 1}
  NoValue = NoValue
  ParID <- MCParID
  Uses <- SingleBits
  ListHash <- MCListHash
  JunkHandles <- Unassigned
  EmergencyNode = TRUE
INVARIANT WrittenOrRefused

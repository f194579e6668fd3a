SPECIFICATION Spec
CONSTANTS
  cpA = cpA
  cpB = cpB
  cpC = cpC
  conX = conX
  conY = conY
  a1 = a1
  a2 = a2
  a3 = a3
  a4 = a4
  CPNames <- MCCPNames
  ConNames <- MCConNames
  Addresses <- ThreeAddresses
  Uninitialised <- AnyStatus
  ConnQty = 3
  SessQty = 2
  MaxRef = 4
SYMMETRY Symmetry
INVARIANTS ShutLogsOff
CHECK_DEADLOCK FALSE

SPECIFICATION LiveSpec
CONSTANTS
  s1 = s1
  s2 = s2
  Samples <- MCSamples
  Params <- MCParams
  ParOf <- MCParOf
  Downloads <- MCDownloads
  Servers <- MCMaster
  Faults <- AllowedFaults
  iQueLength = 1
  MaxFrames = 2
INVARIANTS TypeOK DeniedIsClosed MaintenanceAlone Drainable OneDownload
PROPERTIES ImplementsHistBuffer MaintenanceEnds Drains

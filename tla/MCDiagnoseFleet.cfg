SPECIFICATION Spec
CONSTANTS
  MaxTargets = 3
  MaxAddr = 2
  V6 <- MCV6
  Lookup <- FleetLookup
  Options <- FleetOptions
  Permits = 2
  MaxPanics = 1
INVARIANTS EvidenceIsCanonical ReportIsComplete SuccessIsEarned HostsInTurn
PROPERTIES UsesInnerMap Terminates

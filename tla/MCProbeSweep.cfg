SPECIFICATION ProbeSpec
CONSTANTS
  MaxTargets = 2
  MaxAddr = 2
  V6 <- MCV6
  Lookup <- MCLookup
  Options <- MCOptions
  Permits = 2
  MaxPanics = 1
INVARIANTS HolesAreNamed SuccessIsEarned
PROPERTIES ImplementsSweep UsesParallelMap CaptureKept Terminates

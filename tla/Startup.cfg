SPECIFICATION Spec
CONSTANTS
  Executors = {"able", "old", "refusing"}
  SetAcl <- MCSetAcl
  Asks <- MCAsks
  HasSystem <- MCHasSystem
  Options <- MCOptions
  Disks <- MCDisks
  MaxPrograms = 2
  MaxChanges = 1
INVARIANTS
  GovernedOrRefused
  HeldMeansEnforced
  SurfaceComplete
\* A process that exited, or built all its programs, stops.
CHECK_DEADLOCK FALSE

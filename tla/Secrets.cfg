SPECIFICATION Spec
CONSTANTS
  Processes = {p1, p2}
  Keys = {"k1", "k2"}
  Broken = {"k2"}
  Blank = "blank"
  None = none
  Envs <- MCEnvs
  Legacy <- MCLegacy
  MaxStores = 2
  MaxChanges = 2
SYMMETRY AnyProcess
PROPERTY RetrievedIsStored
\* After the last store and change every answer may be given.
CHECK_DEADLOCK FALSE

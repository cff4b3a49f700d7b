SPECIFICATION Spec
CONSTANTS
  Runs = {r1, r2}
  User = user
  Nobody = nobody
  Commands <- MCCommands
  UpDirs = {"up"}
  Digits <- MCDigits
  MaxEdits = 1
SYMMETRY AnyRun
INVARIANTS
  HalfScaffoldNamed
  ZeroMeansThere
PROPERTY
  NoKnownFileReplaced
\* When every run has ended and the user has stopped, nothing happens.
CHECK_DEADLOCK FALSE

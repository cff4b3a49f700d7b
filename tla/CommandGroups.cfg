SPECIFICATION Spec
CONSTANTS
  Names <- MCNames
  Descriptors <- MCDescriptors
  Patterns <- MCPatterns
  FilterModes = {"all", "include", "exclude"}
  Unsafe = {"A b"}
  Reserved <- MCReserved
  GroupDepth = 2
  MaxChanges = 3
INVARIANTS
  ListedCanBeGot
  OnlyExposedIsReachable
  LostOnlyByCollision
  OneTable
\* After the last change every answer may already be cached.
CHECK_DEADLOCK FALSE

\* Bounds: MaxTimeout 3600 -> 3, DefaultTimeout 60 -> 2; Horizon one past the clamp.
SPECIFICATION Spec
CONSTANTS
  MaxTimeout = 3
  DefaultTimeout = 2
  Horizon = 4
  Absent = Absent
  NaN = NaN
  NoAcl = NoAcl
  FlagTimeouts <- MCFlagTimeouts
  EnvTimeouts <- MCEnvTimeouts
INVARIANTS
  GrantNeedsConsent
  NothingHeldAfterSettling
  UsableTimeoutHonoured
PROPERTIES
  PromptSettles
  ImplementsDecision
  ImplementsGate
\* The pass ends with its verdict.
CHECK_DEADLOCK FALSE

SPECIFICATION Spec
CONSTANTS
  OutputCap = 2
  Timeout = 1
  MaxBytes = 3
INVARIANT ValueIsWhatWasWritten
CHECK_DEADLOCK FALSE

SPECIFICATION Spec
CONSTANTS
  OutputCap = 2
  Timeout = 1
  MaxBytes = 3
INVARIANTS
  CaptureBounded
  ValueIsComplete
  NoOrphanAfterAnswer
  AnsweredIsTidied
PROPERTIES
  ImplementsChild
  CallAnswered
  SweptInTheEnd
\* A finished call stops.
CHECK_DEADLOCK FALSE

SPECIFICATION ArgumentsSpec
CONSTANTS
  NoRef = noref
  BadRef = badref
  NoValue = novalue
  NoList = nolist
  Schemas <- MCSchemas
  Resolve <- ResolveRefs
  ReservedNames <- MCReservedNames
  Words <- MCWords
  Small <- MCSmall
  Capital <- MCCapital
  Texts = {"1", "x"}
  Numerals = {"1"}
  Enums = {"1"}
  Inputs <- MCInputs
INVARIANTS EachToItsOwn ResolvedAsDeclared
\* A call that was made or refused is the end.
CHECK_DEADLOCK FALSE

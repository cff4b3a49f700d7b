SPECIFICATION Spec
CONSTANTS
  p1 = p1
  p2 = p2
  m1 = m1
  m2 = m2
  Processes = {p1, p2}
  Modules = {m1, m2}
  Absent = Absent
  Settings <- MCSettings
  MaxCalls = 2
  MaxBreaks <- MCBreaks
SYMMETRY Symmetry
INVARIANTS
  SilenceMeansWritten
  LostOnlyBehindABreak
  SummaryTruthful
  DecisionBesideRun
PROPERTIES
  ClosedLinesStay
  ImplementsAuditTrail
\* A run of calls ends.
CHECK_DEADLOCK FALSE

SPECIFICATION Spec
CONSTANTS
  Strategies = {standard, internal}
  Bypassing = {internal}
  NoStrategy = NoStrategy
  Identities = {alice}
  Nobody = Nobody
  NoAcl = NoAcl
  Rules <- MCRules
INVARIANTS
  AdmittedBeforeStart
  ApprovedBeforeStart
  OneTruthfulRecord
  ExitCodeTellsOutcome
  BypassIsAnnounced
PROPERTIES
  CommandEnds
  ImplementsGovernedCall
  ImplementsAuditTrail
\* A command that has exited or was killed stops.
CHECK_DEADLOCK FALSE

SPECIFICATION Spec
CONSTANTS
  Strategies = {standard, internal}
  Bypassing = {internal}
  NoStrategy = NoStrategy
  Identities = {alice}
  Nobody = Nobody
  NoAcl = NoAcl
  Rules <- MCRules
INVARIANT AssertedIdentityJudged
CHECK_DEADLOCK FALSE

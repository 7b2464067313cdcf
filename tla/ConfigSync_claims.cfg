SPECIFICATION Spec
CONSTANTS
  Configs = {c1, c2}
  None = None
  Clients = {compute}
  Puller = Puller
  Nobody = Nobody
  Pulls = FALSE
  MaxChoices = 2
  MaxTroubles = 1
INVARIANTS
  NeverAppliedNeverClaims
CHECK_DEADLOCK FALSE

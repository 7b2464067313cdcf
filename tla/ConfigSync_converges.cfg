SPECIFICATION FairSpec
CONSTANTS
  Configs = {c1, c2}
  None = None
  Clients = {compute}
  Puller = Puller
  Nobody = Nobody
  Pulls = TRUE
  MaxChoices = 2
  MaxTroubles = 2
INVARIANTS
  UnconfiguredReportsEmpty
PROPERTIES
  PushesEnd
CHECK_DEADLOCK FALSE

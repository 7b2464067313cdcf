SPECIFICATION Spec
CONSTANTS
  c1 = c1
  c2 = c2
  Clients = {c1, c2}
  SubBuffer = 2
  MaxSessions = 2
  MaxSweeps = 3
  MaxStatus = 2
  Requests = {1, 2}
  MaxWant = 2
  Grids = {g1, g2}
  NoGrid = none
  Lap = 3
  Mixes <- Apart
INVARIANTS
  TypeOK
  DropsAccounted
  TornOnlyBehind
  ClientsExplained
  CaptureOfOneStream
  SerialReportsOwn
PROPERTIES
  ClientOrder
  NewestLostOnlyToRace
  PublishReturns
  CaptureEnds
CHECK_DEADLOCK FALSE

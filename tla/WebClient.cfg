SPECIFICATION FairSpec
CONSTANTS
  Address = {p, q}
  PoolSize = 1
  MaxIdle = 0
  MaxRequest = 3
  MaxTotal = 4
INVARIANTS
  Accounted
  InTurn
  OwnAnswer
  Carried
PROPERTIES
  RequestsEnd
CHECK_DEADLOCK FALSE

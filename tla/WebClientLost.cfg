\* Two requests to one address.
SPECIFICATION Spec
CONSTANTS
  Address = {p}
  PoolSize = 1
  MaxIdle = 0
  MaxRequest = 2
  MaxTotal = 2
INVARIANT NoneLost
CHECK_DEADLOCK FALSE

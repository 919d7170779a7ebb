\* One subscription of one service.
SPECIFICATION Spec
CONSTANTS
  Service = {rcs}
  Evented = {rcs}
  Subscriber = {s1}
  RequestedTimeout = {0, 2}
  MaxTimeout = 1
  MaxSubscribers = 2
  MaxValue = 1
  MaxTime = 1
  rcs = rcs
  s1 = s1
INVARIANTS
  NoFreedUse
CHECK_DEADLOCK FALSE

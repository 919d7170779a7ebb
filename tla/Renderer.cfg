\* Two channels, two levels, one value besides the initial one of each
\* AVTransport field; every operation.
CONSTANTS
  Channel = {Master, LF}
  Volume <- MCVolume
  Value = {none, other}
  Initial = none
  MaxChanged = 1
SPECIFICATION Spec
CONSTRAINT FewChanged
PROPERTIES AtMostOneEventPerWindow ChangesReachSubscribers ImplementsModeratedEventing

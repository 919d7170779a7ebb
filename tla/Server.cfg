SPECIFICATION Spec
CONSTANTS
  Request <- MCRequest
  MaxConnections = 1
  MaxSession = 2
  MaxRequest = 2
  MaxPiece = 4
INVARIANTS AnswersWhole NoFreedUse
PROPERTIES OwnDisconnect NotCutOff Served Released
CHECK_DEADLOCK FALSE

\* Two requests of control points and one thing that the user does by hand.
SPECIFICATION Spec
CONSTANTS
  MaxULong = 200
  MaxLong = 100
  MaxVolume = 100
  Player <- MCPlayer
  Ini <- MCIni
  Http <- MCHttp
  NameNumber <- MCNameNumber
  StateCode <- MCStateCode
  IsMPC = {"MPCBE"}
  Request <- MCRequest
  MaxRequests = 2
  MaxHand = 1
  NULL = NULL
INVARIANTS
  OneAnswer
  RefusedUntouched
  AnsweredFresh
  NoFreedUse
  MuteKept
PROPERTIES
  Answered
CHECK_DEADLOCK FALSE

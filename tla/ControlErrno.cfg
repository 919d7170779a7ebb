\* A huge number in one request, and a legal request after it.
SPECIFICATION Spec
CONSTANTS
  MaxULong = 200
  MaxLong = 100
  MaxVolume = 100
  Player <- MCPlayer
  Ini <- MCIni
  Http <- MCHttp
  NameNumber <- MCNameNumber
  StateCode <- MCStateCode
  IsMPC = {"MPCBE"}
  Request <- MCRequest
  MaxRequests = 2
  MaxHand = 0
  NULL = NULL
INVARIANT LegalAccepted
CHECK_DEADLOCK FALSE

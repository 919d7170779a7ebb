SPECIFICATION FairSpec
CONSTANTS
  Thread = {t}
  Link = chain
  Block = {b1, b2}
  Size = 2
  MaxConnection = 2
INVARIANTS
  ToldOnce
  InOrder
  PendingOwned
  Watched
PROPERTIES
  FailedSendEnds

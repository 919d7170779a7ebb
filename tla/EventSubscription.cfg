\* One service that changes and one that does not, three subscriptions, of
\* which a service takes two.  A subscription lasts for the second it was made or
\* renewed in, whatever was asked for: so some expire and others do not.
SPECIFICATION FairSpec
CONSTANTS
  Service = {avt, rcs}
  Evented = {rcs}
  Subscriber = {s1, s2, s3}
  RequestedTimeout = {0, 2}
  MaxTimeout = 0
  MaxSubscribers = 2
  MaxValue = 1
  MaxTime = 1
  avt = avt
  rcs = rcs
  s1 = s1
  s2 = s2
  s3 = s3
INVARIANTS
  FreedWhenDone
  NothingLeaks
  InSequence
  UpToDate
PROPERTIES
  EventsArrive
CHECK_DEADLOCK FALSE

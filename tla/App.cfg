\* UPnP is started twice.
CONSTANT MaxSession = 2
SPECIFICATION Spec
INVARIANTS NoFreedUse NothingLeft
PROPERTIES StopGivesBack
CHECK_DEADLOCK FALSE

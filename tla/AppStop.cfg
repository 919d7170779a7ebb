\* Stopping a session of which the thread prints to the dialog.
CONSTANT MaxSession = 1
SPECIFICATION Spec
PROPERTY StopReturns
CHECK_DEADLOCK FALSE

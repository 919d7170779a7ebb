\* Two timers, added, removed and fired while two threads outside of the chain and
\* the chain thread's own callbacks call in.  Once now is MaxTime, every timer
\* is due and every wait with a time limit ends.
CONSTANTS
  Thread = {gui, monitor}
  Link = chain
  Timer = {t1, t2}
  Data = {d1}
  Delay = {0, 2}
  Second = 2
  Forever = 100
  MaxTime = 3
  None = None
SPECIFICATION Spec
INVARIANTS NoLostWakeUp OneHome SleepEnds
PROPERTIES StopReturns NotEarly TimersEnd ImplementsChain
CHECK_DEADLOCK FALSE

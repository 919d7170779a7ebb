------------------------------ MODULE LifeTime ------------------------------
(***************************************************************************)
(* The timers of the MicroStack (ILibLifeTime of ILibParsers.c) as a link   *)
(* of the thread chain.  ILibLifeTime_AddEx and ILibLifeTime_Remove are     *)
(* called by any thread, and by the chain thread itself from a timer's      *)
(* callback or from a link's PostSelect; ILibLifeTime_Check is the link's   *)
(* PreSelect.  ObjectList is guarded by its lock, NextTriggerTick is read   *)
(* and written by ILibLifeTime_Check outside of it, and ILibLifeTime_AddEx  *)
(* unblocks the chain before it lowers NextTriggerTick: these are steps of  *)
(* their own.                                                               *)
(*                                                                         *)
(* The rest of the chain thread, and ILibForceUnBlockChain, are the actions *)
(* of module Chain; the state of the chain is that of module WakeUp.        *)
(***************************************************************************)
EXTENDS WakeUp, Integers, Sequences, SequencesExt

CONSTANTS Thread,         (* the threads outside of the chain                  *)
          Link,           (* the chain thread, when it calls Add and Remove    *)
          Timer,          (* the LifeTimeMonitorData nodes                     *)
          Data,           (* the objects timers are registered with            *)
          Delay,          (* the delays asked for                              *)
          Second,         (* ticks of a second, the 1000 of the Check          *)
          Forever,        (* UPNP_MAX_WAIT, longer than anything here          *)
          MaxTime,        (* bound: stands for every later moment too          *)
          None

ASSUME LifeTimeAssumption == /\ Link \notin Thread
                             /\ None \notin Timer \cup Data
                             /\ Delay \subseteq Nat
                             /\ Second \in Nat \ {0}
                             /\ MaxTime \in Nat
                             /\ Forever \in Nat
                             /\ Forever > MaxTime + Second

VARIABLES
  check,                  (* where the chain thread is in ILibLifeTime_Check   *)
  now,                    (* ILibGetUptime                                     *)
  ObjectList,             (* the timers to come                                *)
  Reserved,               (* data whose removal found no timer in ObjectList   *)
  NextTriggerTick,        (* -1: not known                                     *)
  EventQueue,             (* the timers of this Check that are yet to fire     *)
  CurrentTick,            (* when this Check began                             *)
  blocktime,              (* how long select may block                         *)
  deadline,               (* when the select ends                              *)
  node,                   (* node[t].ExpirationTick and node[t].data           *)
  adding,                 (* the timer each thread is adding                   *)
  op,                     (* what each thread is doing in ILibLifeTime_AddEx   *)
  outcome                 (* history: what became of each timer                *)

Caller == Thread \cup {Link}

C == INSTANCE Chain WITH Thread <- Caller

chainVars == <<pc, TerminateFlag, Terminate, watched, caller, posted>>
checkVars == <<check, EventQueue, CurrentTick, blocktime, deadline>>
listVars == <<ObjectList, Reserved, NextTriggerTick, node>>
opVars == <<adding, op>>
history == <<outcome>>
vars == <<chainVars, checkVars, now, listVars, opVars, history>>

Exp(t) == node[t].ExpirationTick

(* The timers of the list that are in S, in their order.  There is one such   *)
(* sequence; it is told by the positions they have in the list.              *)
Kept(list, S) ==
  LET at == {i \in DOMAIN list : list[i] \in S}
      ascending == {f \in [1 .. Cardinality(at) -> at] :
                      \A i, j \in 1 .. Cardinality(at) : i < j => f[i] < f[j]}
  IN  {[i \in 1 .. Cardinality(at) |-> list[f[i]]] : f \in ascending}

(* A node that is not allocated. *)
NoNode == [ExpirationTick |-> 0, data |-> None]

(* The nodes in set ts are done with, the callback or DestroyPtr that ends   *)
(* each has been called, and they are freed.                                 *)
Done(ts, end) ==
  /\ outcome' = [t \in Timer |-> IF t \in ts THEN end ELSE outcome[t]]
  /\ node' = [t \in Timer |-> IF t \in ts THEN NoNode ELSE node[t]]

TypeOK == /\ C!TypeOK
          /\ check \in {"idle", "scan", "fire", "callback"}
          /\ now \in 0 .. MaxTime
          /\ ObjectList \in Seq(Timer)
          /\ Reserved \subseteq Data
          /\ NextTriggerTick \in -1 .. MaxTime
          /\ EventQueue \in Seq(Timer)
          /\ CurrentTick \in 0 .. MaxTime
          /\ blocktime \in 0 .. Forever
          /\ deadline \in 0 .. Forever + MaxTime
          /\ node \in [Timer -> [ExpirationTick : 0 .. MaxTime, data : Data \cup {None}]]
          /\ adding \in [Caller -> Timer \cup {None}]
          /\ op \in [Caller -> {"idle", "insert", "trigger"}]
          /\ outcome \in [Timer -> {"unused", "pending", "fired", "destroyed"}]

(* ILibCreateLifeTime, in a chain that is about to be started. *)
Init == /\ C!Init
        /\ check = "idle"
        /\ now = 0
        /\ ObjectList = <<>>
        /\ Reserved = {}
        /\ NextTriggerTick = 0
        /\ EventQueue = <<>>
        /\ CurrentTick = 0
        /\ blocktime = Forever
        /\ deadline = 0
        /\ node = [t \in Timer |-> NoNode]
        /\ adding = [c \in Caller |-> None]
        /\ op = [c \in Caller |-> "idle"]
        /\ outcome = [t \in Timer |-> "unused"]
-----------------------------------------------------------------------------
(* Whether thread c may begin a call: not while it is in one, nor after      *)
(* shutdown; the chain thread only from a callback or a PostSelect.          *)
MayCall(c) == /\ op[c] = "idle" /\ caller[c] = "idle"
              /\ pc # "freed"
              /\ c = Link => check = "callback" \/ pc = "postsel"

(* The chain thread goes on when the calls it makes have returned. *)
ChainThreadRuns == op[Link] = "idle" /\ caller[Link] = "idle"

(* The lock of ObjectList is held across steps only by ILibLifeTime_AddEx.   *)
ListUnlocked == \A c \in Caller : op[c] # "trigger"

(* Faulty variant: the chain is unblocked before the node is in the list. *)
FaultyAddEx(c, t, d, ms) ==
  /\ MayCall(c)
  /\ outcome[t] = "unused" /\ \A o \in Caller : adding[o] # t
  /\ now + ms < MaxTime
  /\ node' = [node EXCEPT ![t] = [ExpirationTick |-> now + ms, data |-> d]]
  /\ adding' = [adding EXCEPT ![c] = t]
  /\ op' = [op EXCEPT ![c] = "insert"]
  /\ Terminate' = "closed"
  /\ UNCHANGED <<pc, TerminateFlag, watched, caller, posted, checkVars, now, ObjectList,
                 Reserved, NextTriggerTick, history>>

(* ILibLifeTime_AddEx: a node is filled in; its time starts before the lock. *)
AddEx(c, t, d, ms) ==
  /\ MayCall(c)
  /\ outcome[t] = "unused" /\ \A o \in Caller : adding[o] # t
  /\ now + ms < MaxTime
  /\ node' = [node EXCEPT ![t] = [ExpirationTick |-> now + ms, data |-> d]]
  /\ adding' = [adding EXCEPT ![c] = t]
  /\ op' = [op EXCEPT ![c] = "insert"]
  /\ UNCHANGED <<chainVars, checkVars, now, ObjectList, Reserved, NextTriggerTick, history>>

(* How many timers of the list stay ahead of a new one that expires at e:    *)
(* it goes in front of the first that does not expire earlier.               *)
Ahead(list, e) ==
  {k \in 0 .. Len(list) : /\ \A i \in 1 .. k : Exp(list[i]) < e
                          /\ k < Len(list) => e <= Exp(list[k + 1])}

(* Faulty variant: no node unblocks the chain. *)
FaultyInsert(c) ==
  /\ op[c] = "insert" /\ ListUnlocked /\ pc # "freed"
  /\ \E k \in Ahead(ObjectList, Exp(adding[c])) :
       ObjectList' = InsertAt(ObjectList, k + 1, adding[c])
  /\ outcome' = [outcome EXCEPT ![adding[c]] = "pending"]
  /\ op' = [op EXCEPT ![c] = "trigger"]
  /\ UNCHANGED <<chainVars, checkVars, now, Reserved, NextTriggerTick, node, adding>>

(* ... the node is linked under the lock; the first node of an empty list    *)
(* unblocks the chain.  A new head of a list that is not empty was meant to, *)
(* but the code compares the head node with the new data and never finds    *)
(* them equal.                                                              *)
Insert(c) ==
  /\ op[c] = "insert" /\ ListUnlocked /\ pc # "freed"
  /\ \E k \in Ahead(ObjectList, Exp(adding[c])) :
       ObjectList' = InsertAt(ObjectList, k + 1, adding[c])
  /\ outcome' = [outcome EXCEPT ![adding[c]] = "pending"]
  /\ op' = [op EXCEPT ![c] = "trigger"]
  /\ IF ObjectList = <<>>
     THEN /\ caller' = [caller EXCEPT ![c] = "force"]
          /\ posted' = TRUE
     ELSE UNCHANGED <<caller, posted>>
  /\ UNCHANGED <<pc, TerminateFlag, Terminate, watched, checkVars, now, Reserved,
                 NextTriggerTick, node, adding>>

(* ... and last NextTriggerTick is lowered and the lock released. *)
LowerTrigger(c) ==
  /\ op[c] = "trigger" /\ caller[c] = "idle" /\ pc # "freed"
  /\ NextTriggerTick' = IF NextTriggerTick > Exp(adding[c]) THEN Exp(adding[c])
                                                           ELSE NextTriggerTick
  /\ op' = [op EXCEPT ![c] = "idle"]
  /\ adding' = [adding EXCEPT ![c] = None]
  /\ UNCHANGED <<chainVars, checkVars, now, ObjectList, Reserved, node, history>>

(* ILibLifeTime_Remove: every timer of d leaves the list and is destroyed.   *)
(* When there is none in a list that is not empty, d goes to Reserved.       *)
RemoveTimer(c, d) ==
  /\ MayCall(c) /\ ListUnlocked
  /\ LET removed == {t \in ToSet(ObjectList) : node[t].data = d}
         reserve == removed = {} /\ ObjectList # <<>>
     IN /\ ObjectList' \in Kept(ObjectList, Timer \ removed)
        /\ Done(removed, "destroyed")
        /\ Reserved' = IF reserve THEN Reserved \cup {d} ELSE Reserved
  /\ UNCHANGED <<chainVars, checkVars, now, NextTriggerTick, opVars>>
-----------------------------------------------------------------------------
(* ILibLifeTime_Check, the PreSelect of the link, run by the chain thread.   *)

InCheck(at) == pc = "presel" /\ check = at /\ ChainThreadRuns

(* The shortcut is taken only when the link would shorten the wait. *)
NothingDue(v) == /\ NextTriggerTick > now /\ NextTriggerTick # -1
                 /\ v > NextTriggerTick - now

(* "This will speed things up by skipping the timer check." Links ahead of   *)
(* this one have asked for v.                                               *)
SkipCheck(v) ==
  /\ InCheck("idle")
  /\ NothingDue(v)
  /\ pc' = "arm"
  /\ posted' = FALSE
  /\ CurrentTick' = now
  /\ blocktime' = NextTriggerTick - now
  /\ UNCHANGED <<TerminateFlag, Terminate, watched, caller, check, EventQueue, deadline,
                 now, listVars, opVars, history>>

BeginCheck(v) ==
  /\ InCheck("idle")
  /\ ~NothingDue(v)
  /\ NextTriggerTick' = -1
  /\ CurrentTick' = now
  /\ blocktime' = v
  /\ check' = "scan"
  /\ UNCHANGED <<chainVars, EventQueue, deadline, now, ObjectList, Reserved, node, opVars, history>>

(* Faulty variant: a timer is due one tick too soon. *)
FaultyDue(t) == Exp(t) <= CurrentTick + 1

Due(t) == Exp(t) < CurrentTick

(* Faulty variant: the timers that are due stay in the list. *)
FaultyScan ==
  /\ InCheck("scan") /\ ListUnlocked
  /\ Reserved' = {}
  /\ EventQueue' \in Kept(ObjectList, {t \in Timer : Due(t)})
  /\ NextTriggerTick' = -1
  /\ check' = "fire"
  /\ posted' = FALSE
  /\ UNCHANGED <<pc, TerminateFlag, Terminate, watched, caller, CurrentTick, blocktime,
                 deadline, now, ObjectList, node, opVars, history>>

(* Under both locks: Reserved is emptied, the timers that are due move to    *)
(* EventQueue, the earliest of the others is the next trigger.               *)
Scan ==
  /\ InCheck("scan") /\ ListUnlocked
  /\ Reserved' = {}
  /\ EventQueue' \in Kept(ObjectList, {t \in Timer : Due(t)})
  /\ ObjectList' \in Kept(ObjectList, {t \in Timer : ~Due(t)})
  /\ NextTriggerTick' = IF ObjectList' = <<>> THEN -1
                        ELSE CHOOSE e \in {Exp(t) : t \in ToSet(ObjectList')} :
                               \A t \in ToSet(ObjectList') : e <= Exp(t)
  /\ check' = "fire"
  /\ posted' = FALSE
  /\ UNCHANGED <<pc, TerminateFlag, Terminate, watched, caller, CurrentTick, blocktime,
                 deadline, now, node, opVars, history>>

(* The next timer of EventQueue.  It would be destroyed instead of fired if  *)
(* Reserved held it, but the code looks there for the node, not its data.    *)
Fire ==
  /\ InCheck("fire") /\ EventQueue # <<>>
  /\ LET t == Head(EventQueue)
     IN IF t \in Reserved
        THEN /\ Done({t}, "destroyed")
             /\ Reserved' = Reserved \ {t}
             /\ check' = check
        ELSE /\ Done({t}, "fired")
             /\ Reserved' = Reserved
             /\ check' = "callback"
  /\ EventQueue' = Tail(EventQueue)
  /\ UNCHANGED <<chainVars, CurrentTick, blocktime, deadline, now, ObjectList,
                 NextTriggerTick, opVars>>

CallbackReturns ==
  /\ InCheck("callback")
  /\ check' = "fire"
  /\ UNCHANGED <<chainVars, EventQueue, CurrentTick, blocktime, deadline, now, listVars,
                 opVars, history>>

(* The wait until the next trigger, but never less than a second. *)
EndCheck ==
  /\ InCheck("fire") /\ EventQueue = <<>>
  /\ pc' = "arm"
  /\ check' = "idle"
  /\ LET delta == NextTriggerTick - CurrentTick
     IN blocktime' = IF NextTriggerTick # -1 /\ blocktime > delta
                     THEN IF delta < Second THEN Second ELSE delta
                     ELSE blocktime
  /\ UNCHANGED <<TerminateFlag, Terminate, watched, caller, posted, EventQueue, CurrentTick,
                 deadline, now, listVars, opVars, history>>
-----------------------------------------------------------------------------
(* The rest of the chain thread and the other threads. *)

timerVars == <<checkVars, now, listVars, opVars, history>>

(* select is given the time it may block. *)
Arm == /\ C!Arm
       /\ deadline' = now + blocktime
       /\ UNCHANGED <<check, EventQueue, CurrentTick, blocktime, now, listVars, opVars, history>>

(* The time that select may take is computed anew for every select. *)
SelectEnds == /\ blocktime' = Forever /\ deadline' = 0 /\ CurrentTick' = 0
              /\ UNCHANGED <<check, EventQueue, now, listVars, opVars, history>>

(* The time of the select is up; a time past MaxTime comes when time has got *)
(* there.                                                                   *)
SelectTimesOut == /\ \/ now >= deadline
                     \/ now = MaxTime /\ blocktime < Forever
                  /\ C!SelectReturns
                  /\ SelectEnds

SelectWoken == C!SelectWoken /\ SelectEnds

OtherSocket == C!SelectReturns /\ SelectEnds

Loop == /\ C!LoopTest \/ C!Rearm \/ C!Reopen
        /\ UNCHANGED timerVars

PostSelect == /\ ChainThreadRuns
              /\ C!PostSelect
              /\ UNCHANGED timerVars

(* ILibLifeTime_Destroy, reached from the end of ILibStartChain: under the   *)
(* lock every timer that is left is destroyed.                               *)
Destroy ==
  /\ ListUnlocked
  /\ C!DestroyChain
  /\ Done(ToSet(ObjectList), "destroyed")
  /\ ObjectList' = <<>>
  /\ UNCHANGED <<checkVars, now, Reserved, NextTriggerTick, opVars>>

Check(v) == SkipCheck(v) \/ BeginCheck(v)

ChainThreadStep == \/ Check(Forever) \/ Scan \/ Fire \/ CallbackReturns \/ EndCheck
                   \/ Arm \/ SelectTimesOut \/ SelectWoken \/ Loop \/ PostSelect \/ Destroy

StopChain(c) == /\ op[c] = "idle"
                /\ C!StopChain(c)
                /\ UNCHANGED timerVars

ForceUnBlockChain(c) == C!ForceUnBlockChain(c) /\ UNCHANGED timerVars

Tick == /\ now < MaxTime
        /\ now' = now + 1
        /\ UNCHANGED <<chainVars, checkVars, listVars, opVars, history>>

Continue(c) == Insert(c) \/ LowerTrigger(c) \/ ForceUnBlockChain(c)

Next == \/ ChainThreadStep
        \/ OtherSocket
        \/ Tick
        \/ \E c \in Caller : Continue(c)
        \/ \E c \in Caller, t \in Timer, d \in Data, ms \in Delay : AddEx(c, t, d, ms)
        \/ \E c \in Caller, d \in Data : RemoveTimer(c, d)
        \/ \E c \in Thread : StopChain(c)

SafeSpec == Init /\ [][Next]_vars

(* The chain thread and a thread in a call run on, time passes. *)
Spec == /\ SafeSpec
        /\ WF_vars(ChainThreadStep)
        /\ WF_vars(Tick)
        /\ \A c \in Caller : WF_vars(Continue(c))
-----------------------------------------------------------------------------
Sorted(list) == \A i, j \in 1 .. Len(list) : i < j => Exp(list[i]) <= Exp(list[j])

(* A timer that was added and is not done is in exactly one place of exactly *)
(* one queue, and a timer that is done is in none: no timer is lost, freed   *)
(* twice or fired twice, whatever calls come between the steps of the Check. *)
OneHome ==
  LET queued == ObjectList \o EventQueue
  IN  /\ IsInjective(queued)
      /\ {t \in Timer : outcome[t] = "pending"} = ToSet(queued)

(* Timers fire in the order they expire, also those added while others fire. *)
InOrder == Sorted(ObjectList) /\ Sorted(EventQueue)

(* No thread is inside ILibLifeTime_AddEx. *)
NoAddInProgress == \A c \in Caller : op[c] = "idle"

(* The chain thread never blocks without a time limit while there is a timer *)
(* in the list, although NextTriggerTick is kept outside of the lock.        *)
SleepEnds == Blocked /\ ObjectList # <<>> /\ NoAddInProgress => blocktime < Forever

(* No timer fires before its time. *)
NotEarly ==
  [][\A t \in Timer : outcome[t] = "pending" /\ outcome'[t] = "fired" => Exp(t) < now]_vars

(* Every timer fires or is destroyed. *)
TimersEnd == \A t \in Timer : outcome[t] = "pending" ~> outcome[t] \in {"fired", "destroyed"}

(* "When the chain cleans itself up, the thread that is blocked on           *)
(* ILibStartChain will return": a stop ends the chain, whatever the timers   *)
(* are doing.                                                               *)
StopReturns == C!StopReturns

(* To the chain a Check is one PreSelect, over when the list has been        *)
(* scanned, and the first timer of an empty list is one request: the timers  *)
(* follow the wake-up protocol of Chain.                                    *)
Chn == INSTANCE Chain WITH Thread <- Caller,
                           pc <- IF check \in {"fire", "callback"} THEN "arm" ELSE pc
ImplementsChain == Chn!SafeSpec

=============================================================================

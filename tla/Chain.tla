-------------------------------- MODULE Chain --------------------------------
(***************************************************************************)
(* The thread chain of the MicroStack (ILibParsers.c, Windows build).  One  *)
(* thread, the chain thread, runs ILibStartChain: it asks every link, in    *)
(* PreSelect, which sockets and how long to wait for, blocks in select, and *)
(* lets every link handle the result in PostSelect.  Other threads leave    *)
(* requests for the links (a timer, data to send, a link to add) and call   *)
(* ILibForceUnBlockChain, which closes the dummy socket Terminate that the  *)
(* chain thread has put in its select; ILibStopChain also raises            *)
(* TerminateFlag.                                                           *)
(*                                                                         *)
(* Terminate is written under ILibChainLock by ILibForceUnBlockChain, but   *)
(* the chain thread tests it and opens a new socket without the lock; those *)
(* are two steps here.  select may also return because of other sockets or  *)
(* because its time is up; nothing relies on that.                          *)
(***************************************************************************)
EXTENDS WakeUp

CONSTANT Thread           (* the threads that call into the chain from outside *)

vars == <<pc, TerminateFlag, Terminate, watched, caller, posted>>

Location == {"loop", "presel", "arm", "select", "rearm", "reopen", "postsel",
             "destroy", "freed"}

TypeOK == /\ pc \in Location
          /\ TerminateFlag \in BOOLEAN
          /\ Terminate \in {"open", "closed"}
          /\ watched \in BOOLEAN
          /\ caller \in [Thread -> {"idle", "force"}]
          /\ posted \in BOOLEAN

Goto(from, to) == pc = from /\ pc' = to

(* ILibCreateChain, and the chain thread about to enter the loop. *)
Init == /\ pc = "loop"
        /\ TerminateFlag = FALSE
        /\ Terminate = "open"
        /\ watched = FALSE
        /\ caller = [t \in Thread |-> "idle"]
        /\ posted = FALSE
-----------------------------------------------------------------------------
(* The chain thread. *)

(* while (TerminateFlag == 0) *)
LoopTest ==
  /\ \/ TerminateFlag /\ Goto("loop", "destroy")
     \/ ~TerminateFlag /\ Goto("loop", "presel")
  /\ UNCHANGED <<TerminateFlag, Terminate, watched, caller, posted>>

(* Every link is asked; what was requested until now is taken into account.  *)
PreSelect ==
  /\ Goto("presel", "arm")
  /\ posted' = FALSE
  /\ UNCHANGED <<TerminateFlag, Terminate, watched, caller>>

(* Faulty variant: a closed socket is replaced before the select, not after. *)
FaultyArm ==
  /\ Goto("arm", "select")
  /\ watched' = TRUE
  /\ Terminate' = "open"
  /\ UNCHANGED <<TerminateFlag, caller, posted>>

(* Under ILibChainLock: watch the dummy socket, or poll if it is closed. *)
Arm ==
  /\ Goto("arm", "select")
  /\ watched' = (Terminate = "open")
  /\ UNCHANGED <<TerminateFlag, Terminate, caller, posted>>

(* select cannot block: it polls, or the watched socket was closed under it. *)
SelectWoken ==
  /\ Goto("select", "rearm")
  /\ ~watched \/ Terminate = "closed"
  /\ UNCHANGED <<TerminateFlag, Terminate, watched, caller, posted>>

(* select returns for another socket, or its time is up. *)
SelectReturns ==
  /\ Goto("select", "rearm")
  /\ UNCHANGED <<TerminateFlag, Terminate, watched, caller, posted>>

(* if (Terminate == ~0), read without the lock ... *)
Rearm ==
  /\ \/ Terminate = "closed" /\ Goto("rearm", "reopen")
     \/ Terminate = "open" /\ Goto("rearm", "postsel")
  /\ UNCHANGED <<TerminateFlag, Terminate, watched, caller, posted>>

(* ... Terminate = socket(...) *)
Reopen ==
  /\ Goto("reopen", "postsel")
  /\ Terminate' = "open"
  /\ UNCHANGED <<TerminateFlag, watched, caller, posted>>

(* The links handle the result; what they request of each other is seen in   *)
(* the next PreSelect without any wake-up.                                   *)
PostSelect ==
  /\ Goto("postsel", "loop")
  /\ UNCHANGED <<TerminateFlag, Terminate, watched, caller, posted>>

(* Every link is destroyed, the base timer last, then the chain itself and   *)
(* ILibChainLock.                                                           *)
DestroyChain ==
  /\ Goto("destroy", "freed")
  /\ Terminate' = "closed"
  /\ UNCHANGED <<TerminateFlag, watched, caller, posted>>

ChainThread == \/ LoopTest \/ PreSelect \/ Arm \/ SelectWoken \/ Rearm \/ Reopen
               \/ PostSelect \/ DestroyChain
-----------------------------------------------------------------------------
(* The other threads. *)

(* A request is left for a link, under the link's own lock; the call of      *)
(* ILibForceUnBlockChain follows.                                           *)
Post(t) ==
  /\ caller[t] = "idle"
  /\ pc # "freed"
  /\ caller' = [caller EXCEPT ![t] = "force"]
  /\ posted' = TRUE
  /\ UNCHANGED <<pc, TerminateFlag, Terminate, watched>>

(* ILibStopChain up to its call of ILibForceUnBlockChain; the application    *)
(* calls it once for a chain.                                               *)
StopChain(t) ==
  /\ caller[t] = "idle"
  /\ ~TerminateFlag
  /\ TerminateFlag' = TRUE
  /\ caller' = [caller EXCEPT ![t] = "force"]
  /\ UNCHANGED <<pc, Terminate, watched, posted>>

(* Faulty variant: the wake-up is skipped while the chain thread looks busy. *)
FaultyForceUnBlockChain(t) ==
  /\ caller[t] = "force"
  /\ Terminate' = IF pc = "select" THEN "closed" ELSE Terminate
  /\ caller' = [caller EXCEPT ![t] = "idle"]
  /\ UNCHANGED <<pc, TerminateFlag, watched, posted>>

(* Under ILibChainLock: close the dummy socket unless it is closed already.  *)
(* A call that comes after the chain was freed reads freed memory; whatever  *)
(* it does there, the chain thread is gone.                                  *)
ForceUnBlockChain(t) ==
  /\ caller[t] = "force"
  /\ Terminate' = "closed"
  /\ caller' = [caller EXCEPT ![t] = "idle"]
  /\ UNCHANGED <<pc, TerminateFlag, watched, posted>>

Next == \/ ChainThread
        \/ SelectReturns
        \/ \E t \in Thread : Post(t) \/ StopChain(t) \/ ForceUnBlockChain(t)

SafeSpec == Init /\ [][Next]_vars

(* The chain thread runs while it can, and a thread that has begun a call    *)
(* ends it.  No fairness for SelectReturns: no other socket may ever become  *)
(* ready, and the timeout is UPNP_MAX_WAIT, a day.                           *)
Spec == /\ SafeSpec
        /\ WF_vars(ChainThread)
        /\ \A t \in Thread : WF_vars(ForceUnBlockChain(t))
-----------------------------------------------------------------------------
(* Where the chain thread can be while a request whose wake-up is over has   *)
(* not been seen: about to look, or unable to block before it looks.         *)
PostedInv == posted /\ ~WakeUpComing =>
               \/ Terminate = "closed" /\ pc # "reopen"
               \/ pc \in {"reopen", "postsel", "loop", "presel", "destroy", "freed"}

(* The same for TerminateFlag, which the loop test looks at. *)
StopInv == TerminateFlag /\ ~WakeUpComing =>
             \/ Terminate = "closed" /\ pc # "reopen"
             \/ pc \in {"reopen", "postsel", "loop", "destroy", "freed"}

(* Only the chain thread itself opens the socket, between the two steps. *)
ReopenInv == pc = "reopen" => Terminate = "closed"

(* A destroyed chain was asked to stop. *)
FreedOnlyByStop == pc \in {"destroy", "freed"} => TerminateFlag

(* The inductive invariant: where the chain thread is whenever a request or  *)
(* the wish to stop is outstanding and no wake-up for it is still to come.   *)
IInv == TypeOK /\ PostedInv /\ StopInv /\ ReopenInv /\ FreedOnlyByStop

(* "When the chain cleans itself up, the thread that is blocked on           *)
(* ILibStartChain will return": stopping the chain ends ILibStartChain.      *)
StopReturns == TerminateFlag ~> pc = "freed"
=============================================================================

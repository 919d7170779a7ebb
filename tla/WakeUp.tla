------------------------------- MODULE WakeUp -------------------------------
(***************************************************************************)
(* The state of the thread chain that its wake-up is about, and what the    *)
(* wake-up promises.  Chain has the protocol, LifeTime the same state with  *)
(* the steps of the timers among those of the chain.                        *)
(***************************************************************************)

VARIABLES
  pc,                     (* where the chain thread is in ILibStartChain       *)
  TerminateFlag,          (* TRUE once ILibStopChain was called                *)
  Terminate,              (* the dummy socket: "open", or "closed" for ~0      *)
  watched,                (* TRUE when select was given the dummy socket,      *)
                          (* FALSE when it was given a zero timeout instead    *)
  caller,                 (* what each other thread is doing                   *)
  posted                  (* TRUE when a link has a request that its PreSelect *)
                          (* has not seen                                      *)

(* The chain thread is blocked in select and nothing will end that soon. *)
Blocked == pc = "select" /\ watched /\ Terminate = "open"

(* Some thread has yet to call ILibForceUnBlockChain. *)
WakeUpComing == \E t \in DOMAIN caller : caller[t] = "force"

(* A request, or the wish to stop, never waits behind a blocked select: if   *)
(* one is outstanding the wake-up for it is still to come.  The unlocked     *)
(* test and reopening of the socket lose no wake-up (code: ILibStartChain,    *)
(* ILibForceUnBlockChain and ILibStopChain).                                *)
NoLostWakeUp == Blocked /\ (posted \/ TerminateFlag) => WakeUpComing
=============================================================================

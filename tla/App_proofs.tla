----------------------------- MODULE App_proofs -----------------------------
(* Proofs about App, for any number of sessions. *)
EXTENDS App, TLAPS

(* Before the first session nothing runs and every global is NULL.           *)
LEMMA InitIInv == Init => IInv
<1> SUFFICES ASSUME Init PROVE IInv
  OBVIOUS
<1> USE DEF Init
<1>1. TypeOK
  <2>1. 0 \in 0 .. 0 /\ 0 \in 0 .. MaxSession
    BY AppAssumption
  <2>2. QED
    BY <2>1 DEF TypeOK, UpLocation
<1>2. GuiInv /\ CurrentInv /\ OtherInv
  BY AppAssumption DEF GuiInv, CurrentInv, OtherInv, Session
<1>3. QED
  BY <1>1, <1>2 DEF IInv, NoFreedUse

(* A step of the dialog's thread keeps the invariant.                        *)
LEMMA GuiKeeps ==
  ASSUME IInv, Running,
         \/ upnpStart \/ upnpStop \/ SetMonitorEvent \/ JoinMonitor \/ StopChain
         \/ UnBlockChain \/ JoinUpnp \/ EndDialog \/ \E s \in Session : DeliverMessage(s)
  PROVE  IInv'
<1> USE AppAssumption
    DEF Running, IInv, TypeOK, NoFreedUse, GuiInv, CurrentInv, OtherInv, Reached, Session,
        UpLocation, Gui, globals, upVars, monitorVars, history
<1>1. CASE upnpStart
  BY <1>1 DEF upnpStart
<1>2. CASE upnpStop
  BY <1>2 DEF upnpStop
<1>3. CASE SetMonitorEvent
  BY <1>3 DEF SetMonitorEvent
<1>4. CASE JoinMonitor
  BY <1>4 DEF JoinMonitor
<1>5. CASE StopChain
  BY <1>5 DEF StopChain, ChainExists
<1>6. CASE UnBlockChain
  BY <1>6 DEF UnBlockChain, ChainExists
<1>7. CASE JoinUpnp
  <2>1. ~early => up[threadUpnp] = "done"
    BY <1>7 DEF JoinUpnp
  <2>2. GuiInv' /\ TypeOK' /\ NoFreedUse'
    BY <1>7 DEF JoinUpnp
  <2>3. ~early => CurrentInv' /\ OtherInv'
    BY <1>7, <2>1 DEF JoinUpnp
  <2>4. early' = early
    BY <1>7 DEF JoinUpnp
  <2>5. QED
    BY <2>2, <2>3, <2>4
<1>8. CASE EndDialog
  BY <1>8 DEF EndDialog
<1>9. ASSUME NEW s \in Session, DeliverMessage(s) PROVE IInv'
  BY <1>9 DEF DeliverMessage
<1>10. QED
  BY <1>1, <1>2, <1>3, <1>4, <1>5, <1>6, <1>7, <1>8, <1>9

(* A step of the thread that runs the chain of session s keeps it.           *)
LEMMA UpKeeps ==
  ASSUME IInv, Running, NEW s \in Session, UpStep(s) \/ printft(s)
  PROVE  IInv'
<1> USE AppAssumption
    DEF Running, IInv, TypeOK, NoFreedUse, GuiInv, CurrentInv, OtherInv, Reached, Session,
        UpLocation, Up, globals, upVars, monitorVars, history
<1>1. CASE CreateChain(s)
  BY <1>1 DEF CreateChain
<1>2. CASE CreateMicroStack(s)
  BY <1>2 DEF CreateMicroStack
<1>3. CASE CreateTerminator(s)
  BY <1>3 DEF CreateTerminator
<1>4. CASE CreateMonitorThread(s)
  BY <1>4 DEF CreateMonitorThread
<1>5. CASE StartChain(s)
  <2>1. CASE Up(s, "proc", "running")
    BY SMTT(30), <1>5, <2>1 DEF StartChain
  <2>2. CASE Up(s, "running", "leaving") /\ TerminateFlag[s]
    BY SMTT(30), <1>5, <2>2 DEF StartChain
  <2>3. QED
    BY <1>5, <2>1, <2>2 DEF StartChain
<1>6. CASE FreeChain(s)
  BY <1>6 DEF FreeChain
<1>7. CASE printft(s)
  BY <1>7 DEF printft
<1>8. CASE StartWinSock(s)
  <2>1. CASE Up(s, "start", "greet")
    BY SMTT(30), <1>8, <2>1 DEF StartWinSock
  <2>2. CASE Up(s, "start", "refused")
    <3>1. up' = [up EXCEPT ![s] = "refused"] /\ up[s] = "start"
      BY <2>2
    <3>2. sending' \in [Session -> BOOLEAN]
      BY <1>8, <3>1 DEF StartWinSock
    <3>3. UNCHANGED <<gui, globals, TerminateFlag, monitorVars, crashed, history>>
      BY <1>8 DEF StartWinSock
    <3>4. QED
      BY SMTT(30), <3>1, <3>2, <3>3
  <2>3. QED
    BY <1>8, <2>1, <2>2 DEF StartWinSock
<1>9. CASE ReturnWithout(s)
  BY <1>9 DEF ReturnWithout
<1>10. QED
  BY <1>1, <1>2, <1>3, <1>4, <1>5, <1>6, <1>7, <1>8, <1>9 DEF UpStep

(* A step of the address monitor of session s keeps it.                      *)
LEMMA MonitorKeeps ==
  ASSUME IInv, Running, NEW s \in Session, MonitorStep(s) \/ AddressChanges(s)
  PROVE  IInv'
<1> USE AppAssumption
    DEF Running, IInv, TypeOK, NoFreedUse, GuiInv, CurrentInv, OtherInv, Reached, Session,
        UpLocation, globals, upVars, monitorVars, history
<1>1. CASE MonitorWaits(s)
  BY <1>1 DEF MonitorWaits
<1>2. CASE MonitorEnds(s)
  BY <1>2 DEF MonitorEnds
<1>3. CASE ILib_IPAddressMonitor(s)
  BY <1>3 DEF ILib_IPAddressMonitor, StackExists
<1>4. CASE AddressChanges(s)
  BY <1>4 DEF AddressChanges
<1>5. QED
  BY <1>1, <1>2, <1>3, <1>4 DEF MonitorStep

(* The globals name the session that runs, and its monitor thread is over    *)
(* before its chain is stopped.                                              *)
THEOREM InductiveInvariant == SafeSpec => []IInv
<1>1. IInv /\ [Next]_vars => IInv'
  <2> SUFFICES ASSUME IInv, [Next]_vars PROVE IInv'
    OBVIOUS
  <2>1. CASE Next
    BY <2>1, GuiKeeps, UpKeeps, MonitorKeeps DEF Next, GuiStep
  <2>2. CASE UNCHANGED vars
    BY <2>2 DEF vars, globals, upVars, monitorVars, history, IInv, TypeOK, NoFreedUse, GuiInv, CurrentInv,
                OtherInv, Reached
  <2>3. QED
    BY <2>1, <2>2
<1>2. QED
  BY <1>1, InitIInv, PTL DEF SafeSpec

(* No thread of the program uses a chain or a MicroStack that is not there,  *)
(* unless UPnP was stopped while it was starting, but for the second half of *)
(* ILibStopChain when the chain ended by itself after the first.             *)
THEOREM NoUseAfterFree == SafeSpec => []NoFreedUse
<1>1. IInv => NoFreedUse
  BY DEF IInv
<1>2. QED
  BY <1>1, InductiveInvariant, PTL

(* Once the dialog has forgotten a session, nothing of it is left. *)
THEOREM SessionsEnd == SafeSpec => []NothingLeft
<1>1. IInv => NothingLeft
  BY AppAssumption DEF IInv, NothingLeft, OtherInv, TypeOK, Session
<1>2. QED
  BY <1>1, InductiveInvariant, PTL
=============================================================================

-------------------------------- MODULE App ---------------------------------
(***************************************************************************)
(* The threads of the program (upnpRenderer.c, menus.c): the dialog's       *)
(* thread, which starts and stops UPnP from its menu and ends it when it    *)
(* closes; one thread per UPnP session, which builds the chain and then is  *)
(* its chain thread; and one thread per session that tells the MicroStack   *)
(* of changed IP addresses.  They share global variables without a lock.    *)
(*                                                                         *)
(* The program prints by SendMessage to the dialog (printft, wprintft).     *)
(* Windows delivers a message of another thread only while the dialog's     *)
(* thread is in its message loop; until then the sender is blocked.         *)
(***************************************************************************)
EXTENDS Integers

CONSTANT MaxSession       (* bound: how often UPnP is started                  *)

ASSUME AppAssumption == MaxSession \in Nat

Session == 1 .. MaxSession

VARIABLES
  gui,                    (* where the dialog's thread is                      *)
  sessions,               (* how many sessions were started                    *)
  threadUpnp,             (* the session whose thread handle is kept, 0: NULL  *)
  MicroStackChain,        (* the session whose chain this points to, 0: NULL   *)
  UPnPmicroStack,         (* the session whose MicroStack this points to       *)
  Terminator,             (* ILib_IPAddressMonitorTerminator, by session       *)
  MonitorThread,          (* ILib_IPAddressMonitorThread, by session           *)
  up,                     (* where the thread of each session is               *)
  sending,                (* whether it is blocked in a SendMessage            *)
  TerminateFlag,          (* of each session's chain                           *)
  event,                  (* the event each session created                    *)
  monitor,                (* where the monitor thread of each session is       *)
  waitsFor,               (* the event it waits for, by session                *)
  crashed,                (* a NULL or a freed pointer was used                *)
  early,                  (* history: UPnP was stopped when the session's       *)
                          (* monitor thread was not yet, or never, known        *)
  overtaken               (* history: a chain was freed between the two halves *)
                          (* of the ILibStopChain that ended it                *)

globals == <<sessions, threadUpnp, MicroStackChain, UPnPmicroStack, Terminator, MonitorThread>>
upVars == <<up, sending, TerminateFlag>>
monitorVars == <<event, monitor, waitsFor>>
history == <<early, overtaken>>
vars == <<gui, globals, upVars, monitorVars, crashed, history>>

UpLocation == {"none", "start", "greet", "stack", "event", "thread", "proc", "running", "leaving",
               "done", "refused", "failed"}

TypeOK == /\ gui \in {"pump", "setEvent", "joinMonitor", "stopChain", "unblock", "joinUpnp", "closed"}
          /\ sessions \in 0 .. MaxSession
          /\ threadUpnp \in 0 .. sessions /\ MicroStackChain \in 0 .. sessions
          /\ UPnPmicroStack \in 0 .. sessions
          /\ Terminator \in 0 .. sessions /\ MonitorThread \in 0 .. sessions
          /\ up \in [Session -> UpLocation]
          /\ sending \in [Session -> BOOLEAN]
          /\ TerminateFlag \in [Session -> BOOLEAN]
          /\ event \in [Session -> {"none", "clear", "set", "closed"}]
          /\ monitor \in [Session -> {"none", "loop", "wait", "callback", "ended"}]
          /\ waitsFor \in [Session -> 0 .. MaxSession]
          /\ crashed \in BOOLEAN
          /\ early \in BOOLEAN /\ overtaken \in BOOLEAN

Init == /\ gui = "pump"
        /\ sessions = 0
        /\ threadUpnp = 0
        /\ MicroStackChain = 0
        /\ UPnPmicroStack = 0
        /\ Terminator = 0
        /\ MonitorThread = 0
        /\ up = [s \in Session |-> "none"]
        /\ sending = [s \in Session |-> FALSE]
        /\ TerminateFlag = [s \in Session |-> FALSE]
        /\ event = [s \in Session |-> "none"]
        /\ monitor = [s \in Session |-> "none"]
        /\ waitsFor = [s \in Session |-> 0]
        /\ crashed = FALSE
        /\ early = FALSE /\ overtaken = FALSE

(* The MicroStack and the renderer of a session exist until its thread leaves *)
(* the loop of ILibStartChain, the chain until that has destroyed them all.  *)
ChainExists(s) == s # 0 /\ up[s] \in {"stack", "event", "thread", "proc", "running", "leaving"}
StackExists(s) == s # 0 /\ up[s] \in {"event", "thread", "proc", "running"}
-----------------------------------------------------------------------------
(* The dialog's thread. *)

Gui(from, to) == gui = from /\ gui' = to

(* upnpStart, from WM_INITDIALOG or from the menu when there is no thread. *)
upnpStart ==
  /\ Gui("pump", "pump")
  /\ threadUpnp = 0
  /\ sessions < MaxSession
  /\ sessions' = sessions + 1
  /\ threadUpnp' = sessions'
  /\ up' = [up EXCEPT ![sessions'] = "start"]
  /\ UNCHANGED <<MicroStackChain, UPnPmicroStack, Terminator, MonitorThread, sending,
                 TerminateFlag, monitorVars, crashed, history>>

(* upnpStop, from the menu or from WM_CLOSE, begins. *)
upnpStop ==
  /\ Gui("pump", "setEvent")
  /\ threadUpnp # 0
  /\ early' = (early \/ MonitorThread # threadUpnp)
  /\ UNCHANGED <<globals, upVars, monitorVars, crashed, overtaken>>

(* Faulty variant: the terminator is closed but never set. *)
FaultySetMonitorEvent ==
  /\ Gui("setEvent", "joinMonitor")
  /\ UNCHANGED <<globals, upVars, monitorVars, crashed, history>>

(* SetEvent(ILib_IPAddressMonitorTerminator), which fails for a handle that  *)
(* is NULL or closed.                                                       *)
SetMonitorEvent ==
  /\ Gui("setEvent", "joinMonitor")
  /\ event' = [s \in Session |-> IF s = Terminator /\ event[s] = "clear" THEN "set" ELSE event[s]]
  /\ UNCHANGED <<globals, upVars, monitor, waitsFor, crashed, history>>

(* Faulty variant: the monitor thread is not waited for. *)
FaultyJoinMonitor ==
  /\ Gui("joinMonitor", "stopChain")
  /\ event' = [s \in Session |-> IF s = Terminator THEN "closed" ELSE event[s]]
  /\ UNCHANGED <<globals, upVars, monitor, waitsFor, crashed, history>>

(* WaitForSingleObject(ILib_IPAddressMonitorThread), and the terminator is   *)
(* closed.  With a NULL handle the wait fails at once.                      *)
JoinMonitor ==
  /\ Gui("joinMonitor", "stopChain")
  /\ MonitorThread # 0 => monitor[MonitorThread] = "ended"
  /\ event' = [s \in Session |-> IF s = Terminator THEN "closed" ELSE event[s]]
  /\ UNCHANGED <<globals, upVars, monitor, waitsFor, crashed, history>>

(* ILibStopChain(MicroStackChain), whatever this points to by now, first      *)
(* raises the flag, ...                                                     *)
StopChain ==
  /\ Gui("stopChain", "unblock")
  /\ TerminateFlag' = [s \in Session |-> TerminateFlag[s] \/ s = MicroStackChain]
  /\ crashed' = (crashed \/ ~ChainExists(MicroStackChain))
  /\ UNCHANGED <<globals, up, sending, monitorVars, history>>

(* ... and then ILibForceUnBlockChain takes ILibChainLock and reads Terminate *)
(* of the chain, both of which the chain's thread may have destroyed: it     *)
(* need not be blocked when the flag is raised.                             *)
UnBlockChain ==
  /\ Gui("unblock", "joinUpnp")
  /\ crashed' = (crashed \/ ~ChainExists(MicroStackChain))
  /\ UNCHANGED <<globals, upVars, monitorVars, history>>

(* Faulty variant: the thread of the session is not waited for. *)
FaultyJoinUpnp ==
  /\ Gui("joinUpnp", "pump")
  /\ threadUpnp' = 0
  /\ UNCHANGED <<sessions, MicroStackChain, UPnPmicroStack, Terminator, MonitorThread, upVars,
                 monitorVars, crashed, history>>

(* WaitForSingleObject(threadUpnp), CloseHandle, threadUpnp = NULL. *)
JoinUpnp ==
  /\ Gui("joinUpnp", "pump")
  /\ up[threadUpnp] \in {"done", "failed"}
  /\ threadUpnp' = 0
  /\ UNCHANGED <<sessions, MicroStackChain, UPnPmicroStack, Terminator, MonitorThread, upVars,
                 monitorVars, crashed, history>>

(* The end of WM_CLOSE: the message loop ends, and the process with it. *)
EndDialog == /\ Gui("pump", "closed")
             /\ threadUpnp = 0
             /\ UNCHANGED <<globals, upVars, monitorVars, crashed, history>>

(* The message loop delivers a message of another thread. *)
DeliverMessage(s) ==
  /\ Gui("pump", "pump")
  /\ sending[s]
  /\ sending' = [sending EXCEPT ![s] = FALSE]
  /\ UNCHANGED <<globals, up, TerminateFlag, monitorVars, crashed, history>>

GuiStep == \/ SetMonitorEvent \/ JoinMonitor \/ StopChain \/ UnBlockChain \/ JoinUpnp
           \/ \E s \in Session : DeliverMessage(s)
-----------------------------------------------------------------------------
(* The thread of session s: upnpCreate. *)

Up(s, from, to) == up[s] = from /\ ~sending[s] /\ up' = [up EXCEPT ![s] = to]

(* The banner is printed, and later what the sinks of the renderer print and *)
(* what upnpStartedCallback prints: the thread waits for the dialog.         *)
printft(s) ==
  /\ up[s] \in {"greet", "proc", "running"}
  /\ ~sending[s]
  /\ sending' = [sending EXCEPT ![s] = TRUE]
  /\ UNCHANGED <<gui, globals, up, TerminateFlag, monitorVars, crashed, history>>

(* WSAStartup; if it fails the thread prints that and returns, without a      *)
(* chain.                                                                   *)
StartWinSock(s) ==
  /\ \/ Up(s, "start", "greet") /\ UNCHANGED sending
     \/ Up(s, "start", "refused") /\ sending' = [sending EXCEPT ![s] = TRUE]
  /\ UNCHANGED <<gui, globals, TerminateFlag, monitorVars, crashed, history>>

ReturnWithout(s) ==
  /\ Up(s, "refused", "failed")
  /\ UNCHANGED <<gui, globals, sending, TerminateFlag, monitorVars, crashed, history>>

(* MicroStackChain = ILibCreateChain() *)
CreateChain(s) ==
  /\ Up(s, "greet", "stack")
  /\ MicroStackChain' = s
  /\ UNCHANGED <<gui, sessions, threadUpnp, UPnPmicroStack, Terminator, MonitorThread, sending,
                 TerminateFlag, monitorVars, crashed, history>>

(* UPnPCreateMicroStack, CreateMediaRenderer *)
CreateMicroStack(s) ==
  /\ Up(s, "stack", "event")
  /\ UPnPmicroStack' = s
  /\ UNCHANGED <<gui, sessions, threadUpnp, MicroStackChain, Terminator, MonitorThread, sending,
                 TerminateFlag, monitorVars, crashed, history>>

CreateTerminator(s) ==
  /\ Up(s, "event", "thread")
  /\ Terminator' = s
  /\ event' = [event EXCEPT ![s] = "clear"]
  /\ UNCHANGED <<gui, sessions, threadUpnp, MicroStackChain, UPnPmicroStack, MonitorThread,
                 sending, TerminateFlag, monitor, waitsFor, crashed, history>>

CreateMonitorThread(s) ==
  /\ Up(s, "thread", "proc")
  /\ MonitorThread' = s
  /\ monitor' = [monitor EXCEPT ![s] = "loop"]
  /\ UNCHANGED <<gui, sessions, threadUpnp, MicroStackChain, UPnPmicroStack, Terminator,
                 sending, TerminateFlag, event, waitsFor, crashed, history>>

(* ILibStartChain is entered, and left when the flag is seen: every link is   *)
(* destroyed, ...                                                           *)
StartChain(s) ==
  /\ \/ Up(s, "proc", "running")
     \/ Up(s, "running", "leaving") /\ TerminateFlag[s]
  /\ UNCHANGED <<gui, globals, sending, TerminateFlag, monitorVars, crashed, history>>

(* ... then the chain is freed, the lock destroyed, and it returns.           *)
FreeChain(s) ==
  /\ Up(s, "leaving", "done")
  /\ overtaken' = (overtaken \/ gui = "unblock")
  /\ UNCHANGED <<gui, globals, sending, TerminateFlag, monitorVars, crashed, early>>

UpStep(s) == \/ StartWinSock(s) \/ ReturnWithout(s) \/ CreateChain(s) \/ CreateMicroStack(s) \/ CreateTerminator(s)
             \/ CreateMonitorThread(s) \/ StartChain(s) \/ FreeChain(s)
-----------------------------------------------------------------------------
(* The monitor thread of session s. *)

(* ILib_IPAddressMonitorLoop waits for the event the global names now; the   *)
(* wait for a closed handle fails and is tried again.                        *)
MonitorWaits(s) ==
  /\ monitor[s] = "loop"
  /\ event[Terminator] # "closed"
  /\ monitor' = [monitor EXCEPT ![s] = "wait"]
  /\ waitsFor' = [waitsFor EXCEPT ![s] = Terminator]
  /\ UNCHANGED <<gui, globals, upVars, event, crashed, history>>

MonitorEnds(s) ==
  /\ monitor[s] = "wait" /\ event[waitsFor[s]] = "set"
  /\ monitor' = [monitor EXCEPT ![s] = "ended"]
  /\ UNCHANGED <<gui, globals, upVars, event, waitsFor, crashed, history>>

(* An address changed: the wait runs ILib_IPAddressMonitor ...               *)
AddressChanges(s) ==
  /\ monitor[s] = "wait"
  /\ monitor' = [monitor EXCEPT ![s] = "callback"]
  /\ UNCHANGED <<gui, globals, upVars, event, waitsFor, crashed, history>>

(* ... which calls UPnPIPAddressListChanged(UPnPmicroStack) and goes on. *)
ILib_IPAddressMonitor(s) ==
  /\ monitor[s] = "callback"
  /\ monitor' = [monitor EXCEPT ![s] = "loop"]
  /\ crashed' = (crashed \/ ~StackExists(UPnPmicroStack))
  /\ UNCHANGED <<gui, globals, upVars, event, waitsFor, history>>

MonitorStep(s) == MonitorWaits(s) \/ MonitorEnds(s) \/ ILib_IPAddressMonitor(s)

Running == ~crashed /\ gui # "closed"

Next == /\ Running
        /\ \/ upnpStart \/ upnpStop \/ EndDialog
           \/ GuiStep
           \/ \E s \in Session : UpStep(s) \/ printft(s) \/ MonitorStep(s) \/ AddressChanges(s)

SafeSpec == Init /\ [][Next]_vars

(* Every thread goes on when it can; nobody has to print, to use the menu,   *)
(* or to change an address.  A monitor that the address keeps changing under *)
(* ends once its event is set: a wait prefers the event.                     *)
Spec == /\ SafeSpec
        /\ WF_vars(Running /\ GuiStep)
        /\ \A s \in Session : /\ WF_vars(Running /\ UpStep(s))
                              /\ WF_vars(Running /\ MonitorStep(s))
                              /\ SF_vars(Running /\ MonitorEnds(s))
-----------------------------------------------------------------------------
(* No thread uses a chain or a MicroStack that is not there, over any number *)
(* of sessions, as long as UPnP is stopped only after its start got to the   *)
(* monitor thread: upnpStop ends the monitor before it stops the chain.  One *)
(* exception the code has in every stop: ILibForceUnBlockChain is called on  *)
(* a chain that its own thread has seen the flag of, left and freed.  Even   *)
(* then nothing else is used: the chain of that session was over.            *)
NoFreedUse ==
  crashed => early \/ (overtaken /\ gui = "joinUpnp" /\ up[MicroStackChain] = "done")

(* When the dialog thinks UPnP is stopped nothing of it is left: no thread   *)
(* runs and no event is open.                                               *)
NothingLeft ==
  threadUpnp = 0 /\ ~early =>
    \A s \in Session : /\ up[s] \in {"none", "done", "failed"}
                       /\ monitor[s] \in {"none", "ended"}
                       /\ event[s] \in {"none", "closed"}

(* Stopping gives the dialog back, unless the session's thread is blocked in *)
(* a message to the dialog itself, UPnP was stopped while it started, or the *)
(* stop used the chain that was freed under it.                             *)
StopGivesBack ==
  gui \notin {"pump", "closed"} ~> gui = "pump" \/ crashed \/ early \/ (\E s \in Session : sending[s])

(* Where the threads of the session that runs are, and how the globals name  *)
(* it, while every stop came late enough.                                   *)
Reached(s, locations) == up[s] \in locations

CurrentInv ==
  LET s == threadUpnp
  IN  s # 0 =>
        /\ up[s] # "none"
        /\ Reached(s, {"stack", "event", "thread", "proc", "running", "leaving", "done"}) =>
             MicroStackChain = s
        /\ Reached(s, {"event", "thread", "proc", "running", "leaving", "done"}) =>
             UPnPmicroStack = s
        /\ IF Reached(s, {"thread", "proc", "running", "leaving", "done"})
           THEN Terminator = s
           ELSE Terminator # s /\ event[s] = "none"
        /\ IF Reached(s, {"proc", "running", "leaving", "done"})
           THEN MonitorThread = s
           ELSE MonitorThread # s /\ monitor[s] = "none"
        /\ gui # "pump" => MonitorThread = s
        /\ gui \in {"stopChain", "unblock", "joinUpnp"} =>
             monitor[s] = "ended" /\ event[s] = "closed"
        /\ up[s] \in {"leaving", "done"} => TerminateFlag[s]
        /\ TerminateFlag[s] => gui \in {"unblock", "joinUpnp"}
        /\ up[s] = "done" /\ gui = "unblock" => overtaken

(* What sessions to come and sessions that are over look like. *)
OtherInv ==
  \A s \in Session : s # threadUpnp =>
    IF s > sessions
    THEN up[s] = "none" /\ monitor[s] = "none" /\ event[s] = "none" /\ ~TerminateFlag[s]
    ELSE up[s] = "done" /\ monitor[s] = "ended" /\ event[s] = "closed"

GuiInv == /\ threadUpnp \in {0, sessions}
          /\ \A s \in Session : s > sessions => up[s] = "none"
          /\ gui \notin {"pump", "closed"} => threadUpnp # 0
          /\ gui = "closed" => threadUpnp = 0

(* The inductive invariant: while every stop came late enough, the globals   *)
(* name the session that runs, its monitor thread is over before its chain   *)
(* is stopped, and earlier sessions have left nothing behind.                *)
IInv == /\ TypeOK
        /\ NoFreedUse
        /\ GuiInv
        /\ ~early => CurrentInv /\ OtherInv

(* "When the chain cleans itself up, the thread that is blocked on           *)
(* ILibStartChain will return."  It never does when it waits for the dialog  *)
(* and the dialog waits for it.                                             *)
StopReturns == \A s \in Session : TerminateFlag[s] /\ ~early ~> up[s] = "done"
=============================================================================

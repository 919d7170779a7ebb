---------------------------- MODULE AsyncSocket ----------------------------
(***************************************************************************)
(* One TCP socket of the MicroStack (ILibAsyncSocket.c, Windows build       *)
(* without TLS and proxy), as a link of the chain.  The module object is    *)
(* used for one connection after the other: ILibAsyncSocket_ConnectTo is    *)
(* called by the web client's PreSelect, ILibAsyncSocket_UseThisSocket by   *)
(* the server socket's PostSelect.  The chain thread runs the handlers, the *)
(* callbacks to the user of the socket, and the delayed disconnects of the  *)
(* base timer.  ILibAsyncSocket_SendTo and _Resume are called by any        *)
(* thread, ILibAsyncSocket_Disconnect by callbacks and by the timer.        *)
(*                                                                         *)
(* The list of pending sends is guarded by SendLock; what a handler does    *)
(* under the lock is one step.  Callbacks run without the lock, other       *)
(* threads may send meanwhile.                                              *)
(*                                                                         *)
(* Blocks stand for the buffers handed over to ILibAsyncSocket_SendTo, a    *)
(* block has Size bytes, the network takes any number of them at a time.    *)
(* What ILibForceUnBlockChain promises is what module Chain shows: the next *)
(* PreSelect comes without select blocking.                                 *)
(***************************************************************************)
EXTENDS Integers, Sequences, SequencesExt

CONSTANTS Thread,         (* threads outside of the chain that send            *)
          Link,           (* the chain thread, when it calls SendTo            *)
          Block,          (* the buffers handed over, each one once            *)
          Size,           (* bytes of a block                                  *)
          MaxConnection   (* bound: connections one after the other            *)

ASSUME AsyncSocketAssumption == /\ Link \notin Thread
                                /\ Size \in Nat \ {0}
                                /\ MaxConnection \in Nat

VARIABLES
  internalSocket,         (* FALSE for ~0                                      *)
  FinConnect,             (* -1 failed, 0 connecting, 1 connected              *)
  PAUSE,                  (* 1 paused, 0 reading, -1 to be resumed             *)
  PendingSend,            (* the blocks from PendingSend_Head to _Tail         *)
  sent,                   (* bytesSent of each block                           *)
  memory,                 (* who has to free a block: nobody yet or any more,  *)
                          (* the module, or the caller who may do so any time  *)
  disconnects,            (* ILibAsyncSocket_Disconnect calls on the base timer *)
  pc,                     (* where the chain thread is in the link's handlers  *)
  asked,                  (* the sets PreSelect has put the socket into        *)
  poll,                   (* PreSelect has asked for a zero blocktime          *)
  fd_write,               (* select found the socket writable                  *)
  frames,                 (* the callbacks that run, the innermost first       *)
  force,                  (* threads that have yet to unblock the chain        *)
  posted,                 (* the chain was unblocked since PreSelect           *)
  connections,            (* history: how many connections there were          *)
  told,                   (* history: what the user was told of this one       *)
  accepted,               (* history: the blocks taken for this one            *)
  failed,                 (* history: a send on this one failed                *)
  stale                   (* history: blocks were left over from an earlier one *)

Caller == Thread \cup {Link}

connVars == <<internalSocket, FinConnect, PAUSE>>
sendVars == <<PendingSend, sent, memory, disconnects>>
selectVars == <<pc, asked, poll, fd_write>>
unblockVars == <<force, posted>>
history == <<connections, told, accepted, failed, stale>>
vars == <<connVars, sendVars, selectVars, frames, unblockVars, history>>

Set == {"read", "write", "error"}
Memory == {"unused", "caller", "static", "module", "done"}
Callback == {"connected", "data", "end", "sendok"}
Event == {"connected", "failed", "ended"}

TypeOK == /\ internalSocket \in BOOLEAN
          /\ FinConnect \in {-1, 0, 1}
          /\ PAUSE \in {-1, 0, 1}
          /\ PendingSend \in Seq(Block)
          /\ sent \in [Block -> 0 .. Size]
          /\ memory \in [Block -> Memory]
          /\ disconnects \in Nat
          /\ pc \in {"loop", "select", "read", "write"}
          /\ asked \subseteq Set
          /\ poll \in BOOLEAN /\ fd_write \in BOOLEAN
          /\ frames \in Seq(Callback)
          /\ force \subseteq Caller
          /\ posted \in BOOLEAN
          /\ connections \in 0 .. MaxConnection
          /\ told \in Seq(Event)
          /\ accepted \in Seq(Block)
          /\ failed \in BOOLEAN /\ stale \in BOOLEAN

(* ILibCreateAsyncSocketModule *)
Init == /\ internalSocket = FALSE /\ FinConnect = 0 /\ PAUSE = 0
        /\ PendingSend = <<>>
        /\ sent = [b \in Block |-> 0]
        /\ memory = [b \in Block |-> "unused"]
        /\ disconnects = 0
        /\ pc = "loop" /\ asked = {} /\ poll = FALSE /\ fd_write = FALSE
        /\ frames = <<>>
        /\ force = {} /\ posted = FALSE
        /\ connections = 0 /\ told = <<>> /\ accepted = <<>>
        /\ failed = FALSE /\ stale = FALSE
-----------------------------------------------------------------------------
(* The blocks in set bs are done with: the module frees those it owns. *)
Freed(bs) == [b \in Block |-> IF b \in bs THEN "done" ELSE memory[b]]

(* Faulty variant: a buffer of the caller is kept, not copied. *)
FaultyKept(b, ownership) ==
  [memory EXCEPT ![b] = CASE ownership = "CHAIN" -> "module"
                          [] ownership = "USER" -> "caller"
                          [] ownership = "STATIC" -> "static"]

(* Block b is kept in the list after SendTo has returned: a buffer of the    *)
(* caller was copied, the copy belongs to the module.                       *)
Kept(b, ownership) ==
  [memory EXCEPT ![b] = IF ownership = "STATIC" THEN "static" ELSE "module"]

(* Faulty variant: leaves what is new to the next round of the chain. *)
FaultyUnblocks(c) == force' = force

Unblocks(c) == force' = force \cup {c}

(* Faulty variant: the caller is told of the error, the chain is not. *)
FaultyDisconnectLater == disconnects' = disconnects

(* ILibLifeTime_Add of an ILibAsyncSocket_Disconnect without delay *)
DisconnectLater == disconnects' = disconnects + 1

(* Faulty variant: the list is not looked at, only the connection. *)
FaultyMustQueue == FinConnect = 0

(* There are bytes pending, or the connection is. *)
MustQueue == PendingSend # <<>> \/ FinConnect = 0

(* Whether c may call SendTo: outside threads at any time, the chain thread  *)
(* from a callback.                                                         *)
MayCall(c) == /\ c \notin force
              /\ c = Link => frames # <<>>

(* ILibAsyncSocket_SendTo, up to its call of ILibForceUnBlockChain, by what  *)
(* it finds: a closed socket, ...                                           *)
SendOnClosedSocket(c, b, ownership) ==
  /\ MayCall(c) /\ memory[b] = "unused"
  /\ ~internalSocket
  /\ memory' = [memory EXCEPT ![b] = "done"]
  /\ UNCHANGED <<connVars, PendingSend, sent, disconnects, selectVars, frames, unblockVars, history>>

(* ... bytes ahead of these, ... *)
SendQueued(c, b, ownership) ==
  /\ MayCall(c) /\ memory[b] = "unused"
  /\ internalSocket /\ MustQueue
  /\ PendingSend' = Append(PendingSend, b)
  /\ memory' = Kept(b, ownership)
  /\ Unblocks(c)
  /\ accepted' = Append(accepted, b)
  /\ UNCHANGED <<connVars, sent, disconnects, selectVars, frames, posted, connections, told,
                 failed, stale>>

(* ... a network that takes all of them or the first k, ... *)
SendAtOnce(c, b, ownership, k) ==
  /\ MayCall(c) /\ memory[b] = "unused"
  /\ internalSocket /\ ~MustQueue
  /\ sent' = [sent EXCEPT ![b] = k]
  /\ accepted' = Append(accepted, b)
  /\ IF k = Size
     THEN /\ memory' = [memory EXCEPT ![b] = "done"]
          /\ UNCHANGED <<PendingSend, force>>
     ELSE /\ PendingSend' = <<b>>
          /\ memory' = Kept(b, ownership)
          /\ Unblocks(c)
  /\ UNCHANGED <<connVars, disconnects, selectVars, frames, posted, connections, told,
                 failed, stale>>

(* ... or an error: the chain thread is to disconnect. *)
SendFails(c, b, ownership) ==
  /\ MayCall(c) /\ memory[b] = "unused"
  /\ internalSocket /\ ~MustQueue
  /\ memory' = [memory EXCEPT ![b] = "done"]
  /\ DisconnectLater
  /\ failed' = TRUE
  /\ UNCHANGED <<connVars, PendingSend, sent, selectVars, frames, unblockVars, connections,
                 told, accepted, stale>>

(* ILibAsyncSocket_Resume *)
Resume(c) ==
  /\ MayCall(c)
  /\ PAUSE > 0
  /\ PAUSE' = -1
  /\ Unblocks(c)
  /\ UNCHANGED <<internalSocket, FinConnect, sendVars, selectVars, frames, posted, history>>

(* ILibForceUnBlockChain at the end of the two. *)
ForceUnBlockChain(c) ==
  /\ c \in force
  /\ force' = force \ {c}
  /\ posted' = TRUE
  /\ UNCHANGED <<connVars, sendVars, selectVars, frames, history>>
-----------------------------------------------------------------------------
(* What closing the socket tells the user: OnConnect with 0, or OnDisconnect. *)
Ending == IF FinConnect <= 0 THEN "failed" ELSE "ended"

(* The socket is closed and the user's callback starts. *)
CloseAndTell == /\ internalSocket' = FALSE
                /\ told' = Append(told, Ending)
                /\ frames' = <<"end">> \o frames

(* ILibAsyncSocket_ClearPendingSend *)
ClearPendingSend == /\ PendingSend' = <<>>
                    /\ memory' = Freed(ToSet(PendingSend))

(* Faulty variant: does not look whether there is a socket to be closed. *)
FaultyDisconnect == PAUSE' = 1 /\ ClearPendingSend /\ CloseAndTell

(* ILibAsyncSocket_Disconnect, up to the user's callback *)
Disconnect ==
  \/ internalSocket /\ PAUSE' = 1 /\ ClearPendingSend /\ CloseAndTell
  \/ ~internalSocket /\ UNCHANGED <<internalSocket, PAUSE, PendingSend, memory, told, frames>>

(* The base timer runs a delayed ILibAsyncSocket_Disconnect: on whatever the *)
(* module is connected to by now.                                           *)
TimerDisconnect ==
  /\ pc = "loop" /\ frames = <<>>
  /\ disconnects > 0
  /\ disconnects' = disconnects - 1
  /\ Disconnect
  /\ UNCHANGED <<FinConnect, sent, selectVars, unblockVars, connections, accepted, failed, stale>>

(* What a callback of the user does besides sending and resuming: it         *)
(* disconnects, pauses the reading, ...                                     *)
UserDisconnects ==
  /\ frames # <<>> /\ Link \notin force
  /\ Disconnect
  /\ UNCHANGED <<FinConnect, sent, disconnects, selectVars, unblockVars, connections,
                 accepted, failed, stale>>

UserPauses ==
  /\ frames # <<>> /\ Link \notin force
  /\ Head(frames) = "data" /\ internalSocket
  /\ PAUSE' = 1
  /\ UNCHANGED <<internalSocket, FinConnect, sendVars, selectVars, frames, unblockVars, history>>

(* ... and returns.  What is done after OnDisconnect (or a failed OnConnect) *)
(* belongs to it.  That OnData is called again with what is left stutters.   *)
UserReturns ==
  /\ frames # <<>> /\ Link \notin force
  /\ frames' = Tail(frames)
  /\ FinConnect' = IF Head(frames) = "end" THEN 0 ELSE FinConnect
  /\ UNCHANGED <<internalSocket, PAUSE, sendVars, selectVars, unblockVars, history>>
-----------------------------------------------------------------------------
NewConnection == /\ ~internalSocket /\ frames = <<>>
                 /\ connections < MaxConnection
                 /\ connections' = connections + 1
                 /\ internalSocket' = TRUE /\ PAUSE' = 0
                 /\ accepted' = <<>> /\ failed' = FALSE
                 /\ stale' = (PendingSend # <<>>)
                 /\ UNCHANGED <<PendingSend, sent, memory, pc, poll, fd_write, frames, force>>

(* ILibAsyncSocket_ConnectTo: the connection is on its way.  The client's    *)
(* PreSelect may come before or after the socket's; select does not know of  *)
(* the socket in the latter case.                                           *)
ConnectTo ==
  /\ pc \in {"loop", "select"}
  /\ NewConnection
  /\ FinConnect' = 0 /\ told' = <<>>
  /\ posted' = TRUE
  /\ asked' = {}
  /\ UNCHANGED disconnects

(* A connect that succeeds at once is taken for a failure. *)
ConnectAtOnce ==
  /\ pc \in {"loop", "select"}
  /\ NewConnection
  /\ FinConnect' = -1 /\ told' = <<>>
  /\ DisconnectLater
  /\ asked' = {}
  /\ UNCHANGED posted

(* ILibAsyncSocket_UseThisSocket: the server socket has accepted somebody. *)
UseThisSocket ==
  /\ pc = "loop"
  /\ NewConnection
  /\ FinConnect' = 1 /\ told' = <<"connected">>
  /\ UNCHANGED <<disconnects, asked, posted>>

(* ILibAsyncSocket_PreSelect *)
PreSelect ==
  /\ pc = "loop" /\ frames = <<>>
  /\ pc' = "select"
  /\ asked' = IF ~internalSocket THEN {}
              ELSE (CASE FinConnect = 0 -> {"write", "error"}
                      [] FinConnect # 0 /\ PAUSE = 0 -> {"read", "error"}
                      [] OTHER -> {})
                   \cup (IF PendingSend # <<>> THEN {"write"} ELSE {})
  /\ poll' = (internalSocket /\ PAUSE < 0)
  /\ posted' = FALSE
  /\ UNCHANGED <<connVars, sendVars, fd_write, frames, force, history>>

(* ILibAsyncSocket_PostSelect up to the call of ILibProcessAsyncSocket, when *)
(* select has put the socket into ready: nothing to do, ...                  *)
PostSelectIdle(ready) ==
  /\ pc = "select" /\ frames = <<>> /\ ready \subseteq asked
  /\ ~internalSocket \/ FinConnect = -1
  /\ pc' = "loop"
  /\ UNCHANGED <<connVars, sendVars, asked, poll, fd_write, frames, unblockVars, history>>

Selected(ready) == /\ pc = "select" /\ frames = <<>> /\ ready \subseteq asked
                   /\ internalSocket /\ FinConnect # -1
                   /\ fd_write' = ("write" \in ready)
                   /\ UNCHANGED <<asked, poll, unblockVars, sent, disconnects, connections,
                                  accepted, failed, stale>>

(* ... an error (select's, or the SO_ERROR of the socket), which ends in     *)
(* ILibAsyncSocket_PrivateShutdown, ...                                      *)
PostSelectError(ready) ==
  /\ Selected(ready)
  /\ CloseAndTell
  /\ pc' = "write"
  /\ UNCHANGED <<FinConnect, PAUSE, PendingSend, memory>>

(* ... the connection, ... *)
PostSelectConnect(ready) ==
  /\ Selected(ready) /\ "error" \notin ready
  /\ FinConnect = 0
  /\ \/ /\ "write" \in ready
        /\ FinConnect' = 1 /\ PAUSE' = 0
        /\ told' = Append(told, "connected")
        /\ frames' = <<"connected">>
     \/ /\ "write" \notin ready
        /\ UNCHANGED <<FinConnect, PAUSE, told, frames>>
  /\ pc' = "write"
  /\ UNCHANGED <<internalSocket, PendingSend, memory>>

(* ... something to read, ... *)
PostSelectRead(ready) ==
  /\ Selected(ready) /\ "error" \notin ready
  /\ FinConnect = 1 /\ "read" \in ready
  /\ pc' = "read"
  /\ UNCHANGED <<connVars, PendingSend, memory, frames, told>>

Resumed == IF PAUSE < 0 THEN PAUSE + 1 ELSE PAUSE

(* ... a resumed connection: the user gets what was left in the buffer.      *)
PostSelectResume(ready) ==
  /\ Selected(ready) /\ "error" \notin ready
  /\ FinConnect = 1 /\ "read" \notin ready
  /\ PAUSE' = Resumed
  /\ frames' \in IF PAUSE < 0 THEN {<<>>, <<"data">>} ELSE {<<>>}
  /\ pc' = "write"
  /\ UNCHANGED <<internalSocket, FinConnect, PendingSend, memory, told>>

(* ILibProcessAsyncSocket with data to be read: it is handed to the user, or *)
(* the other side has closed, or the buffer is full.                         *)
ProcessAsyncSocket ==
  /\ pc = "read" /\ PAUSE <= 0
  /\ \/ /\ frames' = <<"data">>
        /\ UNCHANGED <<internalSocket, PAUSE, PendingSend, memory, told>>
     \/ ClearPendingSend /\ CloseAndTell /\ UNCHANGED PAUSE
     \/ Disconnect
  /\ pc' = "write"
  /\ UNCHANGED <<FinConnect, sent, disconnects, asked, poll, fd_write, unblockVars, connections,
                 accepted, failed, stale>>

(* The write half of PostSelect.  The network takes the first k blocks and   *)
(* the first m bytes of the next one.                                       *)
MayWrite == FinConnect > 0 /\ internalSocket /\ fd_write /\ PendingSend # <<>>

Gone(k) == ToSet(SubSeq(PendingSend, 1, k))

Sending == /\ pc = "write" /\ frames = <<>> /\ MayWrite
           /\ pc' = "loop"
           /\ UNCHANGED <<connVars, asked, poll, fd_write, unblockVars, connections, told,
                          accepted, stale>>

WriteAll ==
  /\ Sending
  /\ sent' = [b \in Block |-> IF b \in ToSet(PendingSend) THEN Size ELSE sent[b]]
  /\ ClearPendingSend
  /\ frames' = <<"sendok">>
  /\ UNCHANGED <<disconnects, failed>>

WriteSome(k, m) ==
  /\ Sending
  /\ k < Len(PendingSend)
  /\ LET next == PendingSend[k + 1] IN
     /\ m >= sent[next]
     /\ sent' = [b \in Block |-> CASE b \in Gone(k) -> Size
                                   [] b = next -> m
                                   [] OTHER -> sent[b]]
  /\ PendingSend' = SubSeq(PendingSend, k + 1, Len(PendingSend))
  /\ memory' = Freed(Gone(k))
  /\ UNCHANGED <<disconnects, failed, frames>>

(* An error clears the list; what had left of it no longer matters. *)
WriteFails ==
  /\ Sending
  /\ ClearPendingSend
  /\ DisconnectLater
  /\ failed' = TRUE
  /\ UNCHANGED <<sent, frames>>

NothingToWrite ==
  /\ pc = "write" /\ frames = <<>> /\ ~MayWrite
  /\ pc' = "loop"
  /\ UNCHANGED <<connVars, sendVars, asked, poll, fd_write, frames, unblockVars, history>>
-----------------------------------------------------------------------------
Ownership == {"CHAIN", "STATIC", "USER"}

SendTo(c) == \E b \in Block, ownership \in Ownership :
               \/ SendOnClosedSocket(c, b, ownership)
               \/ SendQueued(c, b, ownership)
               \/ \E k \in 0 .. Size : SendAtOnce(c, b, ownership, k)
               \/ SendFails(c, b, ownership)

PostSelect == \E ready \in SUBSET Set : \/ PostSelectIdle(ready)
                                        \/ PostSelectError(ready)
                                        \/ PostSelectConnect(ready)
                                        \/ PostSelectRead(ready)
                                        \/ PostSelectResume(ready)

Write == \/ WriteAll
         \/ \E k \in 0 .. Len(PendingSend) : \E m \in 0 .. Size - 1 : WriteSome(k, m)
         \/ WriteFails
         \/ NothingToWrite

(* What the chain thread does of itself *)
Handlers == PreSelect \/ PostSelect \/ ProcessAsyncSocket \/ Write \/ ForceUnBlockChain(Link)

Next == \/ Handlers
        \/ UserReturns
        \/ TimerDisconnect
        \/ UserDisconnects
        \/ UserPauses
        \/ ConnectTo
        \/ ConnectAtOnce
        \/ UseThisSocket
        \/ \E c \in Caller : SendTo(c) \/ Resume(c)
        \/ \E c \in Thread : ForceUnBlockChain(c)

Spec == Init /\ [][Next]_vars

(* The chain thread goes round, every round runs the base timer first, and   *)
(* no callback pauses and resumes for ever.                                 *)
FairSpec == Spec /\ WF_vars(Handlers) /\ SF_vars(TimerDisconnect) /\ SF_vars(UserReturns)
-----------------------------------------------------------------------------
(* A user gets OnConnect once, and OnDisconnect once and only after it was   *)
(* connected, by the time the module is free for the next connection:        *)
(* whichever of the callback, the peer, the timer and an error closes it,    *)
(* and however these come on top of each other.                              *)
ToldOnce ==
  /\ internalSocket => told \in {<<>>, <<"connected">>}
  /\ ~internalSocket /\ connections > 0 => told \in {<<"failed">>, <<"connected", "ended">>}

(* The bytes leave in the order SendTo was called in: none of a block        *)
(* before all of the blocks accepted earlier.  (A send that failed drops     *)
(* what was pending; blocks of an earlier connection may be in between.)     *)
InOrder ==
  ~failed /\ ~stale =>
    \A i, j \in DOMAIN accepted :
      i < j /\ sent[accepted[j]] > 0 => sent[accepted[i]] = Size

(* What is pending is memory that stays valid, and what the module has to    *)
(* free is pending: nothing leaks, is freed twice or read after the caller   *)
(* has freed it.                                                            *)
PendingOwned ==
  \A b \in Block : b \in ToSet(PendingSend) <=> memory[b] \in {"module", "static"}

(* What ToldOnce and PendingOwned rest on: a block is pending once, what the  *)
(* user was told agrees with FinConnect, and a callback about the end runs   *)
(* only when there is no socket.                                            *)
PendingOnce == \A i, j \in DOMAIN PendingSend : PendingSend[i] = PendingSend[j] => i = j

ToldAgrees ==
  /\ internalSocket => told = IF FinConnect = 1 THEN <<"connected">> ELSE <<>>
  /\ "end" \in ToSet(frames) => ~internalSocket
  /\ pc = "read" => internalSocket /\ frames = <<>>

IInv == TypeOK /\ PendingOnce /\ PendingOwned /\ ToldAgrees /\ ToldOnce

(* While the chain sleeps in select, the socket is in every set its state    *)
(* asks for, or somebody is about to wake the chain: nothing that SendTo,    *)
(* Resume or ConnectTo leave behind waits for the timeout of select.         *)
Watched ==
  pc = "select" /\ internalSocket /\ ~posted /\ force = {} /\ ~poll /\ disconnects = 0 =>
    /\ PendingSend # <<>> => "write" \in asked
    /\ FinConnect = 0 => {"write", "error"} \subseteq asked
    /\ FinConnect # 0 /\ PAUSE = 0 => {"read", "error"} \subseteq asked
    /\ PAUSE >= 0

(* A connection on which a send has failed is closed, and the user told so.  *)
FailedSendEnds == failed /\ internalSocket ~> ~internalSocket

=============================================================================

# Formal models of upnpRenderer

TLA+ modules, TLC configurations and TLAPS proofs about upnpRenderer, a UPnP
media renderer for Windows that drives a media player.  Paths below are
relative to `src/upnpRenderer/`.

## 1. Inventory

| Part | Source | State it keeps | Operations |
|---|---|---|---|
| Application | `upnpRenderer.c`, `menus.c`, `functions.c` | the globals `threadUpnp`, `MicroStackChain`, `UPnPmicroStack`, `ILib_IPAddressMonitor...`; the dialog | start and stop UPnP, print to the dialog, take `WM_COPYDATA` of a player, the tray menu |
| Sinks | `upnpRenderer.c` `MROn...Sink` | none | carry out a control point's request on the player, report to the renderer |
| Player control | `MediaPlayerControl/` | the global object `mp` | window messages or HTTP requests to a player |
| Media renderer | `IntelMMR/MicroMediaRenderer.c` | the global object `MR`: transport, media, track, volume, mute, changed flags, the moderation flag | `MRSet...`, `MRGet...`, the UPnP action handlers, the moderation callback |
| Thread chain | `IntelMicroStack/ILibParsers.c` | the list of links, `TerminateFlag`, the dummy socket `Terminate` | run, unblock, stop |
| Timers | same | `ObjectList`, `Reserved`, `NextTriggerTick` | add, remove, check, flush |
| TCP, server and UDP sockets | `ILibAsync...Socket.c` | socket, connection state, receive buffer, pending sends | connect, send, disconnect, select handlers |
| Web server, web client | `ILibWebServer.c`, `ILibWebClient.c` | sessions and virtual directories; pool of connections and queued requests | answer requests; pipeline requests |
| MicroStack | `UPnPMicroStack.c` (generated) | subscribers, notifies to send, SSDP state | dispatch actions, subscribe, renew, expire, event, advertise |
| Containers, lock, parsers | `ILibParsers.c` | lists, hash trees, reader-writer lock; none | |

How they interact.  One thread per UPnP session runs `ILibStartChain`; all of
the MicroStack, its timers, the renderer's action handlers and the sinks run
on it.  The dialog's thread starts and stops sessions and reports what a player
tells it by `WM_COPYDATA`; a third thread waits for address changes.  The
threads share globals without a lock, the objects of the MicroStack with one
lock each, and wake the chain thread by closing a dummy socket it selects on.
Every print is a `SendMessage` to the dialog, so it waits for the dialog's thread.

What is hard: wake-ups that race with a `select`, timers changed by their own
callbacks, changes that come while an earlier event is still moderated, the
shutdown of three threads, buffers whose ownership passes between a caller and
the chain thread, and a connection that is closed from three places.

What makes each part correct:

* renderer: every change of an evented variable reaches the subscribers, at
  most one event per moderation window;
* chain: no wake-up is lost, a stop ends the thread;
* timers: each fires or is destroyed exactly once, in order, not early, and the
  chain does not sleep past it;
* application: a stopped session leaves nothing behind and nothing of it is used;
* sockets: bytes leave in the order they were handed over, on the connection
  they were meant for; a buffer is freed exactly once; the user hears of each
  connection and of its end once; what is to be sent or read is selected for;
* web server and client, MicroStack: a session or request is answered or failed
  once, a subscriber gets its events in sequence until it expires;
* containers, lock, parsers: each computes what its reference definition says.

Every part, modelled or not, is listed with its files in `PROJECT.json`
("components"), and so is every place that is hard to test ("hazards").

## 2. Modules

| Module | Models | Composes |
|---|---|---|
| `ModeratedEventing` | what moderated eventing promises, without flags and timers | |
| `Renderer` | `MR` and every `MRSet...` operation, both `Update...LastChangeModerated`, the moderation timer and its callback | implements `ModeratedEventing` |
| `MCRenderer` | constants and state constraint for TLC | `Renderer` |
| `WakeUp` | the state of the chain that its wake-up is about, and `NoLostWakeUp` | shared by `Chain` and `LifeTime` |
| `Chain` | `ILibStartChain`, `ILibForceUnBlockChain`, `ILibStopChain` | extends `WakeUp` |
| `LifeTime` | `ILibLifeTime_AddEx`, `_Remove`, `_Check`, `_Destroy` | extends `WakeUp` with the timers for a link of the chain, and implements `Chain` |
| `AsyncSocket` | `ILibAsyncSocket_SendTo`, `_Resume`, `_Disconnect`, `_ConnectTo`, `_UseThisSocket`, `_PreSelect`, `_PostSelect`, `_PrivateShutdown`, `ILibProcessAsyncSocket` | takes from `Chain` that a posted wake-up ends the next select |
| `EventSubscription` | SUBSCRIBE, renewal and UNSUBSCRIBE, `UPnPSendEvent`, `UPnPSendEventSink`, `UPnPExpireSubscriberInfo`, the destruction of MicroStack and web client | its changes are the events of `Renderer`, all sent by the chain thread |
| `App` | `upnpStart`, `upnpStop`, `upnpCreate`, the monitor thread, `printft` | |
| `Dispatch` | what the `UPnPDispatch_...` functions and `UPnPProcessPOST` check of an action's request, `ILibGetULong`, `ILibGetLong` (operators only) | |
| `Control` | the action handlers of the renderer, the sinks, the player control, `wmCopyData`, the choice of a player | uses `Dispatch`; its `MRSet` is the operations of `Renderer`; media players are external |
| `MCControl` | two players with their ini files, 34 kinds of requests | `Control` |
| `Server` | the pool of `ILibAsyncServerSocket`, the sessions of `ILibWebServer`, `ILibWebClient_OnData` of the server, the MicroStack's answers to GET, HEAD and POST, and its faults | takes a socket and the base timer as what `AsyncSocket` and `LifeTime` promise |
| `MCServer` | the nine kinds of requests that differ | `Server` |
| `WebClient` | `ILibWebClient_PipelineRequestEx2`, `_PreProcess`, `_OnConnect`, `_OnData`, `_ProcessChunk`, `_FinishedResponse`, `_OnDisconnectSink`, `_TimerSink`, `ILibDestroyWebClient` | takes sockets and timers as what `AsyncSocket` and `LifeTime` promise; its requests are the notifications of `EventSubscription` |
| `..._proofs` | theorems | each extends its module; `LifeTime_proofs` has those about `Chain` too |

`map` in `PROJECT.json` names the source lines of every definition.

**Renderer.**  `Rcs_Volume`, `Rcs_Mute`, the changed flags and `ModerationFlag`
are the fields of `struct MRDataObject`; fields of the transport side that one
operation compares and replaces together are one entry of `Avt`.  An operation
runs under `LockLastChanges` from end to end, so it is one action.  The timer is
two steps, because `ILibLifeTime_Check` takes it off its list before the
callback competes for the lock.  `evented` records what subscribers were told.

**Chain.**  `pc` follows the loop of `ILibStartChain`.  The dummy socket
`Terminate` is closed by other threads under `ILibChainLock`, but tested and
opened again by the chain thread without it, so these are steps of their own.  A
request (`posted`) stands for whatever a thread leaves for a link.

**LifeTime.**  The link's `PreSelect` is `SkipCheck`, or `BeginCheck`, `Scan`,
`Fire`/`CallbackReturns` for each timer and `EndCheck`, cut where the lists'
locks are released.  `ILibLifeTime_AddEx` is `AddEx`, `Insert`, `LowerTrigger`,
because it computes the expiry before the lock, wakes the chain from inside it
and lowers `NextTriggerTick` last.  Callbacks may add and remove timers.

**AsyncSocket.**  Whatever runs under `SendLock` is one step; callbacks run
without it and are a stack, `frames`, since a callback may disconnect and so
start another one.  A callback may send, resume, pause, disconnect and return in
any order.  `memory` says who has to free each buffer; `told` and `accepted`
record what the user was told and what was taken for the current connection.

**EventSubscription.**  The list and the counter of each service, a
`SubscriberInfo` per subscription and the notifications under way.  All handlers
run on the chain thread, so each is one action; what is concurrent are the
notifications, which end by answer or failure at any time, and the clock.  One
connection goes to each control point (`MaxConnectionsToSameServer` is 1), so the
notifications of a subscriber end in order.  A notification is answered (`Answered`),
fails (`Failed`), or is dropped without a word behind one that fails
(`FailedWithNext`): that is what `WebClient` does when a connection fails with two
requests in its queue.  Which subscriptions share a control point is not modelled, so
any other one, or the same, may be the one behind.  `memory` says who freed a record,
`told` what the control point has answered, `missed` which subscriptions an event
passed over because they had expired, `lost` how many notifications of each were
dropped, and `skipped` how many of these since the last one answered.

**App.**  One variable per global of the program, and one state per session for
its thread, its chain, its event and its monitor thread, because a global may
point to a session that is gone.  A print is a step that blocks its thread until
the dialog's thread is back in its message loop.  `ILibStopChain` is two steps
(`StopChain`, `UnBlockChain`): it raises `TerminateFlag` and then takes the lock of the
chain and reads the chain, without anything that keeps the chain's thread from having
left (`StartChain`) and freed both (`FreeChain`) in between.  `overtaken` records that
it had.  A thread whose `WSAStartup` fails prints that and returns without a chain
(`StartWinSock`, `ReturnWithout`).

**Dispatch and Control.** A request is a record of the parts the dispatch functions
look at.  `UPnPProcessPOST` says which error they answer, or that they call the
handler, and what `errno` is afterwards: `ILibGetULong` reads it and nothing resets
it.  The text of a number is a sequence: `<<>>` is empty, which the conversion takes
for 0 (`Converted`), and more than one entry leaves something over.  What a handler
does is a sequence of calls, put together as the code nests them: the handler of
`MicroMediaRenderer.c` calls its sink, the sink commands and asks the player and tells
the renderer, the handler answers.  The variable `work` holds the rest of it; each
step of the chain thread makes the first call, and between two calls the dialog's
thread and the user may move.  The ini file of a player is a constant: which table has
the number of a command decides whether it goes by `WM_COMMAND`, `WM_USER` or
`WM_COPYDATA`, and whether the answer comes at once or later.  `mp` passes through
"freed" and "empty" when the dialog's thread replaces it.  The metadata of an answer
is made in two steps (`MakeMetadata`, `TakeMetadata`), for the handler tests
`CurrentURIMetaData` and reads it again.  `history`, `parted` and `hand` are no
variables of the program: the properties need them to say in which circumstances they
hold.

**Server.** A session has the fields of `ILibWebServer_Session` under the names they
have there (`Reserved4` answered, `Reserved5` request made, `Reserved6` close,
`Reserved8` `RequestAnswered` called).  A client's connection is a line of headers and
bodies; `OnWholeRequest`, `OnHeader`, `OnBody` and `OnMisread` are what
`ILibWebClient_OnData` makes of what has arrived.  An answer is a sequence of pieces,
one for each call that sends: a header and a body, with the end of the chunks under
HTTP/1.1, for a document and for the result of an action; two packets for the fault of
an action; one packet for an error of the dispatch.  The network takes any number of
them at once, the rest is pending, or fails, whatever the code then still tries to
send.  `ILibLifeTime_Check` takes all that is due off the timer and calls it
afterwards (`batch`), so a callback may meet what an earlier one has freed.

**WebClient.**  `wcdo` has the fields of `ILibWebClientDataObject` that decide what is
done, `DataTable`, `idleTable`, `idleCount` and `backlogQueue` are those of the manager.
All of it runs on the chain thread, so a handler is one action, split by the case it
finds: `FirstRequest`, `LaterRequest` and `IdleRequest` are the branches of
`PipelineRequestEx2`, `DisconnectedIdle`, `...Answered`, `...Retry` and `...Failed` those
of `OnDisconnectSink`.  An answer comes whole, or as a header with a body to follow in a
length, in chunks, or up to the close; chunks of one body are one step.  The actions of
the idle timer are two steps, as in `Server`: taken off the list, then called.
`outcome`, `sent`, `served`, `cut` and `left` record what became of each request.

## 3. Runs

| Run | Checks | Bounds and why they are enough |
|---|---|---|
| `renderer` | at most one event per window, changes reach subscribers, refinement of `ModeratedEventing` | two channels, two levels, one value besides the initial one in each transport field, at most `MaxChanged` transport fields away from it: every pair of services in one window, and each operation in either role |
| `lifetime` | no lost wake-up, a stop returns, each timer in one place, no endless sleep, not early, each timer ends, refinement of `Chain` | two outside threads, of which one may stop the chain while the other is inside a wake-up, and the callbacks on the chain's own; two timers of one object, delays 0 and 2, time to 3: one may fire while the other is added, removed or waits; the last tick stands for all later ones |
| `socket` | told once, in order, owned once, watched, a failed send ends the connection | one sending thread and the callbacks, two buffers of two bytes, two connections: one buffer may be sent in part while the other waits, and something may be left from the first connection for the second |
| `events` | freed only when done, no leak, numbering, last value sent is the present one, events arrive | three subscriptions of two services, two to a service, one change, time to 1: one may expire, be purged or renewed while another waits with the initial event and the change under way, and lose one of them behind the failure of the third; `MaxTimeout` 0, so that whatever was asked for a subscription ends with the second it was made or renewed in |
| `events_freed` | violation: `NoFreedUse` | one subscription |
| `app` | no use after free, nothing left, stop gives the dialog back | two sessions: the second may meet what the first has left |
| `app_stop` | violation: `StopReturns` | one session |
| `control` | one answer to each request, no effect of a refused one, fresh answers, no use of a freed player, mute of renderer and player agree, every request answered | two requests of 34 kinds: each action that reaches a player or changes the renderer after each other one, each way to refuse once; one thing done by hand, at any point; two players, one of which answers some questions late and some by HTTP |
| `control_errno` | violation: `LegalAccepted` | two requests: one sets `errno`, the next one is refused |
| `server` | whole answers in order, no freed session, disconnects of one's own, no answer cut off, every request answered, every connection ended | one socket, two connections and so the second after the first on the same socket, two requests each of nine kinds, sent one by one or ahead; up to three pieces of an answer, any of which the network may leave pending; `MaxPiece` 4 lets a request be answered twice |
| `webclient` | requests end once (but for what `webclient_lost` shows), in order, with their own answers, are sent twice at most; no freed object is pointed to, none is forgotten; every request ends | two addresses and one socket, so that one has to wait until the other gives it back; up to three requests to one address, so that one may fail, one be lost and one be tried again, and four in all; `MaxIdle` 0, so the second object that becomes idle evicts the first |
| `webclient_lost` | violation: `NoneLost` | two requests to one address |

The runs are kept to a dozen, one to a question; what else was looked at while a module
was written (the type invariants, the inductive invariants, timers in order, counters of
subscriptions, the idle timer of a session) is proved instead, where there is a proof.

Deadlock is checked where the system cannot stop (renderer, socket).  It is not
where it may: a stopped chain (`lifetime`), a closed dialog, a crash
or the hang of `App`, a destroyed MicroStack (`events...`), all requests of the
bound made and answered (`control...`), a stopped server or client (`server`,
`webclient`).

Every property of a passing run is refuted by a variant of the code: the
definitions `Faulty...`, each beside the one it replaces.

### Fairness

* Renderer: the moderation timer expires and its callback gets the lock; the
  chain thread runs timers as long as it lives, and no holder of the lock blocks.
* Chain, LifeTime: the chain thread takes its next step when it can, a thread in
  a call finishes it, time passes.  There is none for "another socket is ready",
  and none for the timeout of a day, so a wake-up must come from the protocol.
* AsyncSocket: the same for the handlers.  The base timer is strongly fair,
  since every round of the chain runs it first (`TimersEnd` of `LifeTime` is the
  property behind this), and a callback returns.  The network, the users and
  other threads need do nothing.
* EventSubscription: the oldest notification of a subscriber ends, by the answer,
  because the connection fails, or because it is dropped behind one that fails
  (`Ends`).  This is what `RequestsEnd` of `WebClient` says of each request, except for
  its two cases of a socket that is held for ever (`left`, `cut`), which are assumed
  away here; and that a connection ends is an assumption about the control point and
  TCP, for the web client has no timeout of its own.  Nobody
  need subscribe, renew or change anything, and time may stand still.
* App: every thread goes on when it can.  The monitor's end is strongly fair: a
  wait that finds its event set returns, however often the address changes.
* Control: both threads take their next step when they can.  A player answers a
  message or the HTTP request fails, since `SendMessage` and the three tries of
  `sendHttpRequest` return; the users need do nothing, and no request need come.
* Server: the chain thread handles what has arrived and calls what is on the timer,
  the network takes what is sent or breaks, and a client finishes a body that it has
  begun or leaves.  A client need not send anything, nor leave.
* WebClient: a connect is decided, a server that has been asked answers or closes,
  idle timers run out, `PreProcess` runs in every round of the chain.  No server need
  close a connection that nothing is asked on, so sockets come back only by the idle
  timer.

### Where a property makes an exception

The exceptions are circumstances in which the code does go wrong, or cannot do
better; each is a hazard with its line.

* `NoFreedUse` of `App` excepts a stop before the start was through (`early`), and a
  chain freed between the two halves of the `ILibStopChain` that ends it
  (`overtaken`), which may happen in any stop.  In the second case only that call uses
  what is gone, and nothing of another session.
* `NothingLeaks`, `InSequence`, `UpToDate` and `EventsArrive` of `EventSubscription`
  except what the web client drops, and no more than that: a subscriber keeps a reference
  only if one of its own notifications failed or was dropped; what is missing from its
  numbers is as many as were dropped (`skipped`); and it has the present value unless the
  last notification was the one dropped (`LastDropped`).
* `AnsweredFresh` speaks of questions that a player answers at once, of an open
  window and of requests by HTTP that got through.  A player that answers by
  `WM_COPYDATA` is read from the cache, before the answer has come.
* `NoFreedUse` of `Control` excepts three circumstances: no player was chosen since
  the program started (`mp` is NULL and the sinks do not test it), the user chooses a
  player in the menu while a request is worked on, and `MRSetWinTitleUri` frees the
  metadata that an answer is being made from.
* `MuteKept` holds until `parted`: somebody mutes the player by hand, the request
  asks for what is so already, the command is lost, or another player is chosen.
* The properties of `Server` except `hasty` sessions: a HEAD request, and the 400 of
  `OnResponse`, are done with whether their answer was sent or is pending, so the next
  request is read meanwhile.
* `OwnAnswer` and `RequestsEnd` except what follows after a request was tried again with
  part of an answer read (`cut`): `OnConnect` resets neither `FinHeader` nor the header,
  so the new answer is taken for the rest of the old one.  `Carried` and `RequestsEnd`
  except the socket that the timer of the idle leaves open when it evicts another object
  (`left`).  `Accounted` and `RequestsEnd` except a request that is lost behind one that
  has failed (`LostBehind`), which the run `webclient_lost` shows; no other request
  leaves the queue without a call of its `OnResponse`.

## 4. What the code does otherwise

Four disagreements between the code and what it says of itself are shown by runs
(`findings` in `PROJECT.json` quotes the lines):

1. `upnpStop` waits for the session's thread on the dialog's thread, which has
   to deliver that thread's prints: both wait for ever (`app_stop`).
2. At the end of the chain the MicroStack frees its listed subscribers and its lock
   while notifications hold references; the web client, destroyed later, reports
   these to `UPnPSendEventSink` (`events_freed`).  `ILibWebClient.c:416` notes a crash
   on exit there.
3. `ILibGetULong` and `ILibGetLong` take a left-over `ERANGE` for their own: after one
   number that does not fit, every request with a number is refused with 402
   (`control_errno`).
4. When a new connection fails its first request, `ILibWebClient_OnDisconnectSink`
   removes that request, and `ILibWebClient_FinishedResponse` the next one, without
   telling anybody (`webclient_lost`): an event is skipped, and its subscriber keeps a
   reference.  The comment in `OnDisconnectSink` says that `FinishedResponse` will not
   do that.

More were met on the way.  The models have them as the code has them, and they are noted
among the hazards:

* A timer removed by a callback of the same `ILibLifeTime_Check` fires anyway:
  `Reserved` holds the data, `Check` looks for the node (`ILibParsers.c:4777-4781`).
* `ILibStopChain` uses the chain and its lock after it has raised `TerminateFlag`, when
  the chain's thread may have freed both (`ILibParsers.c:1657`; `overtaken` in `App`).
* `ILibWebClient_TimerSink` returns before it closes the idle socket when it has evicted
  another object; the socket is lost to the pool until the server closes
  (`ILibWebClient.c:513`; `left` in `WebClient`).
* `UpdateAvtLastChange` clears its flags while the call that sends the event is
  commented out, so control points are never told of a transport change.
* `ILibLifeTime_AddEx` compares a list node with timer data, so a timer that becomes the
  first of a list that is not empty does not wake the chain.
* `ILibAsyncSocket_PrivateShutdown` leaves the list of pending sends, which the next
  connection of the module sends.

Others that no sentence of the repository contradicts are hazards with a note:
for instance an expired subscriber is passed over by events, stays listed and may
renew without a gap in SEQ, and a delayed disconnect hits whatever connection the socket
has by then.

## 5. Proofs

Eight modules, `..._proofs`, prove for every value of the constants (any channels and
values, threads, timers, sessions, buffers, connections, services, subscriptions,
players and requests) that an invariant is inductive, and from it the properties
below.  It is `IInv`, in `AsyncSocket_proofs` also `OrderInv`, in `Control_proofs` the
four parts `MpInv`, `WorkInv`, `MuteInv` and `FreshInv`, in `LifeTime_proofs` `LInv`
and, for the chain, `Chn!IInv`, and in `Server_proofs` `SInv` and `WInv`.  Each was
model-checked on a small instance before it was proved.  The constants are assumed to
be what the `...Assumption` of each module says, no more.

* *Renderer.*  `OneCallbackPerWindow`, `NoChangeStranded` and
  `ToldUnlessFlagged` need each other: a change is flagged only while the flag
  `ModerationFlag` is up, this has a callback coming, and the callback clears
  both.  From them follow `AtMostOneEventPerWindow` and that the safety part
  implements that of `ModeratedEventing`, one step to one step or a stutter.
* *Chain.*  `NoLostWakeUp` says what holds while the chain thread is blocked;
  `IInv` adds where it can be otherwise, with a request outstanding of which the
  wake-up is over: on its way to look at it, or with the dummy socket closed.
  The step that reopens the socket keeps it because the loop test and the links
  come before the next select.  It is proved of `Chain` for any calling threads
  (`WakeUpsKept`, in `LifeTime_proofs`), so that the timers inherit it.
* *LifeTime.*  Lemmas about lists come first: what `Kept` keeps and where a new timer
  goes leave a list sorted and without repetition.  `OneHome` is inductive with
  `AddInv`, since a timer being added is in no queue yet.  `SleepEnds` needs `SleepInv`:
  until the scan has seen the first timer of a list, a wake-up is to come or the chain
  cannot block (`PostInv`); after it the next trigger is known (`TriggerInv`) and then
  the wait (`WaitInv`).  `NotEarly` follows from `CheckInv`: what waits to fire was
  overdue when the Check began.  The refinement of `Chain` maps each step to a step or
  a stutter; with `IInv` of the chain it follows that `NoLostWakeUp` also holds of
  the steps of the timers themselves (`TimersWake`).
* *App.*  `NoFreedUse` needs that the globals name the running session, that its
  monitor has ended before its chain is stopped, and that earlier sessions are
  over; all of this only if no stop came before the start was through.  The chain is
  there when the flag is raised, since only then may its thread leave; at the second half
  of `ILibStopChain` it is gone exactly if its thread was faster (`overtaken`).
* *AsyncSocket.*  `PendingOwned` is inductive with `PendingOnce`: a freed head
  must not be pending a second time.  `ToldOnce` needs that `told` agrees with
  `FinConnect`, and that while a callback about the end runs there is no socket,
  since its return resets `FinConnect`.  `Watched` is inductive with `IInv`: whoever
  gives the socket more to do has a wake-up under way.  `InOrder` needs
  `OrderInv`: the pending blocks are the last of the accepted ones, those before them
  have left, and of those behind the first pending one nothing has (`Tally`), unless a
  send failed or the list was inherited from the connection before.

* *EventSubscription.* `FreedWhenDone` and `NothingLeaks` need `Referenced`: as long
  as nothing failed, RefCount is the list's reference plus the notifications under way
  and those that were dropped.  Each handler has a lemma; the four cases of
  `UPnPSendEventSink` are one, and a drop is that after which another queue is
  shorter.  `InSequence` and `UpToDate` are inductive together with it (`Sent`), since
  a failure takes the subscriber off its list only because, listed, it has more than
  one reference.

* *Control.* `WorkInv` says that the calls left of a request are a sink's calls
  followed by one answer, or one refusal before anything was touched.  A call replaces
  itself by calls without an answer (lemma `CallKeeps`), so it is enough to look once
  at every handler and sink (`Sinks`, `HandlerAnswers`); from it follow `OneAnswer`
  and `RefusedUntouched`.  `NoFreedUse` needs `MpInv`: while the dialog's thread
  replaces the player, either the chain's thread is the one that asked for it and
  waits, or the user did.  `MuteKept` needs to know at each call what is left to do:
  `MuteInv` says that the rest is quiet (no call toggles or tells mute), or is what is
  left of a change of mute, before or after the player was toggled (`ToStart`,
  `ToToggle`, `ToTell`).  It rests on `IniAssumption`: the numbers an ini file gives
  for mute, volume and state belong to no other command, and the codes of the states
  differ.  All ini files of the repository (`src/Release/`) are like this; the program
  does not test it, and a file with one number for mute and for play would make the
  renderer wrong.  Other numbers may coincide: the file of MPC-BE has one for the
  duration and the file name.  `AnsweredFresh` needs `FreshInv`, which follows a
  question for the volume or the state from call to call (`Stage`): until the player
  is asked nothing is known; then `value`, then the renderer's variable, then the
  answer is how the player was at some time since the request came, *if* it is one
  that answers at once and nothing happened that excuses it.  The step that matters is
  that a handle once found stays good as long as nobody closes the player or chooses
  another one (`HandleFound`, lemma `CalmKeeps`): the dialog's thread and the user may
  move between any two calls.  Requests about something else are told apart by the
  call they end with (`Apart`).
* *Server.* `NotCutOff`, `OwnDisconnect`, `IdleWhenIdle` and `NoFreedUse` are about
  timers that were taken off the list and not called yet.  `SInv` therefore speaks of
  each session as it was before `ILibLifeTime_Check` took them out (`Before`): put
  back, the flags, the timers and what is pending go together (`Good`).  A socket has
  one session at a time, so a disconnect on the list is the session's own; it is taken
  off when the session ends, and a new one comes only between two rounds of the timer.
  `AnswersWhole` compares neighbours: each piece may follow the one before it
  (`Follows`) and the first one opens the first answer.  An answer is one, two or
  three pieces (`PiecesCases`): a document, the result of an action and a fault may be
  cut anywhere between them, and each case is looked at.  What makes that inductive is
  `WInv`: the parts on the line come one after the other, up to the one the client
  sends next (`PartsInOrder`), and what the session reads next goes with what it sent
  last (`Placed`): the next request after an answer, the body of a request before its
  answer or after its 100 Continue, or, while it is paused, nothing until the answer
  has been taken.  A session that is to be disconnected, after an error or a last
  answer, sends nothing more, and one that was hasty is excused.  `RespondedSends`
  says what one call of the handler adds, whether the network takes it, cuts it or
  refuses it, and `OneWhole` that the other sessions stay as they were.
* *WebClient.* `Carried`, `InTurn`, `Accounted` and `OwnAnswer` belong to one
  invariant, since each leans on the others.  For each address: its queue holds the
  last numbers made (`QueueOf`), so that `Gone + 1` is the request under way; an
  object has its timer, its place among the idle, in the backlog or its socket
  according to whether there are requests (`LinkOf`); what was read of an answer
  belongs to a request that is still there, and only after a retry in the middle of
  one (`cut`) is a header left over for a new connection (`HeaderOf`); nothing was
  sent before its turn, and a second time only on a connection that had not been used
  (`SentOf`); what is not over has no outcome (`OutcomeOf`); and what the server has
  still to answer is exactly the request under way (`AnswerOf`).  A socket in use has
  one object, and that object points back (`UserOf`).  Most actions touch one address
  and leave the others' part alone (`Same`); `PreProcess` gives several sockets away
  at once, in the order of the backlog.

Only model-checked: everything with fairness (`~>`, `TimersEnd`, `FailedSendEnds`,
`EventsArrive`, `RequestsEnd`, ...), which is beyond the prover.  Every safety invariant
that a passing run checks is a theorem.

## 6. Not modelled

TLS and the HTTP proxy (not in the Windows build), POSIX variants, text of documents
and headers, tray icon and menus, logging, memory exhaustion (the code exits).  Use
after free is not followed: the models stop there (`crashed` in `EventSubscription`
and `App`) or let the call do nothing (a call on a freed chain).  Reads of shared
words without a lock are atomic.  The empty buffer in the list of pending sends and
the pointers into the receive buffer are left out of `AsyncSocket`.
`EventSubscription` leaves out the answers to control points, the SID's text, the
record that a malformed callback leaks, and a clock that is set back.  `Server` leaves
out virtual directories, `ILibWebServer_StreamFile`, `ILibWebServer_Send` and
overridden handlers, which the renderer does not use, chunked requests, and the
references other threads might hold; a chunk stands for the sends of its size, its
data and its end, and one for the several of a long document.  `Control` leaves out
texts that are truncated or escaped, the list of players, the file name and times of a
track, and the thread that a player without a window is started by.

`WebClient` leaves out what the renderer never calls: cancelling and deleting requests,
streamed requests, HEAD, ranges, several connections to one address; and informational
answers (1xx), which change nothing.  A server answers a request once.

Seven hazards of `PROJECT.json` have no property, because what can go wrong there does go
wrong, and no sentence of the code promises otherwise: the models go those ways, a
history variable records that they did, and the properties except just these cases
(`retitled`, `overtaken`, `stale`, `missed`, `hasty`, `cut`; the seventh is the missing
AVTransport event).

Whole parts that are left out: SSDP over UDP, lists, queues, trees and the lock of
`ILibParsers.c`, and its parsers of XML, HTTP, URIs and times, which are sequential
functions about characters.

## 7. Plan

Done: the core and its proofs (`Renderer`, `Chain`, `LifeTime`, `App`, `AsyncSocket`,
`EventSubscription`), the player with the sinks and the dispatch of actions
(`Control`), the web server (`Server`), the web client (`WebClient`).  Left, the most
used first:

1. An abstract specification of what one subscriber sees (numbered values ending
   with the present one, or an end), implemented by `EventSubscription`; the
   events of `Renderer` as its changes.
2. `EventSubscription` over `WebClient`: the notifications of several subscribers of
   one address share a connection, with what is lost there.
3. `ReadWriteLock` and containers of `ILibParsers.c`: the lock as a state
   machine, lists, queues and hash trees against sets and functions.
4. `Parsers`: chunk decoding, ISO time, escapes, HTTP packets, as operators
   checked against a reference over bounded inputs.
5. `SSDP`: periodic advertisement and delayed answers to searches.
6. Proofs: the abstract subscription's refinement.

A new component gets its run in place of one that shows the least by then: a violation
run gives way to a note among the hazards, and components that interact share a run
(server and sockets, player and renderer).

------------------------------ MODULE WebClient ------------------------------
(***************************************************************************)
(* The web client of the MicroStack (ILibWebClient.c), by which it sends    *)
(* its notifications.  There is one connection object (wcdo) for each        *)
(* address, with a queue of requests, of which the first is the one under   *)
(* way.  Objects that need a connection wait in backlogQueue for one of the *)
(* PoolSize sockets; those that have nothing to do are told by a timer,      *)
(* give their socket back and wait in idleTable.                            *)
(*                                                                         *)
(* A request ends when OnResponse is called for it with done, or when it is  *)
(* taken out of the queue without that, which is recorded as lost.  The n-th *)
(* request to an address is the number n.  Everything here runs on the      *)
(* chain thread, PipelineRequest too (the notifications come from sinks and *)
(* from the moderation timer), so a handler is one action.                  *)
(*                                                                         *)
(* A socket is what AsyncSocket promises: it tells the outcome of a connect *)
(* once, then of data, then of the end once.                                *)
(***************************************************************************)
EXTENDS Integers, Sequences, FiniteSets, SequencesExt, FiniteSetsExt

CONSTANTS
  Address,                (* where requests go to                              *)
  PoolSize,               (* how many sockets there are; 5 for the MicroStack  *)
  MaxIdle,                (* MAX_IDLE_SESSIONS, 20 in the code                 *)
  MaxRequest,             (* bound: how many requests go to one address, ...   *)
  MaxTotal                (* ... and to all of them                            *)

ASSUME WebClientAssumption ==
  /\ IsFiniteSet(Address)
  /\ PoolSize \in Nat \ {0} /\ MaxIdle \in Nat /\ MaxRequest \in Nat /\ MaxTotal \in Nat

VARIABLES
  DataTable,              (* the addresses that have a connection object       *)
  wcdo,                   (* the objects                                       *)
  RequestQueue,           (* the requests of each object                       *)
  backlogQueue,           (* the objects that wait for a socket                *)
  idleTable, idleCount,   (* the objects that gave theirs back                 *)
  timers,                 (* the objects whose idle timer runs                 *)
  due,                    (* those whose timer ILibLifeTime_Check took off its *)
                          (* list and did not call yet                         *)
  socks,                  (* the sockets, with what the server has to do       *)
  running,                (* until the chain destroys the web client           *)
  issued,                 (* history: how many requests there were, ...        *)
  outcome,                (* ... how each has ended, ...                       *)
  sent,                   (* ... on how many connections it was sent, ...      *)
  served,                 (* ... and which ones their server began to answer   *)
  cut,                    (* history: objects that met the rest of an answer   *)
                          (* on a new connection                               *)
  left                    (* history: objects whose timer left the socket open *)

tables == <<DataTable, idleTable, idleCount>>
history == <<sent, served, cut, left>>
vars == <<tables, wcdo, RequestQueue, backlogQueue, timers, due, socks, running, issued,
          outcome, history>>

Sock == 1 .. PoolSize
Request == 1 .. MaxRequest
NULL == 0
NewObject == [SOCK |-> NULL, Closing |-> FALSE, InitialRequestAnswered |-> FALSE,
              FinHeader |-> FALSE, WaitForClose |-> FALSE]

(* A socket is free, connecting or connected.  asked are the requests the      *)
(* server has not answered yet, body is whether the rest of an answer is      *)
(* still to come.                                                           *)
FreeSock == [state |-> "free", user |-> NULL, asked |-> <<>>, body |-> FALSE]

(* ILibCreateWebClient *)
Init == /\ DataTable = {} /\ idleTable = {} /\ idleCount = 0
        /\ wcdo = [a \in Address |-> NewObject]
        /\ RequestQueue = [a \in Address |-> <<>>]
        /\ backlogQueue = <<>>
        /\ timers = {} /\ due = {}
        /\ socks = [s \in Sock |-> FreeSock]
        /\ running = TRUE
        /\ issued = [a \in Address |-> 0]
        /\ outcome = [a \in Address |-> [r \in Request |-> "none"]]
        /\ sent = [a \in Address |-> [r \in Request |-> 0]]
        /\ served = [a \in Address |-> {}]
        /\ cut = {} /\ left = {}

(* The outcomes after the requests rs to a have ended in the way how; the    *)
(* second end of a request would be noticed.                                *)
Ended(out, a, rs, how) ==
  [out EXCEPT ![a] = [r \in Request |-> IF r \notin rs THEN @[r]
                                        ELSE IF @[r] = "none" THEN how ELSE "twice"]]

(* ILibAsyncSocket_Send of request r to a on socket s. *)
Send(s, a, r) == /\ socks' = [socks EXCEPT ![s].asked = Append(@, r)]
                 /\ sent' = [sent EXCEPT ![a][r] = @ + 1]

SendsNothing == UNCHANGED <<socks, sent>>

(* FAULT: the next answer is taken for the rest of this one. *)
FaultyReset(w) == [w EXCEPT !.WaitForClose = FALSE, !.InitialRequestAnswered = TRUE]

(* ILibWebClient_ResetWCDO *)
Reset(w) == [w EXCEPT !.FinHeader = FALSE, !.WaitForClose = FALSE,
                      !.InitialRequestAnswered = TRUE]
-----------------------------------------------------------------------------
(* ILibWebClient_PipelineRequestEx2, with the number of the new request: the *)
(* address has no object yet, ...                                           *)
FirstRequest(a, r) ==
  /\ a \notin DataTable
  /\ DataTable' = DataTable \cup {a}
  /\ wcdo' = [wcdo EXCEPT ![a] = NewObject]
  /\ RequestQueue' = [RequestQueue EXCEPT ![a] = <<r>>]
  /\ backlogQueue' = Append(backlogQueue, a)
  /\ SendsNothing
  /\ UNCHANGED <<idleTable, idleCount, timers>>

(* FAULT: the request is sent while another one is under way. *)
FaultyLaterRequest(a, r) ==
  /\ a \in DataTable /\ RequestQueue[a] # <<>> /\ wcdo[a].SOCK # NULL
  /\ RequestQueue' = [RequestQueue EXCEPT ![a] = Append(@, r)]
  /\ Send(wcdo[a].SOCK, a, r)
  /\ UNCHANGED <<tables, wcdo, backlogQueue, timers>>

(* ... the object has requests before this one, ...                          *)
LaterRequest(a, r) ==
  /\ a \in DataTable /\ RequestQueue[a] # <<>>
  /\ RequestQueue' = [RequestQueue EXCEPT ![a] = Append(@, r)]
  /\ SendsNothing
  /\ UNCHANGED <<tables, wcdo, backlogQueue, timers>>

(* ... or it has none: the request goes out at once, or waits for a socket.  *)
IdleRequest(a, r) ==
  /\ a \in DataTable /\ RequestQueue[a] = <<>>
  /\ RequestQueue' = [RequestQueue EXCEPT ![a] = <<r>>]
  /\ idleCount' = IF idleCount = 0 THEN 0 ELSE idleCount - 1
  /\ idleTable' = idleTable \ {a}
  /\ timers' = timers \ {a}
  /\ \/ /\ wcdo[a].SOCK = NULL
        /\ backlogQueue' = Append(backlogQueue, a)
        /\ SendsNothing
     \/ /\ wcdo[a].SOCK # NULL
        /\ Send(wcdo[a].SOCK, a, r)
        /\ UNCHANGED backlogQueue
  /\ UNCHANGED <<DataTable, wcdo>>

PipelineRequest(a) ==
  /\ running /\ issued[a] < MaxRequest
  /\ MapThenSumSet(LAMBDA b : issued[b], Address) < MaxTotal
  /\ issued' = [issued EXCEPT ![a] = @ + 1]
  /\ LET r == issued[a] + 1 IN FirstRequest(a, r) \/ LaterRequest(a, r) \/ IdleRequest(a, r)
  /\ UNCHANGED <<due, running, outcome, served, cut, left>>

(* ILibWebClient_PreProcess: the free sockets, in their order, for the objects *)
(* that wait, in theirs, until no socket is free or none waits.              *)
Free == {s \in Sock : socks[s].state = "free"}

FreeSockets(n) ==
  {f \in [1 .. n -> Free] :
     /\ \A i, j \in 1 .. n : i < j => f[i] < f[j]
     /\ \A i \in 1 .. n, s \in Free : s < f[i] => \E j \in 1 .. n : f[j] = s}

(* The place of x among the first n of f. *)
Place(f, n, x) == CHOOSE i \in 1 .. n : f[i] = x

ConnectTo(a) == [FreeSock EXCEPT !.state = "connecting", !.user = a]
WithSocket(w, s) == [w EXCEPT !.SOCK = s, !.Closing = FALSE]

GiveSockets(n, f) ==
  /\ backlogQueue' = SubSeq(backlogQueue, n + 1, Len(backlogQueue))
  /\ socks' = [s \in Sock |-> IF \E i \in 1 .. n : f[i] = s
                              THEN ConnectTo(backlogQueue[Place(f, n, s)]) ELSE socks[s]]
  /\ wcdo' = [a \in Address |-> IF \E i \in 1 .. n : backlogQueue[i] = a
                                THEN WithSocket(wcdo[a], f[Place(backlogQueue, n, a)])
                                ELSE wcdo[a]]

PreProcess ==
  /\ running /\ due = {}
  /\ \E n \in 1 .. Len(backlogQueue) : \E f \in FreeSockets(n) :
       /\ n = Len(backlogQueue) \/ Free = {f[i] : i \in 1 .. n}
       /\ GiveSockets(n, f)
  /\ UNCHANGED <<tables, RequestQueue, timers, due, running, issued, outcome, history>>
-----------------------------------------------------------------------------
(* What the network tells is told in the PostSelect of the sockets.          *)
Told(s, state) == running /\ due = {} /\ socks[s].state = state

(* ILibWebClient_OnConnect, with a connection: the first request is sent.     *)
OnConnect(s) ==
  /\ Told(s, "connecting")
  /\ LET a == socks[s].user
         r == Head(RequestQueue[a])
     IN /\ wcdo' = [wcdo EXCEPT ![a].SOCK = s, ![a].InitialRequestAnswered = FALSE]
        /\ socks' = [socks EXCEPT ![s].state = "connected", ![s].asked = <<r>>]
        /\ sent' = [sent EXCEPT ![a][r] = @ + 1]
  /\ UNCHANGED <<tables, RequestQueue, backlogQueue, timers, due, running, issued, outcome,
                 served, cut, left>>

(* ... and without one: the object is destroyed, and every request of it ends *)
(* (ILibWebClient_DestroyWebClientDataObject).                              *)
OnConnectFailed(s) ==
  /\ running /\ socks[s].state = "connecting"
  /\ LET a == socks[s].user
     IN /\ DataTable' = DataTable \ {a}
        /\ idleTable' = idleTable \ {a}
        /\ wcdo' = [wcdo EXCEPT ![a] = NewObject]
        /\ RequestQueue' = [RequestQueue EXCEPT ![a] = <<>>]
        /\ outcome' = Ended(outcome, a, ToSet(RequestQueue[a]), "failed")
  /\ socks' = [socks EXCEPT ![s] = FreeSock]
  /\ UNCHANGED <<idleCount, backlogQueue, timers, due, running, issued, history>>

(* FAULT: the idle timer is not started. *)
FaultyFinishedResponse(s, a, rest) ==
  LET queue == Tail(RequestQueue[a])
      next == IF queue = <<>> THEN {} ELSE {Head(queue)}
  IN /\ outcome' = Ended(outcome, a, {Head(RequestQueue[a])}, "answered")
     /\ RequestQueue' = [RequestQueue EXCEPT ![a] = queue]
     /\ wcdo' = [wcdo EXCEPT ![a] = Reset(@)]
     /\ socks' = [socks EXCEPT ![s] = [rest EXCEPT !.asked = @ \o SetToSeq(next)]]
     /\ sent' = [sent EXCEPT ![a] = [r \in Request |-> IF r \in next THEN @[r] + 1 ELSE @[r]]]
     /\ UNCHANGED timers

(* ILibWebClient_FinishedResponse while the socket s of a is open: the first  *)
(* request has ended; the next one is sent, or the idle timer started.  The  *)
(* server is left with what it owes in rest.                                *)
FinishedResponse(s, a, rest) ==
  LET queue == Tail(RequestQueue[a])
  IN /\ outcome' = Ended(outcome, a, {Head(RequestQueue[a])}, "answered")
     /\ RequestQueue' = [RequestQueue EXCEPT ![a] = queue]
     /\ wcdo' = [wcdo EXCEPT ![a] = Reset(@)]
     /\ \/ /\ queue # <<>>
           /\ socks' = [socks EXCEPT ![s] = [rest EXCEPT !.asked = Append(@, Head(queue))]]
           /\ sent' = [sent EXCEPT ![a][Head(queue)] = @ + 1]
           /\ UNCHANGED timers
        \/ /\ queue = <<>>
           /\ socks' = [socks EXCEPT ![s] = rest]
           /\ timers' = timers \cup {a}
           /\ UNCHANGED sent

(* The server begins to answer the oldest request it has got. *)
Answers(s) == /\ Told(s, "connected")
              /\ socks[s].asked # <<>> /\ ~socks[s].body
              /\ LET a == socks[s].user
                 IN served' = [served EXCEPT ![a] = @ \cup {Head(socks[s].asked)}]
              /\ UNCHANGED <<tables, backlogQueue, due, running, issued, cut, left>>

AfterHead(s) == [socks[s] EXCEPT !.asked = Tail(@)]

(* ILibWebClient_OnData: nobody has asked, the data are thrown away; ...      *)
OnDataUnasked(s) ==
  /\ Answers(s)
  /\ RequestQueue[socks[s].user] = <<>>
  /\ socks' = [socks EXCEPT ![s] = AfterHead(s)]
  /\ UNCHANGED <<wcdo, RequestQueue, timers, outcome, sent>>

(* ... the answer came as a whole, ...                                       *)
OnDataWhole(s) ==
  /\ Answers(s)
  /\ LET a == socks[s].user
     IN /\ RequestQueue[a] # <<>> /\ ~wcdo[a].FinHeader
        /\ FinishedResponse(s, a, AfterHead(s))

(* ... its header, with a body to follow that has a length or is in chunks,   *)
(* or that ends with the connection, ...                                    *)
OnDataHeader(s) ==
  /\ Answers(s)
  /\ LET a == socks[s].user
     IN /\ RequestQueue[a] # <<>> /\ ~wcdo[a].FinHeader
        /\ \E close \in BOOLEAN :
             /\ wcdo' = [wcdo EXCEPT ![a].FinHeader = TRUE, ![a].WaitForClose = close]
             /\ socks' = [socks EXCEPT ![s] = [AfterHead(s) EXCEPT !.body = ~close]]
  /\ UNCHANGED <<RequestQueue, timers, outcome, sent>>

(* ... or an answer that is taken for the rest of the one that was cut off    *)
(* with the connection before: there is more to come, or this was all, or    *)
(* what is over comes as one more answer.                                   *)
OnDataMisread(s) ==
  /\ Answers(s)
  /\ LET a == socks[s].user
     IN /\ RequestQueue[a] # <<>> /\ wcdo[a].FinHeader /\ ~wcdo[a].WaitForClose
        /\ \/ /\ socks' = [socks EXCEPT ![s] = AfterHead(s)]
              /\ UNCHANGED <<wcdo, RequestQueue, timers, outcome, sent>>
           \/ FinishedResponse(s, a, AfterHead(s))
           \/ FinishedResponse(s, a, socks[s])

(* The rest of the body: ILibWebClient_OnData, or ILibWebClient_ProcessChunk. *)
OnDataBody(s) ==
  /\ Told(s, "connected")
  /\ socks[s].body
  /\ FinishedResponse(s, socks[s].user, [socks[s] EXCEPT !.body = FALSE])
  /\ UNCHANGED <<tables, backlogQueue, due, running, issued, served, cut, left>>
-----------------------------------------------------------------------------
(* ILibWebClient_OnDisconnectSink, for the object a of a closed socket, by    *)
(* what is left to do: nothing, or nothing that is looked at while the object *)
(* is closing; ...                                                          *)
DisconnectedIdle(a) ==
  /\ ~wcdo[a].WaitForClose
  /\ wcdo[a].Closing \/ RequestQueue[a] = <<>>
  /\ wcdo' = [wcdo EXCEPT ![a].SOCK = NULL]
  /\ UNCHANGED <<RequestQueue, backlogQueue, outcome, cut>>

(* ... the answer ended with the connection; ...                             *)
DisconnectedAnswered(a) ==
  /\ wcdo[a].WaitForClose
  /\ LET queue == Tail(RequestQueue[a])
     IN /\ outcome' = Ended(outcome, a, {Head(RequestQueue[a])}, "answered")
        /\ RequestQueue' = [RequestQueue EXCEPT ![a] = queue]
        /\ backlogQueue' = IF wcdo[a].Closing \/ queue = <<>> THEN backlogQueue
                           ELSE Append(backlogQueue, a)
  /\ wcdo' = [wcdo EXCEPT ![a] = [Reset(@) EXCEPT !.SOCK = NULL]]
  /\ UNCHANGED cut

(* ... the connection was a used one, the request is tried on another; ...    *)
DisconnectedRetry(a) ==
  /\ ~wcdo[a].WaitForClose /\ ~wcdo[a].Closing /\ RequestQueue[a] # <<>>
  /\ wcdo[a].InitialRequestAnswered
  /\ backlogQueue' = Append(backlogQueue, a)
  /\ wcdo' = [wcdo EXCEPT ![a].SOCK = NULL]
  /\ cut' = IF wcdo[a].FinHeader THEN cut \cup {a} ELSE cut
  /\ UNCHANGED <<RequestQueue, outcome>>

(* FAULT: the request that has failed stays in the queue. *)
FaultyDisconnectedFailed(a) ==
  /\ ~wcdo[a].WaitForClose /\ ~wcdo[a].Closing /\ RequestQueue[a] # <<>>
  /\ ~wcdo[a].InitialRequestAnswered
  /\ outcome' = Ended(outcome, a, {Head(RequestQueue[a])}, "failed")
  /\ backlogQueue' = Append(backlogQueue, a)
  /\ wcdo' = [wcdo EXCEPT ![a] = [Reset(@) EXCEPT !.SOCK = NULL]]
  /\ UNCHANGED <<RequestQueue, cut>>

(* ... or it was a new one: the request has failed.  The sink dequeues it,    *)
(* and FinishedResponse, which finds no socket, dequeues another one, whose  *)
(* OnResponse nobody calls.                                                 *)
DisconnectedFailed(a) ==
  /\ ~wcdo[a].WaitForClose /\ ~wcdo[a].Closing /\ RequestQueue[a] # <<>>
  /\ ~wcdo[a].InitialRequestAnswered
  /\ LET queue == RequestQueue[a]
         others == SubSeq(queue, 3, Len(queue))
         failed == Ended(outcome, a, {queue[1]}, "failed")
     IN /\ outcome' = IF Len(queue) = 1 THEN failed ELSE Ended(failed, a, {queue[2]}, "lost")
        /\ RequestQueue' = [RequestQueue EXCEPT ![a] = others]
        /\ backlogQueue' = IF others = <<>> THEN backlogQueue ELSE Append(backlogQueue, a)
  /\ wcdo' = [wcdo EXCEPT ![a] = [Reset(@) EXCEPT !.SOCK = NULL]]
  /\ UNCHANGED cut

(* The connection ends: the server or the network has closed it, or a delayed *)
(* ILibAsyncSocket_Disconnect, which may come between two idle timers.       *)
OnDisconnect(s) ==
  /\ running /\ socks[s].state = "connected"
  /\ LET a == socks[s].user
     IN \/ DisconnectedIdle(a)
        \/ DisconnectedAnswered(a)
        \/ DisconnectedRetry(a)
        \/ DisconnectedFailed(a)
  /\ socks' = [socks EXCEPT ![s] = FreeSock]
  /\ UNCHANGED <<tables, timers, due, running, issued, sent, served, left>>
-----------------------------------------------------------------------------
(* ILibLifeTime_Check finds idle timers that have run out. *)
TimersDue ==
  /\ running /\ due = {}
  /\ \E ready \in SUBSET timers \ {{}} : due' = ready /\ timers' = timers \ ready
  /\ UNCHANGED <<tables, wcdo, RequestQueue, backlogQueue, socks, running, issued, outcome,
                 history>>

Fires(a) == /\ running /\ a \in due
            /\ due' = due \ {a}
            /\ UNCHANGED <<timers, running, issued, sent, served, cut>>

(* ILibWebClient_TimerSink: a request came in the meantime; ...               *)
TimerTooLate(a) ==
  /\ Fires(a)
  /\ RequestQueue[a] # <<>>
  /\ UNCHANGED <<tables, wcdo, RequestQueue, backlogQueue, socks, outcome, left>>

(* FAULT: the object keeps the pointer to the socket it gives back. *)
FaultyTimerIdles(a) ==
  /\ Fires(a)
  /\ RequestQueue[a] = <<>> /\ idleCount <= MaxIdle
  /\ idleTable' = idleTable \cup {a}
  /\ idleCount' = idleCount + 1
  /\ LET s == wcdo[a].SOCK
     IN /\ wcdo' = [wcdo EXCEPT ![a].Closing = @ \/ s # NULL]
        /\ socks' = IF s = NULL THEN socks ELSE [socks EXCEPT ![s] = FreeSock]
  /\ UNCHANGED <<DataTable, RequestQueue, backlogQueue, outcome, left>>

(* ... the object gives its socket back and is kept; Closing stays up until   *)
(* it gets the next socket; ...                                             *)
TimerIdles(a) ==
  /\ Fires(a)
  /\ RequestQueue[a] = <<>> /\ idleCount <= MaxIdle
  /\ idleTable' = idleTable \cup {a}
  /\ idleCount' = idleCount + 1
  /\ LET s == wcdo[a].SOCK
     IN /\ wcdo' = [wcdo EXCEPT ![a].SOCK = NULL, ![a].Closing = @ \/ s # NULL]
        /\ socks' = IF s = NULL THEN socks ELSE [socks EXCEPT ![s] = FreeSock]
  /\ UNCHANGED <<DataTable, RequestQueue, backlogQueue, outcome, left>>

(* ... or there are too many of these already: the first of them is           *)
(* destroyed, and nothing more is done.  Which one is the first does not     *)
(* matter.  The socket of this one stays open.                              *)
TimerEvicts(a) ==
  /\ Fires(a)
  /\ RequestQueue[a] = <<>> /\ idleCount > MaxIdle
  /\ \E b \in idleTable :
       /\ idleTable' = idleTable \ {b}
       /\ DataTable' = DataTable \ {b}
       /\ wcdo' = [wcdo EXCEPT ![b] = NewObject, ![a].Closing = @ \/ wcdo[a].SOCK # NULL]
       /\ outcome' = Ended(outcome, b, ToSet(RequestQueue[b]), "failed")
       /\ RequestQueue' = [RequestQueue EXCEPT ![b] = <<>>]
  /\ idleCount' = idleCount - 1
  /\ left' = IF wcdo[a].SOCK # NULL THEN left \cup {a} ELSE left
  /\ UNCHANGED <<backlogQueue, socks>>

TimerSink(a) == TimerTooLate(a) \/ TimerIdles(a) \/ TimerEvicts(a)

(* ILibDestroyWebClient: each object is destroyed; an answer that ends with   *)
(* its connection ends now.                                                 *)
Destroy ==
  /\ running /\ due = {}
  /\ running' = FALSE
  /\ outcome' =
       [a \in Address |->
          [r \in Request |->
             IF r \notin ToSet(RequestQueue[a]) THEN outcome[a][r]
             ELSE IF outcome[a][r] # "none" THEN "twice"
             ELSE IF wcdo[a].WaitForClose /\ r = Head(RequestQueue[a]) THEN "answered"
             ELSE "failed"]]
  /\ DataTable' = {} /\ idleTable' = {} /\ idleCount' = 0
  /\ wcdo' = [a \in Address |-> NewObject]
  /\ RequestQueue' = [a \in Address |-> <<>>]
  /\ backlogQueue' = <<>> /\ timers' = {}
  /\ socks' = [s \in Sock |-> FreeSock]
  /\ UNCHANGED <<due, issued, history>>

Next == \/ \E a \in Address : PipelineRequest(a) \/ TimerSink(a)
        \/ \E s \in Sock : \/ OnConnect(s) \/ OnConnectFailed(s) \/ OnDisconnect(s)
                           \/ OnDataUnasked(s) \/ OnDataWhole(s) \/ OnDataHeader(s)
                           \/ OnDataMisread(s) \/ OnDataBody(s)
        \/ PreProcess \/ TimersDue \/ Destroy

Spec == Init /\ [][Next]_vars

(* A connect is decided, a server that has been asked answers or closes, and  *)
(* timers run out.  Nothing in the client limits how long this takes.        *)
Owes(s) == socks[s].asked # <<>> \/ socks[s].body \/ wcdo[socks[s].user].WaitForClose

ServerActs(s) == \/ OnDataUnasked(s) \/ OnDataWhole(s) \/ OnDataHeader(s)
                 \/ OnDataMisread(s) \/ OnDataBody(s)
                 \/ Told(s, "connected") /\ Owes(s) /\ OnDisconnect(s)

FairSpec == /\ Spec
            /\ WF_vars(PreProcess) /\ WF_vars(TimersDue)
            /\ \A a \in Address : WF_vars(TimerSink(a))
            /\ \A s \in Sock : /\ WF_vars(OnConnect(s) \/ OnConnectFailed(s))
                               /\ WF_vars(ServerActs(s))
-----------------------------------------------------------------------------
Issued(a) == 1 .. issued[a]

(* The sink of a disconnect takes a request that has failed out of the queue  *)
(* itself, for "if the underlying socket is gone, then Finished Response     *)
(* won't clear the pending request"; so no request leaves the queue without  *)
(* a call of its OnResponse (code: ILibWebClient_OnDisconnectSink and        *)
(* ILibWebClient_FinishedResponse).  The code does not keep this.            *)
NoneLost == \A a \in Address, r \in Request : outcome[a][r] # "lost"

(* The one exception: the request stood behind one that has failed.           *)
LostBehind(a, r) == outcome[a][r] = "lost" /\ outcome[a][r - 1] = "failed"

(* A request is in the queue until OnResponse has been called for it with     *)
(* done, which happens once; but for what NoneLost is about: a request that  *)
(* stood behind one that failed on a new connection may be gone without a     *)
(* call, and nothing else ever is (code: every call of OnResponse with done, *)
(* and every ILibQueue_DeQueue).                                            *)
Accounted ==
  \A a \in Address :
    /\ \A r \in Request :
         outcome[a][r] = "none" <=> r \notin Issued(a) \/ r \in ToSet(RequestQueue[a])
    /\ \A r \in Issued(a) :
         /\ outcome[a][r] # "twice"
         /\ outcome[a][r] = "lost" => LostBehind(a, r)

(* The requests to an address end in the order they were made in, so that a   *)
(* subscriber gets its events in theirs, and none is sent before those ahead *)
(* of it have ended, nor more than twice, through retries, idle times and     *)
(* lost requests (code: PipelineRequestEx2, FinishedResponse, OnConnect and   *)
(* OnDisconnectSink, which all take from or add to RequestQueue or send).     *)
InTurn ==
  \A a \in Address :
    LET queue == RequestQueue[a]
    IN queue # <<>> =>
         /\ queue = [i \in 1 .. Len(queue) |-> issued[a] - Len(queue) + i]
         /\ \A r \in ToSet(queue) : sent[a][r] > 0 => r = Head(queue) /\ sent[a][r] <= 2

(* A request that is reported as answered is one that its server has begun to *)
(* answer: no answer is taken for that to another request, unless the object *)
(* met the rest of an answer on a new connection (code: FinHeader and header, *)
(* which the retry in OnDisconnectSink does not reset).                      *)
OwnAnswer ==
  \A a \in Address \ cut, r \in Request : outcome[a][r] = "answered" => r \in served[a]

(* An object with requests has a socket or waits for one, once and not both,  *)
(* unless it was left closing; one without does not wait; an idle one has     *)
(* neither; SOCK and the socket's user agree; and nothing points to an object *)
(* that was freed, which is not in DataTable (code: wcdo->SOCK, backlogQueue, *)
(* idleTable and the timers, wherever they are set, and the two callers of    *)
(* ILibWebClient_DestroyWebClientDataObject).                               *)
Carried ==
  /\ IsInjective(backlogQueue)
  /\ ToSet(backlogQueue) \cup idleTable \cup timers \cup due \subseteq DataTable
  /\ \A a \in DataTable :
       LET waits == a \in ToSet(backlogQueue)
       IN /\ RequestQueue[a] # <<>> => waits \/ wcdo[a].SOCK # NULL \/ a \in left
          /\ waits => RequestQueue[a] # <<>> /\ wcdo[a].SOCK = NULL
          /\ a \in idleTable => RequestQueue[a] = <<>> /\ wcdo[a].SOCK = NULL
          /\ wcdo[a].SOCK # NULL => socks[wcdo[a].SOCK].user = a
  /\ \A s \in Sock : socks[s].state # "free" =>
       socks[s].user \in DataTable /\ wcdo[socks[s].user].SOCK = s

(* OnResponse is called for every request in the end, although the addresses *)
(* share the sockets, with three exceptions: the request is lost behind one  *)
(* that has failed (NoneLost), a socket was left open by the idle timer, or   *)
(* one is held for the rest of an answer that had been cut off (code: the    *)
(* idle timer of FinishedResponse, backlogQueue and PreProcess).             *)
RequestsEnd ==
  \A a \in Address, r \in Request :
    r <= issued[a] ~> \/ outcome[a][r] \in {"answered", "failed"} \/ LostBehind(a, r)
                      \/ left # {} \/ cut # {}
=============================================================================

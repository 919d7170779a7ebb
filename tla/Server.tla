------------------------------- MODULE Server -------------------------------
(***************************************************************************)
(* The web server of the MicroStack: the pool of sockets that accept        *)
(* (ILibAsyncServerSocket.c), the HTTP sessions on them (ILibWebServer.c),  *)
(* the reading of requests (ILibWebClient_OnData, server side), and the     *)
(* MicroStack's handler that answers them (UPnPSessionReceiveSink,          *)
(* UPnPProcessHTTPPacket, UPnPResponseGeneric and UPnPResponse_Error): it    *)
(* streams a document or the result of an action, sends a ready packet in    *)
(* one call, or a fault in two.                                             *)
(*                                                                         *)
(* All handlers run on the chain thread; between two of them the clients    *)
(* and the network move.  The sockets themselves are module AsyncSocket,    *)
(* the base timer is module LifeTime: here a socket is the list of the      *)
(* bytes pending on it, and the timer is what it promises (ILibLifeTime_    *)
(* Check takes out all that is due before it calls the first).              *)
(*                                                                         *)
(* What is sent for an answer is a sequence of pieces: one for a call of    *)
(* ILibWebServer_Send_Raw, ILibWebServer_StreamHeader_Raw, the chunks and   *)
(* the end of the chunks.  A piece is pending until the network has taken   *)
(* all of it.                                                               *)
(***************************************************************************)
EXTENDS Integers, Sequences, SequencesExt

CONSTANTS Request,        (* what a client may send: records of directive,     *)
                          (* version, close, host, body and Expect, and of how *)
                          (* the handler answers it                            *)
          MaxConnections, (* size of the pool of sockets                       *)
          MaxSession,     (* bound: connections of all clients                 *)
          MaxRequest,     (* bound: requests on a connection                   *)
          MaxPiece        (* bound: pieces sent when a request is answered     *)
                          (* once more                                         *)

ASSUME ServerAssumption ==
  /\ Request \subseteq [Directive : {"GET", "HEAD", "POST"}, Version : {"1.0", "1.1"},
                        close : BOOLEAN, Host : BOOLEAN, body : BOOLEAN,
                        Expect : {"none", "100-Continue", "other"},
                        answer : {"stream", "packet", "fault"}]
  /\ MaxConnections \in Nat \ {0}
  /\ MaxSession \in Nat /\ MaxRequest \in Nat /\ MaxPiece \in Nat

VARIABLES
  session,                (* the ILibWebServer_Session objects, in the order   *)
                          (* of the connections                                *)
  client,                 (* the clients at the other end                      *)
  batch,                  (* what the running ILibLifeTime_Check has yet to    *)
                          (* call                                              *)
  destroyed,              (* the chain has been stopped                        *)
  crashed                 (* freed memory was used                             *)

vars == <<session, client, batch, destroyed, crashed>>

Socket == 1 .. MaxConnections
Session == 1 .. MaxSession
Piece == [of : 1 .. MaxRequest, is : {"100", "400", "417", "packet", "fault head", "fault body",
                                   "header", "chunk", "end"}]
Part == [of : 1 .. MaxRequest, is : {"header", "body"}]
Event == [callback : {"IdleSink"}, data : Session]
         \cup [callback : {"Disconnect"}, data : Socket]

SessionRecord ==
  [socket : Socket,                          (* Reserved2                      *)
   freed : BOOLEAN,
   Reserved4 : BOOLEAN, Reserved5 : BOOLEAN, (* answered, request made         *)
   Reserved6 : BOOLEAN, Reserved8 : BOOLEAN, (* close, RequestAnswered called  *)
   User3 : BOOLEAN,
   header : 0 .. MaxRequest,                 (* the request read, 0: none      *)
   PAUSE : BOOLEAN,
   idle : BOOLEAN,                           (* IdleSink is on the timer       *)
   disconnect : BOOLEAN,                     (* it put its socket's Disconnect *)
                                             (* on the timer                   *)
   pending : Seq(Piece),
   wire : Seq(Piece),                        (* history: what was sent         *)
   hasty : BOOLEAN]                          (* history: a request was done    *)
                                             (* with before its answer was     *)

ClientRecord == [requests : Seq(Request), line : Seq(Part), body : BOOLEAN, gone : BOOLEAN]

TypeOK == /\ session \in Seq(SessionRecord) /\ Len(session) <= MaxSession
          /\ client \in Seq(ClientRecord) /\ Len(client) = Len(session)
          /\ batch \in Seq(Event)
          /\ destroyed \in BOOLEAN /\ crashed \in BOOLEAN

Init == session = <<>> /\ client = <<>> /\ batch = <<>> /\ destroyed = FALSE /\ crashed = FALSE

Live(s) == s \in DOMAIN session /\ ~session[s].freed

(* ILibAsyncSocket_IsFree *)
IsFree(k) == \A s \in DOMAIN session : session[s].socket = k => session[s].freed

(* The chain thread is between two handlers. *)
Ready == ~destroyed /\ ~crashed /\ batch = <<>>
-----------------------------------------------------------------------------
(* The clients.  One sends nothing after a request that ends the connection, *)
(* but may send a request before the one before it was answered.            *)

Ends(r) == r.Version = "1.0" \/ r.close

SendHeader(s, r) ==
  /\ Live(s) /\ ~client[s].gone /\ ~client[s].body
  /\ Len(client[s].requests) < MaxRequest
  /\ client[s].requests # <<>> => ~Ends(Last(client[s].requests))
  /\ client' = [client EXCEPT ![s].requests = Append(@, r),
                              ![s].line = Append(@, [of |-> Len(client[s].requests) + 1,
                                                     is |-> "header"]),
                              ![s].body = r.body]
  /\ UNCHANGED <<session, batch, destroyed, crashed>>

SendBody(s) ==
  /\ Live(s) /\ ~client[s].gone /\ client[s].body
  /\ client' = [client EXCEPT ![s].line = Append(@, [of |-> Len(client[s].requests),
                                                     is |-> "body"]),
                              ![s].body = FALSE]
  /\ UNCHANGED <<session, batch, destroyed, crashed>>

(* The client, or the network, ends the connection. *)
Leave(s) ==
  /\ Live(s) /\ ~client[s].gone
  /\ client' = [client EXCEPT ![s].gone = TRUE]
  /\ UNCHANGED <<session, batch, destroyed, crashed>>
-----------------------------------------------------------------------------
(* Connections. *)

NewSession(k) ==
  [socket |-> k, freed |-> FALSE, Reserved4 |-> FALSE, Reserved5 |-> FALSE, Reserved6 |-> FALSE,
   Reserved8 |-> FALSE, User3 |-> FALSE, header |-> 0, PAUSE |-> FALSE, idle |-> TRUE,
   disconnect |-> FALSE, pending |-> <<>>, wire |-> <<>>, hasty |-> FALSE]

(* The first n sockets that are free, in their order. *)
FreeSockets(n) ==
  {f \in [1 .. n -> {k \in Socket : IsFree(k)}] :
     /\ \A i, j \in 1 .. n : i < j => f[i] < f[j]
     /\ \A i \in 1 .. n, k \in Socket : IsFree(k) /\ k < f[i] => \E j \in 1 .. n : f[j] = k}

NewClient == [requests |-> <<>>, line |-> <<>>, body |-> FALSE, gone |-> FALSE]

(* ILibAsyncServerSocket_PostSelect: n clients are waiting, or as many as    *)
(* there are free sockets are accepted; ILibWebServer_OnConnect follows.    *)
Accept(n) ==
  /\ Ready
  /\ Len(session) + n <= MaxSession
  /\ \E f \in FreeSockets(n) : session' = session \o [i \in 1 .. n |-> NewSession(f[i])]
  /\ client' = client \o [i \in 1 .. n |-> NewClient]
  /\ UNCHANGED <<batch, destroyed, crashed>>

(* Faulty variant: the freed session stays on the timer of the idle. *)
FaultyFreed(c) == [NewSession(c.socket) EXCEPT !.freed = TRUE, !.hasty = c.hasty]

(* A freed session has nothing any more, and the client at its other end     *)
(* does nothing more.                                                       *)
Freed(c) == [NewSession(c.socket) EXCEPT !.freed = TRUE, !.idle = FALSE, !.hasty = c.hasty]

Gone(s) == client' = [client EXCEPT ![s] = [NewClient EXCEPT !.gone = TRUE]]

(* Faulty variant: the disconnect that an answer has put on the timer stays. *)
FaultyDisconnected(s, all) ==
  [i \in DOMAIN all |-> IF i = s THEN [Freed(all[i]) EXCEPT !.disconnect = all[i].disconnect]
                         ELSE all[i]]

(* The sessions after ILibAsyncSocket_Disconnect, or the closing of the      *)
(* socket by the client, has called ILibWebServer_OnDisconnect for session   *)
(* s: what is pending is lost, whatever disconnects this socket is taken off *)
(* the timer, the session is released and freed.                            *)
Disconnected(s, all) ==
  [i \in DOMAIN all |->
     IF i = s THEN Freed(all[i])
     ELSE IF all[i].socket = all[s].socket THEN [all[i] EXCEPT !.disconnect = FALSE]
     ELSE all[i]]

(* The socket is found closed by the other end, or broken; it is looked at   *)
(* unless it is paused.                                                     *)
PeerCloses(s) ==
  /\ Ready /\ Live(s)
  /\ client[s].gone /\ ~session[s].PAUSE
  /\ session' = Disconnected(s, session)
  /\ Gone(s)
  /\ UNCHANGED <<batch, destroyed, crashed>>

(* The chain is stopped: ILibAsyncSocket_Destroy interrupts each session     *)
(* (ILibWebServer_OnInterrupt), which disconnects and frees it.             *)
Interrupt ==
  /\ Ready
  /\ destroyed' = TRUE
  /\ session' = [s \in DOMAIN session |-> Freed(session[s])]
  /\ client' = [s \in DOMAIN client |-> [NewClient EXCEPT !.gone = TRUE]]
  /\ UNCHANGED <<batch, crashed>>
-----------------------------------------------------------------------------
(* Answers. *)

Persistent(c, r) == ~c.Reserved6 /\ r.Version # "1.0" /\ ~r.close

(* Faulty variant: the idle timer is left out. *)
FaultyRequestAnswered(c, r) ==
  IF c.header = 0 \/ c.Reserved8 THEN c
  ELSE IF Persistent(c, r)
       THEN [c EXCEPT !.Reserved8 = TRUE, !.Reserved5 = FALSE, !.header = 0, !.PAUSE = FALSE]
       ELSE [c EXCEPT !.Reserved8 = TRUE, !.Reserved5 = FALSE, !.disconnect = TRUE]

(* ILibWebServer_RequestAnswered of session c, whose request is r: the next  *)
(* request may be read, or the socket is to be disconnected.                *)
RequestAnswered(c, r) ==
  IF c.header = 0 \/ c.Reserved8 THEN c
  ELSE IF Persistent(c, r)
       THEN [c EXCEPT !.Reserved8 = TRUE, !.Reserved5 = FALSE, !.header = 0, !.PAUSE = FALSE,
                      !.idle = TRUE]
       ELSE [c EXCEPT !.Reserved8 = TRUE, !.Reserved5 = FALSE, !.disconnect = TRUE]

(* ILibAsyncSocket_Send of the pieces: they queue behind what is pending;    *)
(* else the network takes n of them, and the rest fails or queues.          *)
Sent(c, pieces, n, fails) ==
  IF c.pending # <<>> THEN [c EXCEPT !.pending = @ \o pieces]
  ELSE IF fails THEN [c EXCEPT !.wire = @ \o SubSeq(pieces, 1, n), !.disconnect = TRUE]
  ELSE [c EXCEPT !.wire = @ \o SubSeq(pieces, 1, n),
                 !.pending = SubSeq(pieces, n + 1, Len(pieces))]

Refused(r) == r.Version = "1.1" /\ ~r.Host

Streamed(r) == ~Refused(r) /\ r.answer = "stream"
HeadOnly(r) == Streamed(r) /\ r.Directive = "HEAD"

(* The pieces of the answer to r, the i-th request of its connection.  A chunk *)
(* stands for the sends of its size, its data and its end, and one chunk for *)
(* the several that a document is cut into.                                  *)
Pieces(i, r) ==
  LET P(is) == [of |-> i, is |-> is] IN
  CASE Refused(r)                                  -> <<P("400")>>
    [] ~Refused(r) /\ r.answer = "packet"          -> <<P("packet")>>
    [] ~Refused(r) /\ r.answer = "fault"           -> <<P("fault head"), P("fault body")>>
    [] HeadOnly(r)                                 -> <<P("header")>>
    [] Streamed(r) /\ ~HeadOnly(r) /\ r.Version = "1.0" -> <<P("header"), P("chunk")>>
    [] Streamed(r) /\ ~HeadOnly(r) /\ r.Version = "1.1" ->
         <<P("header"), P("chunk"), P("end")>>

(* Whether the Send_Raw made last was the one with done.  The second of a     *)
(* fault is made whatever became of the first.  Of what is streamed, the end  *)
(* of the chunks is left out when a chunk could not be sent, and for an       *)
(* action the body when the header could not.                               *)
Tried(r, n) == IF r.Version = "1.1" THEN n >= 2 ELSE r.Directive = "POST" => n >= 1
DoneSent(r, n, fails) == ~HeadOnly(r) /\ (fails /\ Streamed(r) => Tried(r, n))

(* Faulty variant: it is done with although some of it is pending. *)
FaultyAnswer(c, i, r, n, fails) ==
  RequestAnswered(Sent([c EXCEPT !.Reserved4 = DoneSent(r, n, fails)], Pieces(i, r), n, fails), r)

(* The answer to r by the MicroStack, or the refusal by OnResponse.           *)
(* It is done with when all of it went through, and for HEAD in any case.   *)
Answer(c, i, r, n, fails) ==
  LET a == Sent([c EXCEPT !.Reserved4 = DoneSent(r, n, fails),
                          !.Reserved6 = @ \/ (Streamed(r) /\ r.Version = "1.0")],
                Pieces(i, r), n, fails)
  IN IF HeadOnly(r) \/ (~fails /\ a.pending = <<>>) THEN RequestAnswered(a, r) ELSE a

(* How many of m pieces the network takes, and whether an error follows.     *)
(* After an error, which has put the disconnect on the timer, it takes none. *)
Network(s, m, n, fails) ==
  /\ n <= m
  /\ session[s].disconnect => n = 0 /\ fails
  /\ fails => n < m /\ client[s].gone /\ session[s].pending = <<>>
  /\ session[s].pending # <<>> => n = 0
-----------------------------------------------------------------------------
(* Requests. *)

(* ILibWebServer_OnResponse: the session is no longer idle. *)
Begun(c, i) ==
  IF c.Reserved4 \/ ~c.Reserved5
  THEN [c EXCEPT !.header = i, !.Reserved4 = FALSE, !.Reserved5 = TRUE, !.Reserved8 = FALSE,
                 !.idle = FALSE]
  ELSE [c EXCEPT !.header = i]

(* Faulty variant: goes on reading while an answer is pending. *)
FaultyPaused(c) == FALSE

Paused(c) == ~c.Reserved8

(* ILibWebServer_OnResponse for all of a request, and what it calls.  After  *)
(* the refusal it returns without a look at whether to pause.               *)
Responded(c, i, r, n, fails) ==
  LET a == Answer(Begun(c, i), i, r, n, fails)
      hasty == /\ HeadOnly(r) \/ Refused(r)
               /\ fails \/ a.pending # <<>>
  IN [a EXCEPT !.PAUSE = IF Refused(r) THEN FALSE ELSE Paused(a),
               !.hasty = @ \/ hasty]

(* ILibWebClient_OnData reads k parts from the line. *)
Read(s, k) == client' = [client EXCEPT ![s].line = SubSeq(@, k + 1, Len(@))]

MayRead(s) == /\ Ready /\ Live(s) /\ ~session[s].PAUSE
              /\ client[s].line # <<>>

(* A header with all of the body, if there is one: ... *)
OnWholeRequest(s, n, fails) ==
  LET c == session[s]  line == client[s].line  i == line[1].of IN
  /\ MayRead(s) /\ c.header = 0
  /\ LET r == client[s].requests[i]  k == IF r.body THEN 2 ELSE 1 IN
     /\ k <= Len(line)
     /\ Network(s, Len(Pieces(i, r)), n, fails)
     /\ session' = [session EXCEPT ![s] = Responded(c, i, r, n, fails)]
     /\ Read(s, k)
  /\ UNCHANGED <<batch, destroyed, crashed>>

(* ... a header alone, of which UPnPSessionReceiveSink looks at what the     *)
(* client expects, for the first one of a session: ...                      *)
Expecting(c, r) == ~c.User3 /\ r.Expect # "none"

OnHeader(s, n, fails) ==
  LET c == session[s]  i == client[s].line[1].of IN
  /\ MayRead(s) /\ c.header = 0
  /\ LET r == client[s].requests[i]  b == [Begun(c, i) EXCEPT !.User3 = TRUE] IN
     /\ r.body
     /\ IF ~Expecting(c, r) THEN n = 0 /\ ~fails ELSE Network(s, 1, n, fails)
     /\ session' =
          CASE ~Expecting(c, r) -> [session EXCEPT ![s] = b]
            [] Expecting(c, r) /\ r.Expect = "100-Continue" ->
                 [session EXCEPT ![s] = Sent([b EXCEPT !.Reserved4 = FALSE],
                                             <<[of |-> i, is |-> "100"]>>, n, fails)]
            [] Expecting(c, r) /\ r.Expect = "other" ->
                 Disconnected(s, [session EXCEPT ![s] =
                   Sent(b, <<[of |-> i, is |-> "417"]>>, n, fails)])
     /\ IF Expecting(c, r) /\ r.Expect = "other" THEN Gone(s) ELSE Read(s, 1)
  /\ UNCHANGED <<batch, destroyed, crashed>>

(* ... the body after it, ... *)
OnBody(s, n, fails) ==
  LET c == session[s]  i == c.header IN
  /\ MayRead(s) /\ i # 0
  /\ client[s].line[1] = [of |-> i, is |-> "body"]
  /\ LET r == client[s].requests[i] IN
     /\ Network(s, Len(Pieces(i, r)), n, fails)
     /\ session' = [session EXCEPT ![s] = Responded(c, i, r, n, fails)]
  /\ Read(s, 1)
  /\ UNCHANGED <<batch, destroyed, crashed>>

(* ... or the next request, taken for the body of the one that is not        *)
(* answered yet, which is answered once more.                               *)
OnMisread(s, n, fails) ==
  LET c == session[s]  i == c.header IN
  /\ MayRead(s) /\ i # 0
  /\ client[s].line[1] = [of |-> i + 1, is |-> "header"]
  /\ Len(c.wire) + Len(c.pending) < MaxPiece
  /\ LET r == client[s].requests[i] IN
     /\ Network(s, Len(Pieces(i, r)), n, fails)
     /\ session' = [session EXCEPT ![s] = Responded(c, i, r, n, fails)]
  /\ UNCHANGED <<client, batch, destroyed, crashed>>

(* Faulty variant: the answer that was pending is never regarded as given. *)
FaultySendOK(c, r) == c

(* ILibWebServer_OnSendOK *)
SendOK(c, r) == IF c.Reserved4 THEN RequestAnswered(c, r) ELSE c

(* The network takes the first n pieces; after the last one the session is   *)
(* told.  Or it is found broken, and the socket is to be disconnected.      *)
Taken(c, n) == [c EXCEPT !.wire = @ \o SubSeq(c.pending, 1, n),
                         !.pending = SubSeq(@, n + 1, Len(@))]

Take(s) ==
  /\ Ready /\ Live(s)
  /\ LET c == session[s] IN
     \E n \in 1 .. Len(c.pending) :
       session' = [session EXCEPT ![s] =
         IF n = Len(c.pending) /\ c.header # 0
         THEN SendOK(Taken(c, n), client[s].requests[c.header])
         ELSE Taken(c, n)]
  /\ UNCHANGED <<client, batch, destroyed, crashed>>

TakeFails(s) ==
  /\ Ready /\ Live(s)
  /\ session[s].pending # <<>> /\ client[s].gone
  /\ session' = [session EXCEPT ![s].pending = <<>>, ![s].disconnect = TRUE]
  /\ UNCHANGED <<client, batch, destroyed, crashed>>
-----------------------------------------------------------------------------
(* The base timer. *)

IdleEvent(s) == [callback |-> "IdleSink", data |-> s]
DisconnectEvent(k) == [callback |-> "Disconnect", data |-> k]

Timers == {IdleEvent(s) : s \in {s \in DOMAIN session : session[s].idle}}
          \cup {DisconnectEvent(k) :
                  k \in {session[s].socket : s \in {s \in DOMAIN session : session[s].disconnect}}}

(* ILibLifeTime_Check takes out what is due. *)
Check(due) ==
  /\ Ready
  /\ due \subseteq Timers /\ due # {}
  /\ batch' \in SetToSeqs(due)
  /\ session' = [s \in DOMAIN session |->
       [session[s] EXCEPT !.idle = @ /\ IdleEvent(s) \notin due,
                          !.disconnect = @ /\ DisconnectEvent(session[s].socket) \notin due]]
  /\ UNCHANGED <<client, destroyed, crashed>>

Calls(callback) == /\ ~crashed /\ batch # <<>> /\ Head(batch).callback = callback
                   /\ batch' = Tail(batch)
                   /\ UNCHANGED destroyed

(* ILibWebServer_IdleSink: a session without a request is disconnected. *)
IdleSink ==
  /\ Calls("IdleSink")
  /\ LET s == Head(batch).data IN
     /\ crashed' = session[s].freed
     /\ IF session[s].freed THEN UNCHANGED <<session, client>>
        ELSE session' = Disconnected(s, session) /\ Gone(s)

(* ILibAsyncSocket_Disconnect, of whoever has the socket. *)
TimerDisconnect ==
  /\ Calls("Disconnect")
  /\ \/ /\ IsFree(Head(batch).data)
        /\ UNCHANGED <<session, client>>
     \/ \E s \in DOMAIN session :
          /\ Live(s) /\ session[s].socket = Head(batch).data
          /\ session' = Disconnected(s, session)
          /\ Gone(s)
  /\ UNCHANGED crashed

Next ==
  \/ \E s \in DOMAIN session :
       \/ \E r \in Request : SendHeader(s, r)
       \/ SendBody(s)
       \/ Leave(s)
       \/ PeerCloses(s)
       \/ \E n \in 0 .. 3, fails \in BOOLEAN :
            \/ OnWholeRequest(s, n, fails)
            \/ OnHeader(s, n, fails)
            \/ OnBody(s, n, fails)
            \/ OnMisread(s, n, fails)
       \/ Take(s)
       \/ TakeFails(s)
  \/ \E n \in Socket : Accept(n)
  \/ \E due \in SUBSET Timers : Check(due)
  \/ IdleSink
  \/ TimerDisconnect
  \/ Interrupt

OnData(s) == \E n \in 0 .. 3, fails \in BOOLEAN :
  OnWholeRequest(s, n, fails) \/ OnHeader(s, n, fails) \/ OnBody(s, n, fails)
  \/ OnMisread(s, n, fails)

(* The network takes what is sent or breaks, the clients finish a request    *)
(* that they have begun or leave, the chain thread handles what is there and *)
(* calls what is on the timer.                                              *)
Fairness ==
  /\ \A s \in Session : /\ WF_vars(OnData(s))
                        /\ WF_vars(Take(s) \/ TakeFails(s))
                        /\ WF_vars(PeerCloses(s))
                        /\ WF_vars(SendBody(s))
                        /\ WF_vars(\E due \in SUBSET Timers : IdleEvent(s) \in due /\ Check(due))
  /\ \A k \in Socket :
       WF_vars(\E due \in SUBSET Timers : DisconnectEvent(k) \in due /\ Check(due))
  /\ WF_vars(IdleSink \/ TimerDisconnect)

Spec == Init /\ [][Next]_vars /\ Fairness
-----------------------------------------------------------------------------
AnswerTo(requests, i) == Pieces(i, requests[i])

(* What a client may get first for the i-th of its requests. *)
Opens(requests, i, p) == p \in {[of |-> i, is |-> "100"], AnswerTo(requests, i)[1]}

(* What it may get next after piece p: the next piece of that answer, the    *)
(* answer after its 100 Continue, or the first for the next request when    *)
(* that answer ends.                                                        *)
Follows(requests, p, q) ==
  \/ \E j \in 2 .. Len(AnswerTo(requests, p.of)) :
       p = AnswerTo(requests, p.of)[j - 1] /\ q = AnswerTo(requests, p.of)[j]
  \/ p = [of |-> q.of, is |-> "100"] /\ q = AnswerTo(requests, q.of)[1]
  \/ /\ q.of = p.of + 1 /\ Opens(requests, q.of, q)
     /\ p = Last(AnswerTo(requests, p.of))

InOrder(requests, w) ==
  /\ \A k \in 1 .. Len(w) : w[k].of \in 1 .. Len(requests)
  /\ w # <<>> => Opens(requests, 1, w[1])
  /\ \A k \in 2 .. Len(w) : Follows(requests, w[k - 1], w[k])

(* All that is sent to a client, or is to be, are the answers to its         *)
(* requests: each one whole before the next one starts, in the order of the  *)
(* requests, none twice and with nothing between its pieces, whatever the    *)
(* network took of each at once (StreamHeader_Raw, StreamBody, the pausing   *)
(* of OnResponse and RequestAnswered); a 100 Continue comes right before the *)
(* answer it promises.                                                      *)
AnswersWhole == \A s \in DOMAIN session :
  session[s].hasty \/ InOrder(client[s].requests, session[s].wire \o session[s].pending)

(* A session that waits for a request is on the timer of the idle, and one   *)
(* that reads or answers a request is not, so that a slow client's answer is *)
(* not taken for idleness.                                                  *)
IdleWhenIdle == batch = <<>> =>
  \A s \in DOMAIN session : Live(s) =>
    (session[s].idle <=> ~session[s].Reserved5 /\ ~(session[s].Reserved8 /\ session[s].header # 0))

(* The timed disconnect of one connection never ends the next one on the     *)
(* same socket (OnDisconnect takes it off the timer).                       *)
OwnDisconnect == [][TimerDisconnect =>
  \A s \in DOMAIN session : Live(s) /\ session'[s].freed =>
    client[s].gone \/ session[s].Reserved8]_vars

(* The server does not cut off its own answer: as long as the client stays,  *)
(* neither timer ends the connection while bytes are pending.               *)
NotCutOff == [][IdleSink \/ TimerDisconnect =>
  \A s \in DOMAIN session : Live(s) /\ session'[s].freed =>
    session[s].pending = <<>> \/ client[s].gone \/ session[s].hasty]_vars

(* The idle timer finds its session freed only where a request was done with *)
(* before its answer was sent.                                              *)
NoFreedUse == crashed => \E s \in DOMAIN session : session[s].hasty

(* A request that a client has sent is answered, unless the connection ends. *)
WholeRequest(s, i) == /\ Live(s) /\ i \in DOMAIN client[s].requests
                      /\ i = Len(client[s].requests) => ~client[s].body

Answered(s, i) == ToSet(Pieces(i, client[s].requests[i])) \subseteq ToSet(session[s].wire)

Settled(s, i) == WholeRequest(s, i) /\ ~crashed => session[s].hasty \/ Answered(s, i)

Served == \A s \in Session, i \in 1 .. MaxRequest : WholeRequest(s, i) ~> Settled(s, i)

(* Every connection ends, so that the pool never stays full: after an answer *)
(* or without a request it is closed.                                       *)
Released == \A s \in Session : Live(s) ~> (crashed \/ ~Live(s))
=============================================================================

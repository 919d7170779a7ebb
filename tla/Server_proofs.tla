---------------------------- MODULE Server_proofs ----------------------------
(* Proofs about Server, for any requests and numbers of sockets, connections  *)
(* and requests on each.                                                     *)
EXTENDS Server, SequenceTheorems, FiniteSetTheorems, TLAPS

(* The parts on a line are those of requests its client has sent. *)
Line(c) == /\ Len(c.requests) <= MaxRequest
           /\ c.body => c.requests # <<>>
           /\ \A j \in DOMAIN c.line : c.line[j].of \in 1 .. Len(c.requests)
-----------------------------------------------------------------------------
(* Types: what the operators make of a session is a session.                  *)

(* The pieces of an answer: one, two or three of that answer.                 *)
LEMMA PiecesCases ==
  ASSUME NEW i, NEW r \in Request
  PROVE  \E is, js, ks \in {"400", "packet", "fault head", "fault body", "header", "chunk", "end"} :
           Pieces(i, r) \in {<<[of |-> i, is |-> is]>>,
                             <<[of |-> i, is |-> is], [of |-> i, is |-> js]>>,
                             <<[of |-> i, is |-> is], [of |-> i, is |-> js], [of |-> i, is |-> ks]>>}
<1> DEFINE P(is) == [of |-> i, is |-> is]
<1>1. r.Version \in {"1.0", "1.1"} /\ r.answer \in {"stream", "packet", "fault"}
  BY ServerAssumption
<1>2. CASE Refused(r)
  <2>1. Pieces(i, r) = <<P("400")>>
    BY <1>2 DEF Pieces, Streamed, HeadOnly
  <2> QED BY <2>1
<1>3. CASE ~Refused(r) /\ r.answer = "packet"
  <2>1. Pieces(i, r) = <<P("packet")>>
    BY <1>3 DEF Pieces, Streamed, HeadOnly
  <2> QED BY <2>1
<1>4. CASE ~Refused(r) /\ r.answer = "fault"
  <2>1. Pieces(i, r) = <<P("fault head"), P("fault body")>>
    BY <1>4 DEF Pieces, Streamed, HeadOnly
  <2> QED BY <2>1
<1>5. CASE Streamed(r)
  <2>1. Pieces(i, r) \in {<<P("header")>>, <<P("header"), P("chunk")>>,
                          <<P("header"), P("chunk"), P("end")>>}
    BY <1>1, <1>5 DEF Pieces, Streamed, HeadOnly
  <2> QED BY <2>1
<1> QED BY <1>1, <1>2, <1>3, <1>4, <1>5 DEF Streamed

(* Short sequences.                                                           *)
LEMMA Short ==
  ASSUME NEW S, NEW a \in S, NEW b \in S, NEW c \in S
  PROVE  <<a>> \in Seq(S) /\ <<a, b>> \in Seq(S) /\ <<a, b, c>> \in Seq(S)
OBVIOUS

(* ... and so a sequence of pieces.                                           *)
LEMMA PiecesType ==
  ASSUME NEW i \in 1 .. MaxRequest, NEW r \in Request PROVE Pieces(i, r) \in Seq(Piece)
<1>1. \A is \in {"400", "packet", "fault head", "fault body", "header", "chunk", "end"} :
        [of |-> i, is |-> is] \in Piece
  BY DEF Piece
<1>2. PICK is, js, ks \in {"400", "packet", "fault head", "fault body", "header", "chunk", "end"} :
        Pieces(i, r) \in {<<[of |-> i, is |-> is]>>,
                          <<[of |-> i, is |-> is], [of |-> i, is |-> js]>>,
                          <<[of |-> i, is |-> is], [of |-> i, is |-> js], [of |-> i, is |-> ks]>>}
  BY PiecesCases
<1> DEFINE P(x) == [of |-> i, is |-> x]
<1>3. P(is) \in Piece /\ P(js) \in Piece /\ P(ks) \in Piece
  BY <1>1
<1>4. Pieces(i, r) \in {<<P(is)>>, <<P(is), P(js)>>, <<P(is), P(js), P(ks)>>}
  BY <1>2
<1> HIDE DEF P
<1>5. CASE Pieces(i, r) = <<P(is)>>
  BY <1>3, <1>5, Short
<1>6. CASE Pieces(i, r) = <<P(is), P(js)>>
  BY <1>3, <1>6, Short
<1>7. CASE Pieces(i, r) = <<P(is), P(js), P(ks)>>
  BY <1>3, <1>7, Short
<1> QED
  BY <1>4, <1>5, <1>6, <1>7

(* What is taken of a sequence and what is left of it.                       *)
LEMMA Parts ==
  ASSUME NEW S, NEW q \in Seq(S), NEW n \in Nat, n <= Len(q)
  PROVE  /\ SubSeq(q, 1, n) \in Seq(S) /\ SubSeq(q, n + 1, Len(q)) \in Seq(S)
         /\ n = Len(q) => SubSeq(q, n + 1, Len(q)) = <<>>
         /\ n < Len(q) => SubSeq(q, n + 1, Len(q)) # <<>>
<1>1. SubSeq(q, 1, n) \in Seq(S) /\ SubSeq(q, n + 1, Len(q)) \in Seq(S)
  BY SubSeqProperties
<1>2. Len(SubSeq(q, n + 1, Len(q))) = Len(q) - n
  BY SubSeqProperties
<1>3. Len(<<>>) = 0
  OBVIOUS
<1>4. \A x \in Seq(S) : x # <<>> => Len(x) \in Nat \ {0}
  BY EmptySeq
<1>5. Len(q) \in Nat
  OBVIOUS
<1>6. n = Len(q) => SubSeq(q, n + 1, Len(q)) = <<>>
  BY <1>1, <1>2, <1>4, <1>5
<1>7. n < Len(q) => SubSeq(q, n + 1, Len(q)) # <<>>
  <2>1. n < Len(q) => Len(SubSeq(q, n + 1, Len(q))) # 0
    BY <1>2, <1>5
  <2>2. QED
    BY <2>1, <1>3
<1>8. QED
  BY <1>1, <1>6, <1>7

(* Sending.                                                                  *)
LEMMA SentType ==
  ASSUME NEW c \in SessionRecord, NEW pieces \in Seq(Piece), NEW n \in Nat, n <= Len(pieces),
         NEW fails \in BOOLEAN
  PROVE  Sent(c, pieces, n, fails) \in SessionRecord
<1>1. /\ SubSeq(pieces, 1, n) \in Seq(Piece) /\ SubSeq(pieces, n + 1, Len(pieces)) \in Seq(Piece)
      /\ c.wire \in Seq(Piece) /\ c.pending \in Seq(Piece)
  BY Parts DEF SessionRecord
<1>2. c.pending \o pieces \in Seq(Piece) /\ c.wire \o SubSeq(pieces, 1, n) \in Seq(Piece)
  BY <1>1
<1>3. QED
  BY <1>1, <1>2 DEF Sent, SessionRecord

(* Finishing a request.                                                      *)
LEMMA RequestAnsweredType ==
  ASSUME NEW c \in SessionRecord, NEW r PROVE RequestAnswered(c, r) \in SessionRecord
<1>1. 0 \in 0 .. MaxRequest
  BY ServerAssumption
<1>2. /\ [c EXCEPT !.Reserved8 = TRUE, !.Reserved5 = FALSE, !.header = 0, !.PAUSE = FALSE,
                  !.idle = TRUE] \in SessionRecord
      /\ [c EXCEPT !.Reserved8 = TRUE, !.Reserved5 = FALSE, !.disconnect = TRUE] \in SessionRecord
  BY <1>1 DEF SessionRecord
<1>3. QED
  BY <1>2 DEF RequestAnswered

(* Reading a request and answering it.                                       *)
LEMMA RespondedType ==
  ASSUME NEW c \in SessionRecord, NEW i \in 1 .. MaxRequest, NEW r \in Request,
         NEW n \in Nat, n <= Len(Pieces(i, r)), NEW fails \in BOOLEAN
  PROVE  /\ Begun(c, i) \in SessionRecord
         /\ Responded(c, i, r, n, fails) \in SessionRecord
<1>1. Begun(c, i) \in SessionRecord
  <2>1. i \in 0 .. MaxRequest
    BY ServerAssumption
  <2>2. QED
    BY <2>1 DEF Begun, SessionRecord
<1> DEFINE b == [Begun(c, i) EXCEPT !.Reserved4 = DoneSent(r, n, fails),
                                    !.Reserved6 = @ \/ (Streamed(r) /\ r.Version = "1.0")]
           a == Sent(b, Pieces(i, r), n, fails)
<1>2. b \in SessionRecord
  BY ZenonT(40), <1>1 DEF SessionRecord, DoneSent, Streamed, HeadOnly, Refused
<1>3. a \in SessionRecord
  BY <1>2, PiecesType, SentType
<1>4. Answer(Begun(c, i), i, r, n, fails) \in SessionRecord
  <2>1. Answer(Begun(c, i), i, r, n, fails) \in {RequestAnswered(a, r), a}
    BY DEF Answer
  <2>2. QED
    BY <2>1, <1>3, RequestAnsweredType
<1>5. ASSUME NEW x \in SessionRecord, NEW p \in BOOLEAN, NEW h \in BOOLEAN
      PROVE  [x EXCEPT !.PAUSE = p, !.hasty = @ \/ h] \in SessionRecord
  BY DEF SessionRecord
<1>6. \E p, h \in BOOLEAN : Responded(c, i, r, n, fails) =
        [Answer(Begun(c, i), i, r, n, fails) EXCEPT !.PAUSE = p, !.hasty = @ \/ h]
  BY DEF Responded, Paused, HeadOnly, Refused
<1>7. QED
  BY <1>1, <1>4, <1>5, <1>6
-----------------------------------------------------------------------------
(* A session: it is on the timer of the idle just when it waits for a request *)
(* (the first five lines say how its flags go together); its disconnect is on *)
(* the timer when the client has gone or the last request is answered; when  *)
(* a request is done with, nothing is pending; and it is not on the timer of  *)
(* the idle as well, nor is anything pending on a socket to be disconnected.  *)
Good(c, gone) ==
  /\ c.idle <=> ~c.Reserved5 /\ ~(c.Reserved8 /\ c.header # 0)
  /\ c.Reserved8 => ~c.Reserved5
  /\ c.header # 0 /\ ~c.Reserved8 => c.Reserved5
  /\ c.Reserved5 => c.header # 0
  /\ c.disconnect /\ ~gone => c.Reserved8 /\ c.header # 0
  /\ c.Reserved8 \/ c.header = 0 => c.pending = <<>> \/ c.hasty
  /\ c.disconnect /\ (c.idle \/ c.pending # <<>>) => c.hasty

(* A session that has read a request which is not done with yet.             *)
Busy(c) == c.Reserved5 /\ ~c.Reserved8 /\ ~c.idle /\ c.header # 0

(* OnResponse makes a session busy, and changes nothing else that matters.    *)
LEMMA BegunBusy ==
  ASSUME NEW c \in SessionRecord, NEW gone \in BOOLEAN, Good(c, gone), NEW i \in 1 .. MaxRequest
  PROVE  LET b == Begun(c, i) IN
         /\ Busy(b) /\ b.pending = c.pending /\ b.disconnect = c.disconnect
         /\ b.hasty = c.hasty /\ b.freed = c.freed /\ b.socket = c.socket
BY DEF Begun, Good, Busy, SessionRecord

(* Sending: the socket is to be disconnected when it failed, and the session  *)
(* stays as it is otherwise.                                                 *)
LEMMA SentFields ==
  ASSUME NEW c \in SessionRecord, NEW pieces \in Seq(Piece), NEW n \in Nat, n <= Len(pieces),
         NEW fails \in BOOLEAN
  PROVE  LET a == Sent(c, pieces, n, fails) IN
         /\ a.Reserved5 = c.Reserved5 /\ a.Reserved8 = c.Reserved8 /\ a.idle = c.idle
         /\ a.header = c.header /\ a.hasty = c.hasty /\ a.freed = c.freed /\ a.socket = c.socket
         /\ a.disconnect = (c.disconnect \/ (c.pending = <<>> /\ fails))
         /\ c.pending = <<>> /\ fails => a.pending = <<>>
BY DEF Sent, SessionRecord

(* RequestAnswered of a busy session.                                        *)
LEMMA AnsweredFields ==
  ASSUME NEW c \in SessionRecord, Busy(c), NEW r
  PROVE  LET a == RequestAnswered(c, r) IN
         /\ a.Reserved8 /\ ~a.Reserved5 /\ a.pending = c.pending /\ a.hasty = c.hasty
         /\ a.freed = c.freed /\ a.socket = c.socket
         /\ \/ a.header = 0 /\ a.idle /\ a.disconnect = c.disconnect
            \/ a.header # 0 /\ ~a.idle /\ a.disconnect
BY DEF RequestAnswered, Busy, SessionRecord

(* When a request is read and answered in one step.                          *)
LEMMA RespondedGood ==
  ASSUME NEW c \in SessionRecord, NEW gone \in BOOLEAN, Good(c, gone),
         NEW i \in 1 .. MaxRequest, NEW r \in Request,
         NEW n \in Nat, n <= Len(Pieces(i, r)), NEW fails \in BOOLEAN,
         c.disconnect => fails, fails => gone /\ c.pending = <<>>
  PROVE  LET a == Responded(c, i, r, n, fails) IN
         Good(a, gone) /\ a.freed = c.freed /\ a.socket = c.socket
<1> DEFINE b == [Begun(c, i) EXCEPT !.Reserved4 = DoneSent(r, n, fails),
                                    !.Reserved6 = @ \/ (Streamed(r) /\ r.Version = "1.0")]
           a == Sent(b, Pieces(i, r), n, fails)
           d == Answer(Begun(c, i), i, r, n, fails)
           hasty == /\ HeadOnly(r) \/ Refused(r)
                    /\ fails \/ d.pending # <<>>
<1>1. b \in SessionRecord
  <2>1. Begun(c, i) \in SessionRecord
    BY RespondedType
  <2>2. QED
    BY ZenonT(40), <2>1 DEF SessionRecord, DoneSent, Streamed, HeadOnly, Refused
<1>2. /\ Busy(b) /\ b.pending = c.pending /\ b.disconnect = c.disconnect /\ b.hasty = c.hasty
      /\ b.freed = c.freed /\ b.socket = c.socket
  <2>1. Begun(c, i) \in SessionRecord
    BY RespondedType
  <2>2. QED
    BY <2>1, BegunBusy DEF Busy, SessionRecord
<1>3. a \in SessionRecord
  BY <1>1, PiecesType, SentType
<1>4. /\ Busy(a) /\ a.hasty = c.hasty /\ a.freed = c.freed /\ a.socket = c.socket
      /\ a.disconnect => fails /\ a.pending = <<>>
  <2> HIDE DEF b
  <2>1. QED
    BY <1>1, <1>2, PiecesType, SentFields DEF Busy
<1>5. d = IF HeadOnly(r) \/ (~fails /\ a.pending = <<>>) THEN RequestAnswered(a, r) ELSE a
  BY DEF Answer
<1>6. /\ d \in SessionRecord /\ d.freed = c.freed /\ d.socket = c.socket /\ d.pending = a.pending
      /\ d.hasty = c.hasty
      /\ \/ Busy(d) /\ d.disconnect = a.disconnect
         \/ /\ HeadOnly(r) \/ (~fails /\ a.pending = <<>>)
            /\ d.Reserved8 /\ ~d.Reserved5
            /\ \/ d.header = 0 /\ d.idle /\ d.disconnect = a.disconnect
               \/ d.header # 0 /\ ~d.idle /\ d.disconnect
  <2> HIDE DEF a, d
  <2>1. QED
    BY <1>3, <1>4, <1>5, AnsweredFields, RequestAnsweredType
<1>7. PICK p : Responded(c, i, r, n, fails) = [d EXCEPT !.PAUSE = p, !.hasty = @ \/ hasty]
  BY DEF Responded
<1>8. QED
  <2> DEFINE e == Responded(c, i, r, n, fails)
  <2> HIDE DEF a, d, hasty
  <2>1. /\ e.freed = d.freed /\ e.socket = d.socket /\ e.pending = d.pending
        /\ e.disconnect = d.disconnect /\ e.idle = d.idle /\ e.header = d.header
        /\ e.Reserved5 = d.Reserved5 /\ e.Reserved8 = d.Reserved8
        /\ e.hasty = (d.hasty \/ hasty)
    BY <1>6, <1>7 DEF SessionRecord
  <2>2. hasty <=> (HeadOnly(r) \/ Refused(r)) /\ (fails \/ d.pending # <<>>)
    BY DEF hasty
  <2> HIDE DEF e
  <2>3. Good(e, gone)
    BY <1>4, <1>6, <2>1, <2>2 DEF Good, Busy
  <2>4. QED
    BY <2>1, <2>3, <1>6 DEF e

(* The network takes some of what is pending, or finds the connection broken. *)
LEMMA TakenGood ==
  ASSUME NEW c \in SessionRecord, NEW gone \in BOOLEAN, Good(c, gone), c.pending # <<>>,
         NEW n \in 1 .. Len(c.pending), NEW r
  PROVE  LET t == Taken(c, n)
             a == IF n = Len(c.pending) /\ c.header # 0 THEN SendOK(t, r) ELSE t
         IN  a \in SessionRecord /\ Good(a, gone) /\ a.freed = c.freed /\ a.socket = c.socket
<1> DEFINE t == Taken(c, n)
           a == IF n = Len(c.pending) /\ c.header # 0 THEN SendOK(t, r) ELSE t
<1>1. /\ c.pending \in Seq(Piece) /\ c.wire \in Seq(Piece)
      /\ SubSeq(c.pending, 1, n) \in Seq(Piece)
      /\ SubSeq(c.pending, n + 1, Len(c.pending)) \in Seq(Piece)
      /\ n = Len(c.pending) => SubSeq(c.pending, n + 1, Len(c.pending)) = <<>>
  <2>1. c.pending \in Seq(Piece) /\ c.wire \in Seq(Piece)
    BY DEF SessionRecord
  <2>2. n \in Nat /\ n <= Len(c.pending)
    BY <2>1
  <2>3. QED
    BY <2>1, <2>2, Parts
<1>2. /\ t \in SessionRecord /\ t.Reserved5 = c.Reserved5 /\ t.Reserved8 = c.Reserved8
      /\ t.idle = c.idle /\ t.header = c.header /\ t.hasty = c.hasty /\ t.freed = c.freed
      /\ t.socket = c.socket /\ t.disconnect = c.disconnect
      /\ n = Len(c.pending) => t.pending = <<>>
  <2>1. c.wire \o SubSeq(c.pending, 1, n) \in Seq(Piece)
    BY <1>1
  <2>2. QED
    BY <1>1, <2>1 DEF Taken, SessionRecord
<1>3. Good(t, gone)
  BY <1>2 DEF Good
<1>4. CASE a = t
  BY <1>2, <1>3, <1>4
<1>5. CASE a # t
  <2> HIDE DEF t
  <2>1. /\ n = Len(c.pending) /\ t.header # 0 /\ ~t.Reserved8
        /\ a = RequestAnswered(t, r)
    BY <1>2, <1>5 DEF SendOK, RequestAnswered
  <2>2. Busy(t)
    BY <1>2, <1>3, <2>1 DEF Good, Busy
  <2>3. /\ a.Reserved8 /\ ~a.Reserved5 /\ a.pending = t.pending /\ a.hasty = t.hasty
        /\ a.freed = t.freed /\ a.socket = t.socket
        /\ \/ a.header = 0 /\ a.idle /\ a.disconnect = t.disconnect
           \/ a.header # 0 /\ ~a.idle /\ a.disconnect
    BY <1>2, <2>1, <2>2, AnsweredFields
  <2>4. a \in SessionRecord
    BY <1>2, <2>1, RequestAnsweredType
  <2>5. t.disconnect => c.hasty /\ gone
    BY <1>2, <2>1 DEF Good
  <2> HIDE DEF a
  <2>6. Good(a, gone)
    <3>1. a.pending = <<>>
      BY <1>2, <2>1, <2>3
    <3>2. a.hasty = c.hasty /\ (t.disconnect => c.hasty /\ gone)
      BY <1>2, <2>3, <2>5
    <3>3. QED
      BY <2>3, <3>1, <3>2 DEF Good
  <2>7. QED
    BY <1>2, <2>3, <2>4, <2>6 DEF a, t
<1>6. QED
  BY <1>4, <1>5

(* The connection of a client that has gone is found broken.                  *)
LEMMA BrokenGood ==
  ASSUME NEW c \in SessionRecord, Good(c, TRUE), c.pending # <<>>
  PROVE  LET a == [c EXCEPT !.pending = <<>>, !.disconnect = TRUE] IN
         a \in SessionRecord /\ Good(a, TRUE) /\ a.freed = c.freed /\ a.socket = c.socket
<1>1. <<>> \in Seq(Piece)
  OBVIOUS
<1>2. QED
  BY <1>1 DEF Good, SessionRecord

(* A session that has read a header, has sent a 100 Continue, or a refusal.    *)
HeaderRead(c, i) == [Begun(c, i) EXCEPT !.User3 = TRUE]

Continued(c, i, n, fails) ==
  Sent([HeaderRead(c, i) EXCEPT !.Reserved4 = FALSE], <<[of |-> i, is |-> "100"]>>, n, fails)

NotContinued(c, i, n, fails) ==
  Sent(HeaderRead(c, i), <<[of |-> i, is |-> "417"]>>, n, fails)

(* A header alone: the session is busy, and a 100 Continue may have been sent. *)
LEMMA HeaderGood ==
  ASSUME NEW c \in SessionRecord, NEW gone \in BOOLEAN, Good(c, gone), c.header = 0,
         NEW i \in 1 .. MaxRequest, NEW n \in 0 .. 1, NEW fails \in BOOLEAN
  PROVE  LET b == HeaderRead(c, i)
             a == Continued(c, i, n, fails)
             d == NotContinued(c, i, n, fails)
         IN  /\ b \in SessionRecord /\ Good(b, gone) /\ b.freed = c.freed /\ b.socket = c.socket
             /\ a \in SessionRecord /\ a.freed = c.freed /\ a.socket = c.socket
             /\ (c.disconnect => fails) /\ (fails => gone /\ c.pending = <<>>) => Good(a, gone)
             /\ d \in SessionRecord /\ d.socket = c.socket
<1> DEFINE b == HeaderRead(c, i)
           e == [b EXCEPT !.Reserved4 = FALSE]
           P(is) == <<[of |-> i, is |-> is]>>
           a == Sent(e, P("100"), n, fails)
           d == Sent(b, P("417"), n, fails)
<1>1. /\ Busy(Begun(c, i)) /\ Begun(c, i).pending = c.pending
      /\ Begun(c, i).disconnect = c.disconnect /\ Begun(c, i).hasty = c.hasty
      /\ Begun(c, i).freed = c.freed /\ Begun(c, i).socket = c.socket
      /\ Begun(c, i) \in SessionRecord
  <2>1. Begun(c, i) \in SessionRecord
    <3>1. i \in 0 .. MaxRequest
      BY ServerAssumption
    <3>2. QED
      BY <3>1 DEF Begun, SessionRecord
  <2>2. QED
    BY <2>1, BegunBusy
<1>2. /\ Busy(b) /\ b.pending = c.pending /\ b.disconnect = c.disconnect /\ b.hasty = c.hasty
      /\ b.freed = c.freed /\ b.socket = c.socket /\ b \in SessionRecord
  BY <1>1 DEF Busy, SessionRecord, HeaderRead
<1>3. Good(b, gone)
  BY <1>2 DEF Good, Busy
<1>4. /\ Busy(e) /\ e.pending = c.pending /\ e.disconnect = c.disconnect /\ e.hasty = c.hasty
      /\ e.freed = c.freed /\ e.socket = c.socket /\ e \in SessionRecord
  <2> HIDE DEF b
  <2>1. QED
    BY <1>2 DEF Busy, SessionRecord
<1>5. ASSUME NEW is \in {"100", "417"}
      PROVE  P(is) \in Seq(Piece) /\ Len(P(is)) = 1 /\ n \in Nat /\ n <= Len(P(is))
  <2>1. [of |-> i, is |-> is] \in Piece
    BY DEF Piece
  <2>2. QED
    BY <2>1
<1>6. a \in SessionRecord /\ d \in SessionRecord
  <2> HIDE DEF b, e, P
  <2>1. QED
    BY <1>2, <1>4, <1>5, SentType
<1>7. /\ a.Reserved5 = e.Reserved5 /\ a.Reserved8 = e.Reserved8 /\ a.idle = e.idle
      /\ a.header = e.header /\ a.hasty = e.hasty /\ a.freed = e.freed /\ a.socket = e.socket
      /\ a.disconnect = (e.disconnect \/ (e.pending = <<>> /\ fails))
      /\ e.pending = <<>> /\ fails => a.pending = <<>>
      /\ d.socket = b.socket
  <2> HIDE DEF b, e, P
  <2>1. QED
    BY <1>2, <1>4, <1>5, SentFields
<1>8. (c.disconnect => fails) /\ (fails => gone /\ c.pending = <<>>) => Good(a, gone)
  <2> HIDE DEF a, d, b, e
  <2>1. QED
    BY <1>4, <1>7 DEF Good, Busy
<1>9. a = Continued(c, i, n, fails) /\ d = NotContinued(c, i, n, fails)
  BY DEF Continued, NotContinued
<1> HIDE DEF a, d, e, b
<1>10. QED
  BY <1>2, <1>3, <1>4, <1>6, <1>7, <1>8, <1>9 DEF b
-----------------------------------------------------------------------------
(* The invariant of all sessions.                                            *)

(* A session as it was before Check took its timers out.                     *)
Before(s) ==
  [session[s] EXCEPT !.idle = @ \/ IdleEvent(s) \in ToSet(batch),
                     !.disconnect = @ \/ DisconnectEvent(session[s].socket) \in ToSet(batch)]

GoodInv == \A s \in DOMAIN session : Live(s) => Good(Before(s), client[s].gone)

(* A freed session is on no timer, and is called by one only if it was hasty. *)
FreedInv == \A s \in DOMAIN session : session[s].freed =>
  /\ ~session[s].idle /\ ~session[s].disconnect
  /\ IdleEvent(s) \in ToSet(batch) => session[s].hasty

(* A socket has one session at a time. *)
OneSession == \A s, u \in DOMAIN session :
  Live(s) /\ Live(u) /\ s # u => session[s].socket # session[u].socket

(* Each timer is called once. *)
BatchInv == /\ \A i, j \in DOMAIN batch : i # j => batch[i] # batch[j]
            /\ \A s \in Session : IdleEvent(s) \in ToSet(batch) => s \in DOMAIN session

LineInv == \A s \in DOMAIN client : Line(client[s])

SInv == TypeOK /\ LineInv /\ GoodInv /\ FreedInv /\ OneSession /\ BatchInv /\ NoFreedUse

(* The domains of sequences. *)
LEMMA Domains ==
  ASSUME TypeOK
  PROVE  /\ DOMAIN session = 1 .. Len(session) /\ DOMAIN client = DOMAIN session
         /\ Len(session) \in Nat /\ DOMAIN session \subseteq Session
         /\ \A s \in DOMAIN session : session[s] \in SessionRecord /\ client[s] \in ClientRecord
<1>1. session \in Seq(SessionRecord) /\ client \in Seq(ClientRecord) /\ Len(client) = Len(session)
      /\ Len(session) <= MaxSession
  BY DEF TypeOK
<1>2. QED
  BY <1>1, ServerAssumption DEF Session

(* Between two rounds of the timer a session is as it is.                     *)
LEMMA NothingTaken ==
  ASSUME TypeOK, batch = <<>>
  PROVE  ToSet(batch) = {} /\ \A s \in DOMAIN session : Before(s) = session[s]
<1>1. DOMAIN <<>> = {}
  OBVIOUS
<1>2. ToSet(batch) = {}
  BY <1>1 DEF ToSet
<1>3. ASSUME NEW s \in DOMAIN session PROVE Before(s) = session[s]
  <2>1. session[s] \in SessionRecord
    BY Domains
  <2>2. QED
    BY <1>2, <2>1 DEF Before, SessionRecord
<1>4. QED
  BY <1>2, <1>3

(* A function on the first n numbers is a sequence.                          *)
LEMMA FunctionSeq ==
  ASSUME NEW S, NEW n \in Nat, NEW f \in [1 .. n -> S] PROVE f \in Seq(S) /\ Len(f) = n
<1>1. f \in Seq(S)
  BY SeqDef
<1>2. 1 .. Len(f) = 1 .. n /\ Len(f) \in Nat
  BY <1>1, LenProperties
<1>3. QED
  BY <1>1, <1>2

(* A freed session. *)
LEMMA FreedType ==
  ASSUME NEW c \in SessionRecord
  PROVE  /\ Freed(c) \in SessionRecord /\ Freed(c).socket = c.socket /\ Freed(c).freed
         /\ ~Freed(c).idle /\ ~Freed(c).disconnect /\ Freed(c).hasty = c.hasty
<1>1. <<>> \in Seq(Piece) /\ 0 \in 0 .. MaxRequest
  BY ServerAssumption
<1>2. QED
  BY ZenonT(40), <1>1 DEF Freed, NewSession, SessionRecord

(* The client of a connection that has ended or begins.                      *)
LEMMA NewClientType ==
  /\ NewClient \in ClientRecord /\ Line(NewClient)
  /\ [NewClient EXCEPT !.gone = TRUE] \in ClientRecord /\ Line([NewClient EXCEPT !.gone = TRUE])
<1>1. <<>> \in Seq(Request) /\ <<>> \in Seq(Part) /\ Len(<<>>) = 0 /\ DOMAIN <<>> = {}
  OBVIOUS
<1>2. ASSUME NEW d, d.requests = <<>>, d.line = <<>>, d.body = FALSE PROVE Line(d)
  BY <1>1, <1>2, ServerAssumption DEF Line
<1>3. NewClient \in ClientRecord /\ [NewClient EXCEPT !.gone = TRUE] \in ClientRecord
  BY <1>1 DEF NewClient, ClientRecord
<1>4. QED
  BY <1>2, <1>3 DEF NewClient

(* Disconnected changes only its session, since a socket has only one.        *)
LEMMA OnlyOne ==
  ASSUME TypeOK, OneSession, FreedInv, NEW s \in DOMAIN session, Live(s), NEW c \in SessionRecord,
         c.socket = session[s].socket
  PROVE  Disconnected(s, [session EXCEPT ![s] = c]) = [session EXCEPT ![s] = Freed(c)]
<1> DEFINE all == [session EXCEPT ![s] = c]
<1>1. /\ DOMAIN all = DOMAIN session /\ all[s] = c
      /\ \A i \in DOMAIN session : i # s => all[i] = session[i]
  OBVIOUS
<1>2. ASSUME NEW i \in DOMAIN session, i # s, all[i].socket = all[s].socket
      PROVE  [all[i] EXCEPT !.disconnect = FALSE] = session[i]
  <2>1. session[i].freed
    BY <1>1, <1>2 DEF OneSession, Live
  <2>2. session[i].disconnect = FALSE
    BY <2>1, Domains DEF FreedInv, SessionRecord
  <2>3. QED
    BY <1>1, <1>2, <2>2, Domains DEF SessionRecord
<1>3. Disconnected(s, all) = [i \in DOMAIN session |->
        IF i = s THEN Freed(c) ELSE session[i]]
  <2> HIDE DEF all
  <2>1. QED
    BY <1>1, <1>2 DEF Disconnected
<1>4. QED
  BY <1>3

(* One session and its client change while no timer is called.               *)
LEMMA OneChanges ==
  ASSUME SInv, batch = <<>>, NEW s \in DOMAIN session, Live(s), NEW c \in SessionRecord,
         session' = [session EXCEPT ![s] = c], c.socket = session[s].socket,
         NEW d \in ClientRecord, Line(d), client' = [client EXCEPT ![s] = d],
         IF c.freed THEN ~c.idle /\ ~c.disconnect ELSE Good(c, d.gone),
         UNCHANGED <<batch, destroyed, crashed>>, ~crashed
  PROVE  SInv'
<1>1. TypeOK /\ TypeOK'
  <2>1. TypeOK
    BY DEF SInv
  <2>2. session' \in Seq(SessionRecord) /\ Len(session') = Len(session)
    BY <2>1, ExceptSeq, Domains DEF TypeOK
  <2>3. client' \in Seq(ClientRecord) /\ Len(client') = Len(client)
    BY <2>1, ExceptSeq, Domains DEF TypeOK
  <2>4. QED
    BY <2>1, <2>2, <2>3 DEF TypeOK
<1>2. /\ DOMAIN session' = DOMAIN session /\ DOMAIN client' = DOMAIN client
      /\ DOMAIN client = DOMAIN session
      /\ session'[s] = c /\ client'[s] = d
      /\ \A u \in DOMAIN session : u # s => session'[u] = session[u] /\ client'[u] = client[u]
  BY <1>1, Domains
<1>3. LineInv'
  BY <1>2 DEF SInv, LineInv
<1>4. /\ ToSet(batch) = {} /\ ToSet(batch') = {}
      /\ \A u \in DOMAIN session : Before(u) = session[u]
      /\ \A u \in DOMAIN session' : Before(u)' = session'[u]
  <2>1. TypeOK' /\ batch' = <<>>
    BY <1>1
  <2>2. ToSet(batch') = {} /\ \A u \in DOMAIN session' : Before(u)' = session'[u]
    <3>1. ToSet(batch') = {}
      BY <2>1, NothingTaken, <1>1
    <3>2. ASSUME NEW u \in DOMAIN session' PROVE Before(u)' = session'[u]
      <4>1. session'[u] \in SessionRecord
        BY <1>1, <1>2, Domains
      <4>2. QED
        BY <3>1, <4>1 DEF Before, SessionRecord
    <3>3. QED
      BY <3>1, <3>2
  <2>3. QED
    BY <1>1, <2>2, NothingTaken
<1>5. GoodInv'
  BY <1>2, <1>4 DEF SInv, GoodInv, Live
<1>6. FreedInv'
  BY <1>2, <1>4 DEF SInv, FreedInv
<1>7. OneSession'
  BY <1>2 DEF SInv, OneSession, Live
<1>8. BatchInv' /\ NoFreedUse'
  BY <1>2 DEF SInv, BatchInv, NoFreedUse
<1>9. QED
  BY <1>1, <1>3, <1>5, <1>6, <1>7, <1>8 DEF SInv
-----------------------------------------------------------------------------
(* The steps of the clients.                                                 *)

(* A client changes, and does not come back when it has gone.                 *)
LEMMA ClientChanges ==
  ASSUME SInv, NEW s \in DOMAIN session, NEW d \in ClientRecord, Line(d),
         client' = [client EXCEPT ![s] = d], client[s].gone => d.gone,
         UNCHANGED <<session, batch, destroyed, crashed>>
  PROVE  SInv'
<1>1. TypeOK /\ TypeOK'
  <2>1. TypeOK
    BY DEF SInv
  <2>2. client' \in Seq(ClientRecord) /\ Len(client') = Len(client)
    BY <2>1, ExceptSeq, Domains DEF TypeOK
  <2>3. QED
    BY <2>1, <2>2 DEF TypeOK
<1>2. /\ DOMAIN client' = DOMAIN client /\ DOMAIN client = DOMAIN session /\ client'[s] = d
      /\ \A u \in DOMAIN session : u # s => client'[u] = client[u]
  BY <1>1, Domains
<1>3. LineInv'
  BY <1>2 DEF SInv, LineInv
<1>4. ASSUME NEW u \in DOMAIN session, Live(u) PROVE Good(Before(u), client'[u].gone)
  <2>1. Good(Before(u), client[u].gone)
    BY <1>4 DEF SInv, GoodInv
  <2>2. client[u].gone => client'[u].gone
    BY <1>2
  <2>3. QED
    BY <2>1, <2>2 DEF Good
<1>5. GoodInv'
  BY <1>4 DEF GoodInv, Live, Before
<1>6. FreedInv' /\ OneSession' /\ BatchInv' /\ NoFreedUse'
  BY DEF SInv, FreedInv, OneSession, BatchInv, NoFreedUse, Live
<1>7. QED
  BY <1>1, <1>3, <1>5, <1>6 DEF SInv

(* A client sends, or leaves.                                                *)
LEMMA ClientsKeep ==
  ASSUME SInv, NEW s \in DOMAIN session,
         SendBody(s) \/ Leave(s) \/ \E r \in Request : SendHeader(s, r)
  PROVE  SInv'
<1> DEFINE c == client[s]
<1>1. /\ c \in ClientRecord /\ Line(c) /\ c.requests \in Seq(Request) /\ c.line \in Seq(Part)
      /\ Len(c.requests) \in Nat /\ MaxRequest \in Nat
  BY Domains, ServerAssumption DEF SInv, LineInv, ClientRecord
<1>2. ASSUME NEW of \in 1 .. MaxRequest, NEW is \in {"header", "body"}
      PROVE  /\ Append(c.line, [of |-> of, is |-> is]) \in Seq(Part)
             /\ \A j \in DOMAIN Append(c.line, [of |-> of, is |-> is]) :
                  \/ j \in DOMAIN c.line /\ Append(c.line, [of |-> of, is |-> is])[j] = c.line[j]
                  \/ Append(c.line, [of |-> of, is |-> is])[j].of = of
  <2>1. [of |-> of, is |-> is] \in Part
    BY DEF Part
  <2>2. QED
    BY <1>1, <2>1
<1>3. ASSUME NEW r \in Request, SendHeader(s, r) PROVE SInv'
  <2> DEFINE n == Len(c.requests) + 1
             d == [c EXCEPT !.requests = Append(@, r),
                            !.line = Append(@, [of |-> n, is |-> "header"]),
                            !.body = r.body]
  <2>1. n \in 1 .. MaxRequest
    <3>1. Len(c.requests) < MaxRequest
      BY <1>3 DEF SendHeader
    <3>2. QED
      BY <1>1, <3>1
  <2>2. Append(c.requests, r) \in Seq(Request) /\ Len(Append(c.requests, r)) = n
        /\ Append(c.requests, r) # <<>> /\ r.body \in BOOLEAN
    <3>1. c.requests \in Seq(Request)
      BY <1>1
    <3>2. r.body \in BOOLEAN
      BY ServerAssumption
    <3> HIDE DEF c, d
    <3>3. Append(c.requests, r) \in Seq(Request) /\ Len(Append(c.requests, r)) = n
      BY <3>1
    <3>4. Append(c.requests, r) # <<>>
      BY <1>1, <3>1
    <3>5. QED
      BY <3>2, <3>3, <3>4
  <2>3. d \in ClientRecord /\ d.gone = c.gone
    BY <1>1, <1>2, <2>1, <2>2 DEF ClientRecord
  <2>4. Line(d)
    <3>1. d.requests = Append(c.requests, r) /\ d.line = Append(c.line, [of |-> n, is |-> "header"])
      BY <1>1 DEF ClientRecord
    <3>2. \A j \in DOMAIN c.line : c.line[j].of \in 1 .. n
      BY <1>1 DEF Line
    <3>3. \A j \in DOMAIN d.line : d.line[j].of \in 1 .. n
      BY SMTT(30), <1>2, <2>1, <3>1, <3>2
    <3>4. QED
      BY <2>1, <2>2, <3>1, <3>3 DEF Line
  <2>5. client' = [client EXCEPT ![s] = d] /\ UNCHANGED <<session, batch, destroyed, crashed>>
    BY ZenonT(40), <1>3 DEF SendHeader
  <2> HIDE DEF d
  <2>6. QED
    BY <2>3, <2>4, <2>5, ClientChanges
<1>4. CASE SendBody(s)
  <2> DEFINE n == Len(c.requests)
             d == [c EXCEPT !.line = Append(@, [of |-> n, is |-> "body"]), !.body = FALSE]
  <2>1. n \in 1 .. MaxRequest
    <3>1. c.requests # <<>>
      BY <1>1, <1>4 DEF SendBody, Line
    <3>2. n # 0
      BY <1>1, <3>1, EmptySeq
    <3>3. QED
      BY <1>1, <3>2 DEF Line
  <2>2. d \in ClientRecord /\ d.gone = c.gone
    BY <1>1, <1>2, <2>1 DEF ClientRecord
  <2>3. Line(d)
    <3>1. /\ d.requests = c.requests /\ d.line = Append(c.line, [of |-> n, is |-> "body"])
          /\ d.body = FALSE
      BY <1>1 DEF ClientRecord
    <3>2. \A j \in DOMAIN d.line : d.line[j].of \in 1 .. n
      BY <1>1, <1>2, <2>1, <3>1 DEF Line
    <3>3. QED
      BY <1>1, <3>1, <3>2 DEF Line
  <2>4. client' = [client EXCEPT ![s] = d] /\ UNCHANGED <<session, batch, destroyed, crashed>>
    BY <1>4 DEF SendBody
  <2> HIDE DEF d
  <2>5. QED
    BY <2>2, <2>3, <2>4, ClientChanges
<1>5. CASE Leave(s)
  <2> DEFINE d == [c EXCEPT !.gone = TRUE]
  <2>1. d \in ClientRecord /\ Line(d) /\ d.gone
    BY <1>1 DEF ClientRecord, Line
  <2>2. client' = [client EXCEPT ![s] = d] /\ UNCHANGED <<session, batch, destroyed, crashed>>
    BY <1>5 DEF Leave
  <2> HIDE DEF d
  <2>3. QED
    BY <2>1, <2>2, ClientChanges
<1>6. QED
  BY <1>3, <1>4, <1>5
-----------------------------------------------------------------------------
(* The chain thread between two rounds of the timer.                         *)

(* The other end has closed the connection.                                   *)
LEMMA PeerClosesKeeps ==
  ASSUME SInv, NEW s \in DOMAIN session, PeerCloses(s) PROVE SInv'
<1> DEFINE d == [NewClient EXCEPT !.gone = TRUE]
<1>1. /\ Live(s) /\ batch = <<>> /\ ~crashed /\ session[s] \in SessionRecord
      /\ UNCHANGED <<batch, destroyed, crashed>>
  BY Domains DEF PeerCloses, Ready, SInv
<1>2. session' = [session EXCEPT ![s] = Freed(session[s])]
  <2>1. session = [session EXCEPT ![s] = session[s]]
    <3>1. session \in [1 .. Len(session) -> SessionRecord]
      BY LenProperties DEF SInv, TypeOK
    <3>2. QED
      BY <3>1
  <2>2. session' = Disconnected(s, [session EXCEPT ![s] = session[s]])
    BY <2>1 DEF PeerCloses
  <2>3. QED
    BY <1>1, <2>2, OnlyOne DEF SInv
<1>3. client' = [client EXCEPT ![s] = d]
  BY DEF PeerCloses, Gone
<1>4. d \in ClientRecord /\ Line(d)
  BY NewClientType
<1> HIDE DEF d
<1>5. QED
  BY <1>1, <1>2, <1>3, <1>4, FreedType, OneChanges

(* What is read of a line leaves a line. *)
LEMMA ReadType ==
  ASSUME NEW c \in ClientRecord, Line(c), NEW k \in 1 .. Len(c.line)
  PROVE  LET d == [c EXCEPT !.line = SubSeq(@, k + 1, Len(@))] IN
         d \in ClientRecord /\ Line(d) /\ d.gone = c.gone
<1> DEFINE d == [c EXCEPT !.line = SubSeq(@, k + 1, Len(@))]
<1>1. c.line \in Seq(Part) /\ Len(c.line) \in Nat /\ k \in Nat /\ k <= Len(c.line)
  BY DEF ClientRecord
<1>2. SubSeq(c.line, k + 1, Len(c.line)) \in Seq(Part)
  BY <1>1, Parts
<1>3. /\ Len(SubSeq(c.line, k + 1, Len(c.line))) = Len(c.line) - k
      /\ \A j \in 1 .. Len(c.line) - k : SubSeq(c.line, k + 1, Len(c.line))[j] = c.line[k + j]
  BY <1>1, SubSeqProperties
<1>4. /\ d.requests = c.requests /\ d.body = c.body /\ d.line = SubSeq(c.line, k + 1, Len(c.line))
      /\ d.gone = c.gone /\ d \in ClientRecord
  BY <1>2 DEF ClientRecord
<1>5. ASSUME NEW j \in DOMAIN d.line PROVE d.line[j].of \in 1 .. Len(c.requests)
  <2>1. j \in 1 .. Len(c.line) - k
    BY <1>2, <1>3, <1>4, <1>5, LenProperties
  <2>2. k + j \in DOMAIN c.line /\ d.line[j] = c.line[k + j]
    BY SMTT(30), <1>1, <1>3, <1>4, <2>1
  <2>3. QED
    BY <2>2 DEF Line
<1>6. Line(d)
  BY <1>4, <1>5 DEF Line
<1>7. QED
  BY <1>4, <1>6

(* What may be read first, and the session that reads it.                    *)
LEMMA FirstPart ==
  ASSUME SInv, NEW s \in DOMAIN session, MayRead(s)
  PROVE  LET line == client[s].line  i == line[1].of IN
         /\ line \in Seq(Part) /\ Len(line) \in Nat \ {0}
         /\ i \in 1 .. MaxRequest /\ i \in 1 .. Len(client[s].requests)
         /\ client[s].requests[i] \in Request
         /\ client[s].requests \in Seq(Request) /\ Len(client[s].requests) \in Nat
         /\ client[s] \in ClientRecord /\ Line(client[s])
         /\ Live(s) /\ batch = <<>> /\ ~crashed /\ session[s] \in SessionRecord
         /\ Good(session[s], client[s].gone) /\ client[s].gone \in BOOLEAN
<1>1. Live(s) /\ batch = <<>> /\ ~crashed /\ client[s].line # <<>>
  BY DEF MayRead, Ready
<1>2. session[s] \in SessionRecord /\ client[s] \in ClientRecord /\ Line(client[s])
  BY Domains DEF SInv, LineInv
<1>3. Good(session[s], client[s].gone)
  BY <1>1, NothingTaken DEF SInv, GoodInv
<1>4. /\ client[s].line \in Seq(Part) /\ client[s].requests \in Seq(Request)
      /\ client[s].gone \in BOOLEAN
  BY <1>2 DEF ClientRecord
<1>5. Len(client[s].line) \in Nat \ {0}
  BY <1>1, <1>4, EmptySeq
<1>6. client[s].line[1].of \in 1 .. Len(client[s].requests) /\ Len(client[s].requests) <= MaxRequest
  BY <1>2, <1>4, <1>5 DEF Line
<1>7. QED
  BY SMTT(30), <1>1, <1>2, <1>3, <1>4, <1>5, <1>6, ServerAssumption

(* A request is answered, and nothing or something was read for it.           *)
LEMMA RespondedKeeps ==
  ASSUME SInv, NEW s \in DOMAIN session, MayRead(s), NEW i \in 1 .. MaxRequest, NEW r \in Request,
         NEW n \in 0 .. 3, NEW fails \in BOOLEAN, Network(s, Len(Pieces(i, r)), n, fails),
         session' = [session EXCEPT ![s] = Responded(session[s], i, r, n, fails)],
         client' = client \/ \E k \in 1 .. Len(client[s].line) : Read(s, k),
         UNCHANGED <<batch, destroyed, crashed>>
  PROVE  SInv'
<1> DEFINE c == Responded(session[s], i, r, n, fails)
<1>1. /\ Live(s) /\ batch = <<>> /\ ~crashed /\ session[s] \in SessionRecord
      /\ client[s] \in ClientRecord /\ Line(client[s])
      /\ Good(session[s], client[s].gone) /\ client[s].gone \in BOOLEAN
  BY FirstPart
<1>2. /\ n \in Nat /\ n <= Len(Pieces(i, r))
      /\ session[s].disconnect => fails
      /\ fails => client[s].gone /\ session[s].pending = <<>>
  BY DEF Network
<1>3. /\ c \in SessionRecord /\ Good(c, client[s].gone) /\ c.freed = session[s].freed
      /\ c.socket = session[s].socket
  BY <1>1, <1>2, RespondedType, RespondedGood
<1>4. PICK d \in ClientRecord : Line(d) /\ d.gone = client[s].gone
                                /\ client' = [client EXCEPT ![s] = d]
  <2>1. CASE client' = client
    <3>1. client \in [1 .. Len(client) -> ClientRecord]
      BY LenProperties DEF SInv, TypeOK
    <3>2. client' = [client EXCEPT ![s] = client[s]]
      BY <2>1, <3>1
    <3>3. QED
      BY <1>1, <3>2
  <2>2. ASSUME NEW k \in 1 .. Len(client[s].line), Read(s, k)
        PROVE  \E d \in ClientRecord : Line(d) /\ d.gone = client[s].gone
                                       /\ client' = [client EXCEPT ![s] = d]
    <3> DEFINE d == [client[s] EXCEPT !.line = SubSeq(@, k + 1, Len(@))]
    <3>1. d \in ClientRecord /\ Line(d) /\ d.gone = client[s].gone
      BY <1>1, ReadType
    <3>2. client' = [client EXCEPT ![s] = d]
      BY <2>2 DEF Read
    <3> HIDE DEF d
    <3>3. QED
      BY <3>1, <3>2
  <2>3. QED
    BY <2>1, <2>2
<1>5. ~c.freed
  BY <1>1, <1>3 DEF Live
<1>6. session' = [session EXCEPT ![s] = c]
  OBVIOUS
<1> HIDE DEF c
<1>7. Good(c, d.gone)
  BY <1>3, <1>4
<1>8. QED
  BY <1>1, <1>3, <1>4, <1>5, <1>6, <1>7, OneChanges

(* All of a request is read at once.                                        *)
LEMMA OnWholeRequestKeeps ==
  ASSUME SInv, NEW s \in DOMAIN session, NEW n \in 0 .. 3, NEW fails \in BOOLEAN,
         OnWholeRequest(s, n, fails)
  PROVE  SInv'
<1> DEFINE i == client[s].line[1].of
           r == client[s].requests[i]
           k == IF r.body THEN 2 ELSE 1
<1>1. MayRead(s)
  BY DEF OnWholeRequest
<1>2. i \in 1 .. MaxRequest /\ r \in Request /\ Len(client[s].line) \in Nat
  BY SMTT(30), <1>1, FirstPart
<1>3. /\ k <= Len(client[s].line) /\ Network(s, Len(Pieces(i, r)), n, fails)
      /\ session' = [session EXCEPT ![s] = Responded(session[s], i, r, n, fails)]
      /\ Read(s, k) /\ UNCHANGED <<batch, destroyed, crashed>>
  BY DEF OnWholeRequest
<1>4. k \in {1, 2}
  OBVIOUS
<1> HIDE DEF i, r, k
<1>5. k \in 1 .. Len(client[s].line)
  BY <1>2, <1>3, <1>4
<1>6. QED
  BY <1>1, <1>2, <1>3, <1>5, RespondedKeeps

(* The rest of a request is read.                                            *)
LEMMA OnBodyKeeps ==
  ASSUME SInv, NEW s \in DOMAIN session, NEW n \in 0 .. 3, NEW fails \in BOOLEAN,
         OnBody(s, n, fails)
  PROVE  SInv'
<1> DEFINE i == session[s].header
           r == client[s].requests[i]
<1>1. MayRead(s) /\ client[s].line[1] = [of |-> i, is |-> "body"]
  BY DEF OnBody
<1>2. i = client[s].line[1].of
  BY <1>1
<1>3. i \in 1 .. MaxRequest /\ r \in Request /\ 1 \in 1 .. Len(client[s].line)
  BY <1>1, <1>2, FirstPart
<1>4. /\ Network(s, Len(Pieces(i, r)), n, fails)
      /\ session' = [session EXCEPT ![s] = Responded(session[s], i, r, n, fails)]
      /\ Read(s, 1) /\ UNCHANGED <<batch, destroyed, crashed>>
  BY DEF OnBody
<1> HIDE DEF i, r
<1>5. QED
  BY <1>1, <1>3, <1>4, RespondedKeeps

(* The next request is taken for the rest of one.                            *)
LEMMA OnMisreadKeeps ==
  ASSUME SInv, NEW s \in DOMAIN session, NEW n \in 0 .. 3, NEW fails \in BOOLEAN,
         OnMisread(s, n, fails)
  PROVE  SInv'
<1> DEFINE i == session[s].header
           r == client[s].requests[i]
<1>1. MayRead(s) /\ i # 0 /\ client[s].line[1] = [of |-> i + 1, is |-> "header"]
  BY DEF OnMisread
<1>2. i + 1 = client[s].line[1].of
  BY <1>1
<1>3. i \in 0 .. MaxRequest
  BY Domains DEF SInv, SessionRecord
<1>4. i \in 1 .. MaxRequest /\ r \in Request
  <2>1. /\ i + 1 \in 1 .. Len(client[s].requests) /\ client[s].requests \in Seq(Request)
        /\ Len(client[s].requests) \in Nat
    BY <1>1, <1>2, FirstPart
  <2>2. i \in 1 .. Len(client[s].requests) /\ i \in 1 .. MaxRequest
    BY <1>1, <1>3, <2>1, ServerAssumption
  <2>3. QED
    BY <2>1, <2>2, ElementOfSeq
<1>5. /\ Network(s, Len(Pieces(i, r)), n, fails)
      /\ session' = [session EXCEPT ![s] = Responded(session[s], i, r, n, fails)]
      /\ client' = client /\ UNCHANGED <<batch, destroyed, crashed>>
  BY DEF OnMisread
<1> HIDE DEF i, r
<1>6. QED
  BY <1>1, <1>4, <1>5, RespondedKeeps

(* A header alone is read.                                                   *)
LEMMA OnHeaderKeeps ==
  ASSUME SInv, NEW s \in DOMAIN session, NEW n \in 0 .. 3, NEW fails \in BOOLEAN,
         OnHeader(s, n, fails)
  PROVE  SInv'
<1> DEFINE c == session[s]
           i == client[s].line[1].of
           r == client[s].requests[i]
           gone == client[s].gone
           b == HeaderRead(c, i)
           a == Continued(c, i, n, fails)
           d == NotContinued(c, i, n, fails)
           read == [client[s] EXCEPT !.line = SubSeq(@, 2, Len(@))]
           left == [NewClient EXCEPT !.gone = TRUE]
<1>1. MayRead(s) /\ c.header = 0 /\ UNCHANGED <<batch, destroyed, crashed>>
  BY DEF OnHeader
<1>2. /\ i \in 1 .. MaxRequest /\ r \in Request /\ 1 \in 1 .. Len(client[s].line)
      /\ Live(s) /\ batch = <<>> /\ ~crashed /\ c \in SessionRecord /\ Good(c, gone)
      /\ gone \in BOOLEAN /\ client[s] \in ClientRecord /\ Line(client[s])
  BY SMTT(30), <1>1, FirstPart
<1>3. /\ IF ~Expecting(c, r) THEN n = 0 /\ ~fails ELSE Network(s, 1, n, fails)
      /\ session' = CASE ~Expecting(c, r) -> [session EXCEPT ![s] = b]
            [] Expecting(c, r) /\ r.Expect = "100-Continue" -> [session EXCEPT ![s] = a]
            [] Expecting(c, r) /\ r.Expect = "other" ->
                 Disconnected(s, [session EXCEPT ![s] = d])
      /\ IF Expecting(c, r) /\ r.Expect = "other" THEN Gone(s) ELSE Read(s, 1)
  BY DEF OnHeader, HeaderRead, Continued, NotContinued
<1>4. n \in 0 .. 1
  <2>1. Network(s, 1, n, fails) => n <= 1
    BY DEF Network
  <2> HIDE DEF i, r, c
  <2>2. n = 0 \/ n <= 1
    BY <1>3, <2>1
  <2>3. QED
    BY <2>2
<1>5. /\ b \in SessionRecord /\ Good(b, gone) /\ b.freed = c.freed /\ b.socket = c.socket
      /\ a \in SessionRecord /\ a.freed = c.freed /\ a.socket = c.socket
      /\ (c.disconnect => fails) /\ (fails => gone /\ c.pending = <<>>) => Good(a, gone)
      /\ d \in SessionRecord /\ d.socket = c.socket
  <2> HIDE DEF c, i, r, gone, b, a, d
  <2>1. /\ c \in SessionRecord /\ gone \in BOOLEAN /\ Good(c, gone)
        /\ c.header = 0 /\ i \in 1 .. MaxRequest
    BY <1>1, <1>2
  <2>2. QED
    BY <1>4, <2>1, HeaderGood DEF b, a, d
<1>6. ~c.freed
  BY <1>2 DEF Live
<1>7. /\ read \in ClientRecord /\ Line(read) /\ read.gone = gone
      /\ Read(s, 1) => client' = [client EXCEPT ![s] = read]
  <2>1. 1 + 1 = 2
    OBVIOUS
  <2>2. QED
    BY <1>2, <2>1, ReadType DEF Read
<1>8. left \in ClientRecord /\ Line(left) /\ (Gone(s) => client' = [client EXCEPT ![s] = left])
  BY NewClientType DEF Gone
<1>9. r.Expect \in {"none", "100-Continue", "other"}
  BY <1>2, ServerAssumption
<1> HIDE DEF i, r, gone, b, a, d, read, left
<1>10. CASE ~Expecting(c, r)
  <2>1. session' = [session EXCEPT ![s] = b] /\ client' = [client EXCEPT ![s] = read]
    BY <1>3, <1>7, <1>10
  <2>2. ~b.freed /\ Good(b, read.gone)
    BY <1>5, <1>6, <1>7
  <2>3. QED
    BY <1>1, <1>2, <1>5, <1>7, <2>1, <2>2, OneChanges
<1>11. CASE Expecting(c, r) /\ r.Expect = "100-Continue"
  <2>1. session' = [session EXCEPT ![s] = a] /\ client' = [client EXCEPT ![s] = read]
    BY <1>3, <1>7, <1>11
  <2>2. (c.disconnect => fails) /\ (fails => gone /\ c.pending = <<>>)
    BY <1>3, <1>11 DEF Network, gone
  <2>3. ~a.freed /\ Good(a, read.gone)
    BY <1>5, <1>6, <1>7, <2>2
  <2>4. QED
    BY <1>1, <1>2, <1>5, <1>7, <2>1, <2>3, OneChanges
<1>12. CASE Expecting(c, r) /\ r.Expect = "other"
  <2>1. session' = Disconnected(s, [session EXCEPT ![s] = d])
    BY <1>3, <1>12
  <2>2. session' = [session EXCEPT ![s] = Freed(d)]
    BY <1>2, <1>5, <2>1, OnlyOne DEF SInv
  <2>3. client' = [client EXCEPT ![s] = left]
    BY <1>3, <1>8, <1>12
  <2>4. /\ Freed(d) \in SessionRecord /\ Freed(d).socket = c.socket /\ Freed(d).freed
        /\ ~Freed(d).idle /\ ~Freed(d).disconnect
    BY <1>5, FreedType
  <2>5. QED
    BY <1>1, <1>2, <1>8, <2>2, <2>3, <2>4, OneChanges
<1>13. QED
  BY <1>9, <1>10, <1>11, <1>12 DEF Expecting

(* The network takes what is pending, or is found broken.                     *)
LEMMA TakeKeeps ==
  ASSUME SInv, NEW s \in DOMAIN session, Take(s) \/ TakeFails(s) PROVE SInv'
<1> DEFINE c == session[s]
<1>1. /\ Live(s) /\ batch = <<>> /\ ~crashed /\ UNCHANGED <<batch, destroyed, crashed>>
  BY DEF Take, TakeFails, Ready
<1>2. /\ c \in SessionRecord /\ ~c.freed /\ Good(c, client[s].gone) /\ client[s] \in ClientRecord
      /\ Line(client[s]) /\ client[s].gone \in BOOLEAN /\ c.pending \in Seq(Piece)
  BY <1>1, Domains, NothingTaken DEF SInv, GoodInv, LineInv, Live, ClientRecord, SessionRecord
<1>3. client' = client => client' = [client EXCEPT ![s] = client[s]]
  <2>1. client \in [1 .. Len(client) -> ClientRecord]
    BY LenProperties DEF SInv, TypeOK
  <2>2. QED
    BY <2>1
<1>4. CASE Take(s)
  <2> DEFINE r == client[s].requests[c.header]
             t(n) == Taken(c, n)
             a(n) == IF n = Len(c.pending) /\ c.header # 0 THEN SendOK(t(n), r) ELSE t(n)
  <2>1. PICK n \in 1 .. Len(c.pending) : session' = [session EXCEPT ![s] = a(n)]
    BY <1>4 DEF Take
  <2>2. c.pending # <<>>
    <3>1. Len(c.pending) # 0
      BY <1>2
    <3>2. QED
      BY <3>1
  <2>3. /\ a(n) \in SessionRecord /\ Good(a(n), client[s].gone) /\ a(n).freed = c.freed
        /\ a(n).socket = c.socket
    BY <1>2, <2>2, TakenGood
  <2>4. client' = [client EXCEPT ![s] = client[s]]
    BY <1>3, <1>4 DEF Take
  <2> HIDE DEF a
  <2>5. QED
    BY <1>1, <1>2, <2>1, <2>3, <2>4, OneChanges
<1>5. CASE TakeFails(s)
  <2> DEFINE a == [c EXCEPT !.pending = <<>>, !.disconnect = TRUE]
  <2>1. c.pending # <<>> /\ client[s].gone = TRUE
    BY <1>2, <1>5 DEF TakeFails
  <2>2. a \in SessionRecord /\ Good(a, TRUE) /\ a.freed = c.freed /\ a.socket = c.socket
    BY <1>2, <2>1, BrokenGood
  <2>3. session' = [session EXCEPT ![s] = a] /\ client' = [client EXCEPT ![s] = client[s]]
    BY <1>3, <1>5 DEF TakeFails
  <2> HIDE DEF a
  <2>4. QED
    BY <1>1, <1>2, <2>1, <2>2, <2>3, OneChanges
<1>6. QED
  BY <1>4, <1>5

(* A new session. *)
LEMMA NewSessionGood ==
  ASSUME NEW k \in Socket
  PROVE  /\ NewSession(k) \in SessionRecord /\ Good(NewSession(k), FALSE)
         /\ NewSession(k).socket = k /\ ~NewSession(k).freed
<1>1. <<>> \in Seq(Piece) /\ 0 \in 0 .. MaxRequest
  BY ServerAssumption
<1>2. QED
  BY <1>1 DEF NewSession, SessionRecord, Good

(* The elements of a concatenation.                                          *)
LEMMA Joined ==
  ASSUME NEW S, NEW p \in Seq(S), NEW q \in Seq(S), NEW pq, pq = p \o q
  PROVE  /\ pq \in Seq(S) /\ Len(pq) = Len(p) + Len(q)
         /\ \A u \in 1 .. Len(p) + Len(q) : pq[u] = IF u <= Len(p) THEN p[u] ELSE q[u - Len(p)]
BY ConcatProperties

(* Connections are accepted: the sessions and clients there were, and new ones, *)
(* each on a socket that was free.                                           *)
LEMMA Accepted ==
  ASSUME TypeOK, NEW n \in Socket, Accept(n)
  PROVE  LET m == Len(session) IN
         /\ n \in Nat /\ m \in Nat /\ m + n <= MaxSession
         /\ session' \in Seq(SessionRecord) /\ Len(session') = m + n
         /\ client' \in Seq(ClientRecord) /\ Len(client') = m + n
         /\ DOMAIN session = 1 .. m /\ DOMAIN session' = 1 .. m + n
         /\ DOMAIN client = 1 .. m /\ DOMAIN client' = 1 .. m + n
         /\ \E f :
              /\ \A i \in 1 .. n : f[i] \in Socket /\ IsFree(f[i])
              /\ \A i, j \in 1 .. n : i # j => f[i] # f[j]
              /\ \A u \in 1 .. m + n :
                   \/ u \in 1 .. m /\ session'[u] = session[u] /\ client'[u] = client[u]
                   \/ /\ u \notin 1 .. m /\ u - m \in 1 .. n
                      /\ session'[u] = NewSession(f[u - m]) /\ client'[u] = NewClient
<1> DEFINE m == Len(session)
           clients == [i \in 1 .. n |-> NewClient]
<1>1. /\ batch = <<>> /\ ~crashed /\ UNCHANGED <<batch, destroyed, crashed>>
      /\ m + n <= MaxSession /\ client' = client \o clients
  BY DEF Accept, Ready
<1>2. /\ TypeOK /\ n \in Nat /\ m \in Nat /\ Len(client) = m
      /\ session \in Seq(SessionRecord) /\ client \in Seq(ClientRecord)
  BY ServerAssumption DEF TypeOK, Socket
<1>3. PICK f \in FreeSockets(n) : session' = session \o [i \in 1 .. n |-> NewSession(f[i])]
  BY DEF Accept
<1> DEFINE new == [i \in 1 .. n |-> NewSession(f[i])]
<1>4. /\ f \in [1 .. n -> {k \in Socket : IsFree(k)}]
      /\ \A i, j \in 1 .. n : i < j => f[i] < f[j]
  BY <1>3 DEF FreeSockets
<1>5. \A i \in 1 .. n : f[i] \in Socket /\ IsFree(f[i])
  BY <1>4
<1>6. \A i, j \in 1 .. n : i # j => f[i] # f[j]
  <2>1. ASSUME NEW i \in 1 .. n, NEW j \in 1 .. n, i < j PROVE f[i] # f[j]
    <3>1. f[i] \in Int /\ f[j] \in Int /\ f[i] < f[j]
      BY <1>4, <1>5, <2>1 DEF Socket
    <3>2. QED
      BY <3>1
  <2>2. QED
    BY <1>2, <2>1
<1>7. /\ new \in Seq(SessionRecord) /\ Len(new) = n
      /\ clients \in Seq(ClientRecord) /\ Len(clients) = n
  <2>1. new \in [1 .. n -> SessionRecord]
    BY <1>5, NewSessionGood
  <2>2. clients \in [1 .. n -> ClientRecord]
    BY NewClientType
  <2> HIDE DEF new, clients
  <2>3. QED
    BY <1>2, <2>1, <2>2, FunctionSeq
<1>8. /\ session' \in Seq(SessionRecord) /\ Len(session') = m + n
      /\ client' \in Seq(ClientRecord) /\ Len(client') = m + n
      /\ \A u \in 1 .. m + n :
           /\ session'[u] = IF u <= m THEN session[u] ELSE new[u - m]
           /\ client'[u] = IF u <= m THEN client[u] ELSE clients[u - m]
  <2> HIDE DEF new, clients
  <2>1. session' = session \o new /\ client' = client \o clients
    BY <1>1, <1>3 DEF new
  <2>2. session \in Seq(SessionRecord) /\ new \in Seq(SessionRecord)
    BY <1>2, <1>7
  <2>3. client \in Seq(ClientRecord) /\ clients \in Seq(ClientRecord)
    BY <1>2, <1>7
  <2>4. /\ session' \in Seq(SessionRecord) /\ Len(session') = m + Len(new)
        /\ \A u \in 1 .. m + Len(new) : session'[u] = IF u <= m THEN session[u] ELSE new[u - m]
    BY <2>2, <2>1, Joined
  <2>5. /\ client' \in Seq(ClientRecord) /\ Len(client') = Len(client) + Len(clients)
        /\ \A u \in 1 .. Len(client) + Len(clients) :
             client'[u] = IF u <= Len(client) THEN client[u] ELSE clients[u - Len(client)]
    BY <2>3, <2>1, Joined
  <2> HIDE DEF m
  <2>6. QED
    BY <1>2, <1>7, <2>4, <2>5
<1>9. /\ DOMAIN session = 1 .. m /\ DOMAIN session' = 1 .. m + n /\ DOMAIN client' = 1 .. m + n
      /\ DOMAIN client = 1 .. m
  BY <1>2, <1>8, LenProperties
<1>10. ASSUME NEW u \in 1 .. m + n
       PROVE  \/ u \in 1 .. m /\ session'[u] = session[u] /\ client'[u] = client[u]
              \/ /\ u \notin 1 .. m /\ u - m \in 1 .. n
                 /\ session'[u] = NewSession(f[u - m]) /\ client'[u] = NewClient
  <2>1. CASE u <= m
    <3> HIDE DEF m, new, clients
    <3>1. u \in 1 .. m
      BY <1>2, <2>1
    <3>2. QED
      BY <1>8, <2>1, <3>1
  <2>2. CASE ~(u <= m)
    <3>1. u - m \in 1 .. n /\ u \notin 1 .. m
      BY <1>2, <2>2
    <3>2. session'[u] = new[u - m] /\ client'[u] = clients[u - m]
      <4> HIDE DEF new, clients
      <4>1. QED
        BY <1>8, <2>2
    <3>3. QED
      BY <3>1, <3>2
  <2>3. QED
    BY <2>1, <2>2
<1> HIDE DEF new, clients, m
<1>11. /\ \A i \in 1 .. n : f[i] \in Socket /\ IsFree(f[i])
       /\ \A i, j \in 1 .. n : i # j => f[i] # f[j]
       /\ \A u \in 1 .. m + n :
            \/ u \in 1 .. m /\ session'[u] = session[u] /\ client'[u] = client[u]
            \/ /\ u \notin 1 .. m /\ u - m \in 1 .. n
               /\ session'[u] = NewSession(f[u - m]) /\ client'[u] = NewClient
  BY Zenon, <1>5, <1>6, <1>10
<1>12. \E g :
         /\ \A i \in 1 .. n : g[i] \in Socket /\ IsFree(g[i])
         /\ \A i, j \in 1 .. n : i # j => g[i] # g[j]
         /\ \A u \in 1 .. m + n :
              \/ u \in 1 .. m /\ session'[u] = session[u] /\ client'[u] = client[u]
              \/ /\ u \notin 1 .. m /\ u - m \in 1 .. n
                 /\ session'[u] = NewSession(g[u - m]) /\ client'[u] = NewClient
  BY Zenon, <1>11
<1>13. /\ m + n <= MaxSession /\ session' \in Seq(SessionRecord) /\ client' \in Seq(ClientRecord)
       /\ Len(session') = m + n /\ Len(client') = m + n
  BY <1>1, <1>8
<1>14. QED
  BY Zenon, <1>2, <1>9, <1>12, <1>13 DEF m

(* Connections are accepted. *)
LEMMA AcceptKeeps ==
  ASSUME SInv, NEW n \in Socket, Accept(n) PROVE SInv'
<1> DEFINE m == Len(session)
<1>1. /\ batch = <<>> /\ ~crashed /\ UNCHANGED <<batch, destroyed, crashed>>
      /\ m + n <= MaxSession
  BY DEF Accept, Ready
<1>2. TypeOK
  BY DEF SInv
<1>3. /\ n \in Nat /\ m \in Nat
      /\ session' \in Seq(SessionRecord) /\ Len(session') = m + n
      /\ client' \in Seq(ClientRecord) /\ Len(client') = m + n
  BY <1>2, Accepted
<1>4. /\ DOMAIN session = 1 .. m /\ DOMAIN session' = 1 .. m + n /\ DOMAIN client' = 1 .. m + n
      /\ DOMAIN client = 1 .. m
  BY <1>2, Accepted
<1>5. PICK f : /\ \A i \in 1 .. n : f[i] \in Socket /\ IsFree(f[i])
               /\ \A i, j \in 1 .. n : i # j => f[i] # f[j]
               /\ \A u \in 1 .. m + n :
                    \/ u \in 1 .. m /\ session'[u] = session[u] /\ client'[u] = client[u]
                    \/ /\ u \notin 1 .. m /\ u - m \in 1 .. n
                       /\ session'[u] = NewSession(f[u - m]) /\ client'[u] = NewClient
  BY <1>2, Accepted
<1>6. /\ \A i \in 1 .. n : f[i] \in Socket /\ IsFree(f[i])
      /\ \A i, j \in 1 .. n : i # j => f[i] # f[j]
  BY <1>5
<1>7. ASSUME NEW u \in 1 .. m + n
      PROVE  \/ u \in 1 .. m /\ session'[u] = session[u] /\ client'[u] = client[u]
             \/ /\ u \notin 1 .. m /\ u - m \in 1 .. n
                /\ session'[u] = NewSession(f[u - m]) /\ client'[u] = NewClient
  BY <1>5
<1> HIDE DEF m
<1>8. TypeOK'
  BY <1>1, <1>2, <1>3 DEF TypeOK
<1>9. LineInv'
  BY <1>4, <1>7, NewClientType DEF SInv, LineInv
<1>10. /\ ToSet(batch) = {} /\ ToSet(batch') = {}
       /\ \A u \in DOMAIN session : Before(u) = session[u]
       /\ \A u \in DOMAIN session' : Before(u)' = session'[u]
  <2>1. ToSet(batch) = {} /\ ToSet(batch') = {}
    BY <1>1, <1>2, NothingTaken
  <2>2. ASSUME NEW u \in DOMAIN session' PROVE Before(u)' = session'[u]
    <3>1. session'[u] \in SessionRecord
      BY <1>3, <1>4
    <3>2. QED
      BY <2>1, <3>1 DEF Before, SessionRecord
  <2>3. QED
    BY <1>1, <1>2, <2>1, <2>2, NothingTaken
<1>11. GoodInv'
  <2>1. SUFFICES ASSUME NEW u \in 1 .. m + n, ~session'[u].freed
                 PROVE  Good(session'[u], client'[u].gone)
    BY <1>4, <1>10 DEF GoodInv, Live
  <2>2. CASE u \in 1 .. m /\ session'[u] = session[u] /\ client'[u] = client[u]
    BY <1>4, <1>10, <2>1, <2>2 DEF SInv, GoodInv, Live
  <2>3. CASE u - m \in 1 .. n /\ session'[u] = NewSession(f[u - m]) /\ client'[u] = NewClient
    <3>1. NewClient.gone = FALSE
      BY DEF NewClient
    <3>2. QED
      BY <1>6, <2>3, <3>1, NewSessionGood
  <2>4. QED
    BY <1>7, <2>2, <2>3
<1>12. FreedInv'
  <2>1. ASSUME NEW u \in 1 .. m + n, session'[u].freed
        PROVE  ~session'[u].idle /\ ~session'[u].disconnect
    <3>1. CASE u \in 1 .. m /\ session'[u] = session[u]
      BY <1>4, <2>1, <3>1 DEF SInv, FreedInv
    <3>2. CASE u - m \in 1 .. n /\ session'[u] = NewSession(f[u - m])
      BY <1>6, <2>1, <3>2, NewSessionGood
    <3>3. QED
      BY <1>7, <3>1, <3>2
  <2>2. QED
    BY <1>4, <1>10, <2>1 DEF FreedInv
<1>13. OneSession'
  <2>1. SUFFICES ASSUME NEW u \in 1 .. m + n, NEW v \in 1 .. m + n, u # v,
                        ~session'[u].freed, ~session'[v].freed
                 PROVE  session'[u].socket # session'[v].socket
    BY <1>4 DEF OneSession, Live
  <2>2. ASSUME NEW x \in 1 .. m, ~session[x].freed, NEW j \in 1 .. n
        PROVE  session[x].socket # NewSession(f[j]).socket
    BY <1>6, <1>4, <2>2, NewSessionGood DEF IsFree
  <2>3. CASE u \in 1 .. m /\ v \in 1 .. m
    BY <1>4, <1>7, <2>1, <2>3 DEF SInv, OneSession, Live
  <2>4. CASE u \in 1 .. m /\ v \notin 1 .. m
    BY <1>7, <2>1, <2>2, <2>4
  <2>5. CASE u \notin 1 .. m /\ v \in 1 .. m
    BY <1>7, <2>1, <2>2, <2>5
  <2>6. CASE u \notin 1 .. m /\ v \notin 1 .. m
    <3>1. /\ u - m \in 1 .. n /\ v - m \in 1 .. n /\ u - m # v - m
          /\ session'[u] = NewSession(f[u - m]) /\ session'[v] = NewSession(f[v - m])
      <4>1. \A x \in 1 .. m + n : x \notin 1 .. m =>
              x - m \in 1 .. n /\ session'[x] = NewSession(f[x - m])
        BY <1>7
      <4>2. u - m # v - m
        BY <1>3, <2>1
      <4>3. QED
        BY <2>6, <4>1, <4>2
    <3>2. QED
      BY <1>6, <3>1, NewSessionGood
  <2>7. QED
    BY <2>3, <2>4, <2>5, <2>6
<1>14. BatchInv' /\ NoFreedUse'
  BY <1>1, <1>10 DEF SInv, BatchInv, NoFreedUse
<1>15. QED
  BY <1>8, <1>9, <1>11, <1>12, <1>13, <1>14 DEF SInv

(* The chain is stopped. *)
LEMMA InterruptKeeps ==
  ASSUME SInv, Interrupt PROVE SInv'
<1> DEFINE left == [NewClient EXCEPT !.gone = TRUE]
<1>1. /\ batch = <<>> /\ ~crashed /\ UNCHANGED <<batch, crashed>> /\ destroyed' = TRUE
      /\ session' = [s \in DOMAIN session |-> Freed(session[s])]
      /\ client' = [s \in DOMAIN client |-> left]
  BY DEF Interrupt, Ready
<1>2. TypeOK /\ Len(session) \in Nat /\ DOMAIN session = 1 .. Len(session)
      /\ DOMAIN client = DOMAIN session
  BY Domains DEF SInv
<1>3. /\ session' \in [1 .. Len(session) -> SessionRecord]
      /\ \A s \in DOMAIN session : /\ session'[s].freed /\ ~session'[s].idle
                                   /\ ~session'[s].disconnect
  BY <1>1, <1>2, Domains, FreedType
<1>4. client' \in [1 .. Len(session) -> ClientRecord] /\ \A s \in DOMAIN client : client'[s] = left
  BY <1>1, <1>2, NewClientType
<1>5. /\ session' \in Seq(SessionRecord) /\ Len(session') = Len(session)
      /\ client' \in Seq(ClientRecord) /\ Len(client') = Len(session)
      /\ DOMAIN session' = DOMAIN session /\ DOMAIN client' = DOMAIN client
  BY <1>2, <1>3, <1>4, FunctionSeq
<1>6. TypeOK'
  BY <1>1, <1>2, <1>5 DEF TypeOK
<1>7. LineInv'
  BY <1>4, <1>5, NewClientType DEF LineInv
<1>8. ToSet(batch') = {}
  BY <1>1, <1>2, NothingTaken
<1>9. GoodInv' /\ FreedInv' /\ OneSession' /\ BatchInv' /\ NoFreedUse'
  BY ZenonT(40), <1>1, <1>3, <1>5, <1>8 DEF SInv, GoodInv, FreedInv, OneSession, BatchInv, NoFreedUse, Live
<1>10. QED
  BY <1>6, <1>7, <1>9 DEF SInv
-----------------------------------------------------------------------------
(* The base timer. *)

(* There are finitely many events, since they can be numbered.                *)
LEMMA EventsFinite == IsFiniteSet(Event)
<1> DEFINE h == [e \in Event |-> IF e.callback = "IdleSink" THEN e.data ELSE MaxSession + e.data]
           N == 1 .. MaxSession + MaxConnections
<1>1. MaxSession \in Nat /\ MaxConnections \in Nat
  BY ServerAssumption
<1>2. \A e \in Event : \/ e.callback = "IdleSink" /\ e.data \in 1 .. MaxSession
                       \/ e.callback = "Disconnect" /\ e.data \in 1 .. MaxConnections
  BY DEF Event, Session, Socket
<1>3. h \in [Event -> N]
  BY <1>1, <1>2
<1>4. ASSUME NEW d \in Event, NEW e \in Event, h[d] = h[e] PROVE d = e
  <2>1. d.callback = e.callback /\ d.data = e.data
    BY <1>1, <1>2, <1>4
  <2>2. QED
    BY <2>1 DEF Event
<1>5. h \in Injection(Event, N)
  BY <1>3, <1>4 DEF Injection, IsInjective
<1>6. IsFiniteSet(N)
  BY <1>1, FS_Interval
<1> HIDE DEF h, N
<1>7. QED
  BY <1>5, <1>6, FS_Injection

(* A sequence of all of a finite set, each once.                              *)
LEMMA SequencesOfSet ==
  ASSUME NEW D, IsFiniteSet(D), NEW q \in SetToSeqs(D)
  PROVE  q \in Seq(D) /\ ToSet(q) = D /\ \A i, j \in DOMAIN q : i # j => q[i] # q[j]
<1> DEFINE n == Cardinality(D)
<1>1. /\ q \in [1 .. n -> D] /\ n \in Nat
      /\ \A i, j \in 1 .. n : i # j => q[i] # q[j]
  BY FS_CardinalityType DEF SetToSeqs
<1>2. q \in Injection(1 .. n, D)
  BY <1>1 DEF Injection, IsInjective
<1>3. Cardinality(1 .. n) = n
  BY <1>1, FS_Interval
<1>4. q \in Surjection(1 .. n, D)
  BY <1>2, <1>3, FS_Injection
<1>5. ToSet(q) = D
  BY <1>1, <1>4 DEF Surjection, ToSet
<1>6. q \in Seq(D)
  <2> HIDE DEF n
  <2>1. QED
    BY <1>1, FunctionSeq
<1>7. QED
  BY <1>1, <1>5, <1>6

(* What is on the timer: of a socket with a session, only what that session   *)
(* has put there.                                                            *)
LEMMA TimersOf ==
  ASSUME SInv
  PROVE  /\ Timers \subseteq Event
         /\ \A s \in Session : IdleEvent(s) \in Timers => s \in DOMAIN session /\ session[s].idle
         /\ \A s \in DOMAIN session :
              Live(s) /\ DisconnectEvent(session[s].socket) \in Timers => session[s].disconnect
<1>1. Timers \subseteq Event
  <2>1. \A s \in DOMAIN session : s \in Session /\ session[s].socket \in Socket
    BY Domains DEF SInv, SessionRecord
  <2>2. QED
    BY <2>1 DEF Timers, IdleEvent, DisconnectEvent, Event
<1>2. ASSUME NEW s \in Session, IdleEvent(s) \in Timers
      PROVE  s \in DOMAIN session /\ session[s].idle
  <2>1. PICK u \in DOMAIN session : session[u].idle /\ IdleEvent(u) = IdleEvent(s)
    BY <1>2 DEF Timers, IdleEvent, DisconnectEvent
  <2>2. u = s
    BY <2>1 DEF IdleEvent
  <2>3. QED
    BY <2>1, <2>2
<1>3. ASSUME NEW s \in DOMAIN session, Live(s), DisconnectEvent(session[s].socket) \in Timers
      PROVE  session[s].disconnect
  <2>1. PICK u \in DOMAIN session :
          /\ session[u].disconnect
          /\ DisconnectEvent(session[u].socket) = DisconnectEvent(session[s].socket)
    BY <1>3 DEF Timers, IdleEvent, DisconnectEvent
  <2>2. session[u].socket = session[s].socket
    BY <2>1 DEF DisconnectEvent
  <2>3. Live(u)
    BY <2>1 DEF SInv, FreedInv, Live
  <2>4. QED
    BY <1>3, <2>1, <2>2, <2>3 DEF SInv, OneSession
<1>4. QED
  BY <1>1, <1>2, <1>3

(* The timer takes out what is due: a session was before as it is now.        *)
LEMMA Checked ==
  ASSUME SInv, NEW due \in SUBSET Timers, Check(due)
  PROVE  /\ batch' \in Seq(Event) /\ ToSet(batch') = due
         /\ \A i, j \in DOMAIN batch' : i # j => batch'[i] # batch'[j]
         /\ session' \in Seq(SessionRecord) /\ Len(session') = Len(session)
         /\ DOMAIN session' = DOMAIN session
         /\ \A s \in DOMAIN session :
              /\ session'[s].freed = session[s].freed /\ session'[s].hasty = session[s].hasty
              /\ session'[s].socket = session[s].socket /\ session'[s].wire = session[s].wire
              /\ session'[s].pending = session[s].pending
              /\ session'[s].idle => session[s].idle
              /\ session'[s].disconnect => session[s].disconnect
              /\ ~session[s].freed => Before(s)' = session[s]
<1> DEFINE after(s) ==
             [session[s] EXCEPT !.idle = @ /\ IdleEvent(s) \notin due,
                                !.disconnect = @ /\ DisconnectEvent(session[s].socket) \notin due]
<1>1. /\ batch' \in SetToSeqs(due) /\ UNCHANGED <<client, destroyed, crashed>> /\ ~crashed
      /\ session' = [s \in DOMAIN session |-> after(s)]
  BY DEF Check, Ready
<1>2. /\ TypeOK /\ Len(session) \in Nat /\ DOMAIN session = 1 .. Len(session)
      /\ DOMAIN session \subseteq Session
      /\ \A s \in DOMAIN session : session[s] \in SessionRecord
  BY Domains DEF SInv
<1>3. due \subseteq Event /\ IsFiniteSet(due)
  BY TimersOf, EventsFinite, FS_Subset
<1>4. batch' \in Seq(Event) /\ ToSet(batch') = due
      /\ \A i, j \in DOMAIN batch' : i # j => batch'[i] # batch'[j]
  BY <1>1, <1>3, SequencesOfSet, SeqMonotonic
<1>5. ASSUME NEW s \in DOMAIN session
      PROVE  /\ after(s) \in SessionRecord /\ after(s).freed = session[s].freed
             /\ after(s).socket = session[s].socket /\ after(s).hasty = session[s].hasty
             /\ after(s).wire = session[s].wire /\ after(s).pending = session[s].pending
             /\ after(s).idle => session[s].idle
             /\ after(s).disconnect => session[s].disconnect
  BY ZenonT(40), <1>2 DEF SessionRecord
<1>6. /\ session' \in Seq(SessionRecord) /\ Len(session') = Len(session)
      /\ DOMAIN session' = DOMAIN session /\ \A s \in DOMAIN session : session'[s] = after(s)
  <2>1. session' \in [1 .. Len(session) -> SessionRecord]
    BY <1>1, <1>2, <1>5
  <2>2. \A s \in DOMAIN session : session'[s] = after(s)
    BY <1>1
  <2> HIDE DEF after
  <2>3. QED
    BY <1>2, <2>1, <2>2, FunctionSeq
<1>7. ASSUME NEW s \in DOMAIN session, ~session[s].freed PROVE Before(s)' = session[s]
  <2>1. /\ IdleEvent(s) \in due => session[s].idle
        /\ DisconnectEvent(session[s].socket) \in due => session[s].disconnect
    BY <1>2, <1>7, TimersOf DEF Live
  <2>2. Before(s)' = [after(s) EXCEPT
          !.idle = @ \/ IdleEvent(s) \in due,
          !.disconnect = @ \/ DisconnectEvent(session[s].socket) \in due]
    <3>1. session'[s] = after(s) /\ session'[s].socket = session[s].socket
      BY <1>5, <1>6
    <3>2. Before(s)' = [session'[s] EXCEPT
            !.idle = @ \/ IdleEvent(s) \in ToSet(batch'),
            !.disconnect = @ \/ DisconnectEvent(session'[s].socket) \in ToSet(batch')]
      BY DEF Before, IdleEvent, DisconnectEvent
    <3> HIDE DEF after
    <3>3. QED
      BY <1>4, <3>1, <3>2
  <2>3. ASSUME NEW c \in SessionRecord, NEW p \in BOOLEAN, NEW q \in BOOLEAN,
               p => c.idle, q => c.disconnect
        PROVE  [[c EXCEPT !.idle = @ /\ ~p, !.disconnect = @ /\ ~q]
                  EXCEPT !.idle = @ \/ p, !.disconnect = @ \/ q] = c
    <3>1. /\ c.idle \in BOOLEAN /\ c.disconnect \in BOOLEAN
          /\ c = [c EXCEPT !.idle = c.idle, !.disconnect = c.disconnect]
      BY DEF SessionRecord
    <3>2. ((c.idle /\ ~p) \/ p) = c.idle /\ ((c.disconnect /\ ~q) \/ q) = c.disconnect
      BY <2>3, <3>1
    <3>3. QED
      BY <3>1, <3>2 DEF SessionRecord
  <2>4. QED
    BY <1>2, <2>1, <2>2, <2>3
<1> HIDE DEF after
<1>8. QED
  BY <1>4, <1>5, <1>6, <1>7

(* When the timer takes out what is due the invariant is kept.               *)
LEMMA CheckKeeps ==
  ASSUME SInv, NEW due \in SUBSET Timers, Check(due) PROVE SInv'
<1>1. UNCHANGED <<client, destroyed, crashed>> /\ ~crashed
  BY DEF Check, Ready
<1>2. /\ TypeOK /\ DOMAIN session \subseteq Session
      /\ \A s \in DOMAIN session : Before(s) = session[s]
  BY Domains, NothingTaken DEF SInv, Check, Ready
<1>3. /\ batch' \in Seq(Event) /\ ToSet(batch') = due
      /\ \A i, j \in DOMAIN batch' : i # j => batch'[i] # batch'[j]
      /\ session' \in Seq(SessionRecord) /\ Len(session') = Len(session)
      /\ DOMAIN session' = DOMAIN session
  BY Checked
<1>4. ASSUME NEW s \in DOMAIN session
      PROVE  /\ session'[s].freed = session[s].freed /\ session'[s].hasty = session[s].hasty
             /\ session'[s].socket = session[s].socket
             /\ session'[s].idle => session[s].idle
             /\ session'[s].disconnect => session[s].disconnect
             /\ ~session[s].freed => Before(s)' = session[s]
  BY Checked
<1>5. TypeOK' /\ LineInv'
  BY <1>1, <1>2, <1>3 DEF SInv, TypeOK, LineInv
<1>6. GoodInv'
  <2>1. SUFFICES ASSUME NEW s \in DOMAIN session, ~session[s].freed
                 PROVE  Good(Before(s)', client'[s].gone)
    BY <1>3, <1>4 DEF GoodInv, Live
  <2>2. QED
    BY <1>1, <1>2, <1>4, <2>1 DEF SInv, GoodInv, Live
<1>7. FreedInv'
  <2>1. ASSUME NEW s \in DOMAIN session, session[s].freed, IdleEvent(s) \in due PROVE FALSE
    BY <1>2, <2>1, TimersOf DEF SInv, FreedInv
  <2>2. \A s \in DOMAIN session : session'[s].freed => ~session'[s].idle /\ ~session'[s].disconnect
    BY <1>4 DEF SInv, FreedInv
  <2>3. QED
    BY <1>3, <1>4, <2>1, <2>2 DEF FreedInv, IdleEvent
<1>8. OneSession'
  BY <1>3, <1>4 DEF SInv, OneSession, Live
<1>9. BatchInv'
  <2>1. \A s \in Session : IdleEvent(s) \in due => s \in DOMAIN session
    BY TimersOf
  <2>2. QED
    BY <1>3, <2>1 DEF BatchInv, IdleEvent
<1>10. NoFreedUse'
  BY <1>1 DEF NoFreedUse
<1>11. QED
  BY <1>5, <1>6, <1>7, <1>8, <1>9, <1>10 DEF SInv

(* What is called is taken off the front of what is to be called.             *)
LEMMA Called ==
  ASSUME TypeOK, BatchInv, batch # <<>>, batch' = Tail(batch)
  PROVE  /\ Head(batch) \in Event /\ Head(batch) \in ToSet(batch)
         /\ batch' \in Seq(Event) /\ Head(batch) \notin ToSet(batch')
         /\ \A e : e \in ToSet(batch') <=> e \in ToSet(batch) /\ e # Head(batch)
         /\ \A i, j \in DOMAIN batch' : i # j => batch'[i] # batch'[j]
<1>1. batch \in Seq(Event) /\ \A i, j \in DOMAIN batch : i # j => batch[i] # batch[j]
  BY DEF TypeOK, BatchInv
<1>2. /\ Head(batch) \in Event /\ batch' \in Seq(Event) /\ Len(batch') = Len(batch) - 1
      /\ \A i \in 1 .. Len(batch') : batch'[i] = batch[i + 1]
  BY <1>1, HeadTailProperties
<1>3. Len(batch) \in Nat \ {0} /\ DOMAIN batch = 1 .. Len(batch) /\ DOMAIN batch' = 1 .. Len(batch')
  <2>1. Len(batch) # 0
    BY <1>1, EmptySeq
  <2>2. QED
    BY <1>1, <1>2, <2>1, LenProperties
<1>4. Head(batch) = batch[1] /\ 1 \in DOMAIN batch
  BY <1>1, <1>3
<1>5. ASSUME NEW i \in DOMAIN batch'
      PROVE  i + 1 \in DOMAIN batch /\ batch'[i] = batch[i + 1] /\ i + 1 # 1
  BY <1>2, <1>3
<1>6. ASSUME NEW j \in DOMAIN batch, j # 1 PROVE \E i \in DOMAIN batch' : batch[j] = batch'[i]
  <2>1. j - 1 \in DOMAIN batch' /\ (j - 1) + 1 = j
    BY <1>2, <1>3, <1>6
  <2>2. QED
    BY <1>5, <2>1
<1>7. \A i, j \in DOMAIN batch' : i # j => batch'[i] # batch'[j]
  <2>1. ASSUME NEW i \in DOMAIN batch', NEW j \in DOMAIN batch', i # j PROVE i + 1 # j + 1
    BY <1>3, <1>2, <2>1
  <2>2. QED
    BY <1>1, <1>5, <2>1
<1>8. \A e : e \in ToSet(batch') <=> e \in ToSet(batch) /\ e # Head(batch)
  <2>1. ASSUME NEW e, e \in ToSet(batch') PROVE e \in ToSet(batch) /\ e # Head(batch)
    BY <1>1, <1>4, <1>5, <2>1 DEF ToSet
  <2>2. ASSUME NEW e, e \in ToSet(batch), e # Head(batch) PROVE e \in ToSet(batch')
    BY <1>4, <1>6, <2>2 DEF ToSet
  <2>3. QED
    BY <2>1, <2>2
<1>9. QED
  BY <1>2, <1>4, <1>7, <1>8 DEF ToSet

(* A session that what is called is not about is before as it was.            *)
LEMMA BeforeStays ==
  ASSUME TypeOK, BatchInv, batch # <<>>, batch' = Tail(batch), NEW u, session'[u] = session[u],
         Head(batch) # IdleEvent(u), Head(batch) # DisconnectEvent(session[u].socket)
  PROVE  Before(u)' = Before(u)
<1>1. /\ IdleEvent(u) \in ToSet(batch') <=> IdleEvent(u) \in ToSet(batch)
      /\ DisconnectEvent(session[u].socket) \in ToSet(batch')
           <=> DisconnectEvent(session[u].socket) \in ToSet(batch)
  BY Called
<1>2. Before(u)' = [session'[u] EXCEPT
        !.idle = @ \/ IdleEvent(u) \in ToSet(batch'),
        !.disconnect = @ \/ DisconnectEvent(session'[u].socket) \in ToSet(batch')]
  BY DEF Before, IdleEvent, DisconnectEvent
<1>3. QED
  BY <1>1, <1>2 DEF Before

(* A timer disconnects a session.                                            *)
LEMMA TimerFrees ==
  ASSUME SInv, batch # <<>>, batch' = Tail(batch), UNCHANGED <<destroyed, crashed>>, ~crashed,
         NEW s \in DOMAIN session, Live(s), session' = Disconnected(s, session), Gone(s),
         Head(batch) = IdleEvent(s) \/ Head(batch) = DisconnectEvent(session[s].socket),
         IdleEvent(s) \in ToSet(batch') => session[s].hasty
  PROVE  SInv'
<1> DEFINE c == Freed(session[s])
           d == [NewClient EXCEPT !.gone = TRUE]
<1>1. TypeOK /\ BatchInv /\ \A u \in DOMAIN session : session[u] \in SessionRecord
  BY Domains DEF SInv
<1>2. c \in SessionRecord /\ c.freed /\ ~c.idle /\ ~c.disconnect /\ c.hasty = session[s].hasty
  BY <1>1, FreedType
<1>3. d \in ClientRecord /\ Line(d)
  BY NewClientType
<1>4. session' = [session EXCEPT ![s] = c]
  <2>1. session = [session EXCEPT ![s] = session[s]]
    <3>1. session \in [1 .. Len(session) -> SessionRecord]
      BY <1>1, LenProperties DEF TypeOK
    <3>2. QED
      BY <3>1
  <2>2. session' = Disconnected(s, [session EXCEPT ![s] = session[s]])
    BY <2>1
  <2>3. QED
    BY <1>1, <2>2, OnlyOne DEF SInv
<1>5. client' = [client EXCEPT ![s] = d]
  BY DEF Gone
<1>6. /\ batch' \in Seq(Event)
      /\ \A e : e \in ToSet(batch') => e \in ToSet(batch)
      /\ \A i, j \in DOMAIN batch' : i # j => batch'[i] # batch'[j]
  BY <1>1, Called
<1> HIDE DEF c, d
<1>7. TypeOK'
  <2>1. session' \in Seq(SessionRecord) /\ Len(session') = Len(session)
    BY <1>1, <1>2, <1>4, ExceptSeq, Domains DEF TypeOK
  <2>2. client' \in Seq(ClientRecord) /\ Len(client') = Len(client)
    BY <1>1, <1>3, <1>5, ExceptSeq, Domains DEF TypeOK
  <2>3. QED
    BY <1>1, <1>6, <2>1, <2>2 DEF TypeOK
<1>8. /\ DOMAIN session' = DOMAIN session /\ DOMAIN client' = DOMAIN client
      /\ DOMAIN client = DOMAIN session
      /\ session'[s] = c /\ client'[s] = d
      /\ \A u \in DOMAIN session : u # s => session'[u] = session[u] /\ client'[u] = client[u]
  BY <1>1, <1>4, <1>5, Domains
<1>9. LineInv'
  BY <1>3, <1>8 DEF SInv, LineInv
<1>10. GoodInv'
  <2>1. SUFFICES ASSUME NEW u \in DOMAIN session, u # s, Live(u)
                 PROVE  Good(Before(u)', client[u].gone)
    BY <1>2, <1>8 DEF GoodInv, Live
  <2>2. session[u].socket # session[s].socket
    BY <2>1 DEF SInv, OneSession
  <2>3. Head(batch) # IdleEvent(u) /\ Head(batch) # DisconnectEvent(session[u].socket)
    BY <2>1, <2>2 DEF IdleEvent, DisconnectEvent
  <2>4. Before(u)' = Before(u)
    BY <1>1, <1>8, <2>1, <2>3, BeforeStays
  <2>5. QED
    BY <2>1, <2>4 DEF SInv, GoodInv
<1>11. FreedInv'
  <2>1. ASSUME NEW u \in DOMAIN session, session'[u].freed
        PROVE  /\ ~session'[u].idle /\ ~session'[u].disconnect
               /\ IdleEvent(u) \in ToSet(batch') => session'[u].hasty
    BY <1>2, <1>6, <1>8, <2>1 DEF SInv, FreedInv
  <2>2. QED
    BY <1>8, <2>1 DEF FreedInv, IdleEvent
<1>12. OneSession'
  BY <1>2, <1>8 DEF SInv, OneSession, Live
<1>13. BatchInv'
  BY <1>6, <1>8 DEF SInv, BatchInv, IdleEvent
<1>14. NoFreedUse'
  BY DEF NoFreedUse
<1>15. QED
  BY <1>7, <1>9, <1>10, <1>11, <1>12, <1>13, <1>14 DEF SInv

(* What a timer calls while a session is not touched.                        *)
LEMMA TimerPasses ==
  ASSUME SInv, batch # <<>>, batch' = Tail(batch), UNCHANGED <<session, client, destroyed>>,
         \A u \in DOMAIN session : Live(u) =>
           Head(batch) # IdleEvent(u) /\ Head(batch) # DisconnectEvent(session[u].socket),
         NoFreedUse', crashed' \in BOOLEAN
  PROVE  SInv'
<1>1. /\ batch' \in Seq(Event) /\ TypeOK /\ BatchInv
      /\ \A e : e \in ToSet(batch') => e \in ToSet(batch)
      /\ \A i, j \in DOMAIN batch' : i # j => batch'[i] # batch'[j]
  BY Called DEF SInv
<1>2. TypeOK' /\ LineInv' /\ OneSession'
  BY <1>1 DEF SInv, TypeOK, LineInv, OneSession, Live
<1>3. GoodInv'
  <2>1. ASSUME NEW u \in DOMAIN session, Live(u) PROVE Good(Before(u)', client[u].gone)
    <3>1. Before(u)' = Before(u)
      BY <1>1, <2>1, BeforeStays
    <3>2. QED
      BY <2>1, <3>1 DEF SInv, GoodInv
  <2>2. QED
    BY <2>1 DEF GoodInv, Live
<1>4. FreedInv'
  BY <1>1 DEF SInv, FreedInv, IdleEvent
<1>5. BatchInv'
  BY <1>1 DEF SInv, BatchInv, IdleEvent
<1>6. QED
  BY <1>2, <1>3, <1>4, <1>5 DEF SInv

(* IdleSink finds a session, or one that is freed already.                    *)
LEMMA IdleSinkKeeps == ASSUME SInv, IdleSink PROVE SInv'
<1> DEFINE s == Head(batch).data
<1>1. /\ ~crashed /\ batch # <<>> /\ Head(batch).callback = "IdleSink" /\ batch' = Tail(batch)
      /\ UNCHANGED destroyed /\ crashed' = session[s].freed
      /\ IF session[s].freed THEN UNCHANGED <<session, client>>
         ELSE session' = Disconnected(s, session) /\ Gone(s)
  BY DEF IdleSink, Calls
<1>2. /\ Head(batch) \in Event /\ Head(batch) \in ToSet(batch) /\ Head(batch) \notin ToSet(batch')
  BY <1>1, Called DEF SInv
<1>3. Head(batch) = IdleEvent(s) /\ s \in Session
  BY <1>1, <1>2 DEF Event, IdleEvent
<1>4. s \in DOMAIN session /\ session[s] \in SessionRecord
  <2>1. s \in DOMAIN session
    BY <1>2, <1>3 DEF SInv, BatchInv
  <2>2. QED
    BY <2>1, Domains DEF SInv
<1> HIDE DEF s
<1>5. CASE session[s].freed
  <2>1. session[s].hasty
    BY <1>2, <1>3, <1>4, <1>5 DEF SInv, FreedInv
  <2>2. UNCHANGED <<session, client>>
    BY <1>1, <1>5
  <2>3. NoFreedUse'
    BY <1>4, <2>1, <2>2 DEF NoFreedUse
  <2>4. ASSUME NEW u \in DOMAIN session, Live(u)
        PROVE  Head(batch) # IdleEvent(u) /\ Head(batch) # DisconnectEvent(session[u].socket)
    BY <1>3, <1>5, <2>4 DEF IdleEvent, DisconnectEvent, Live
  <2>5. crashed' \in BOOLEAN
    BY <1>1, <1>4 DEF SessionRecord
  <2>6. QED
    BY <1>1, <2>2, <2>3, <2>4, <2>5, TimerPasses
<1>6. CASE ~session[s].freed
  <2>1. crashed' = crashed
    BY <1>1, <1>4, <1>6 DEF SessionRecord, SInv, TypeOK
  <2>2. Live(s) /\ session' = Disconnected(s, session) /\ Gone(s)
    BY <1>1, <1>4, <1>6 DEF Live
  <2>3. QED
    BY <1>1, <1>2, <1>3, <1>4, <2>1, <2>2, TimerFrees
<1>7. QED
  BY <1>5, <1>6

(* The session that the timer disconnects has its disconnect among what was   *)
(* taken out.                                                                *)
LEMMA OwnTimer ==
  ASSUME SInv, NEW s \in DOMAIN session, Live(s),
         DisconnectEvent(session[s].socket) \in ToSet(batch)
  PROVE  /\ client[s].gone \/ (session[s].Reserved8 /\ session[s].header # 0)
         /\ IdleEvent(s) \in ToSet(batch) => session[s].hasty
<1>1. Good(Before(s), client[s].gone) /\ session[s] \in SessionRecord
  BY Domains DEF SInv, GoodInv
<1>2. /\ Before(s).disconnect /\ (IdleEvent(s) \in ToSet(batch) => Before(s).idle)
      /\ Before(s).Reserved8 = session[s].Reserved8 /\ Before(s).header = session[s].header
      /\ Before(s).hasty = session[s].hasty
  BY <1>1 DEF Before, SessionRecord
<1>3. QED
  BY <1>1, <1>2 DEF Good

(* The timed disconnect finds a session on its socket, or none.               *)
LEMMA TimerDisconnectKeeps == ASSUME SInv, TimerDisconnect PROVE SInv'
<1> DEFINE k == Head(batch).data
<1>1. /\ ~crashed /\ batch # <<>> /\ Head(batch).callback = "Disconnect" /\ batch' = Tail(batch)
      /\ UNCHANGED <<destroyed, crashed>>
      /\ \/ IsFree(k) /\ UNCHANGED <<session, client>>
         \/ \E s \in DOMAIN session : /\ Live(s) /\ session[s].socket = k
                                      /\ session' = Disconnected(s, session) /\ Gone(s)
  BY DEF TimerDisconnect, Calls
<1>2. /\ Head(batch) \in Event /\ Head(batch) \in ToSet(batch)
      /\ \A e : e \in ToSet(batch') => e \in ToSet(batch)
  BY <1>1, Called DEF SInv
<1>3. Head(batch) = DisconnectEvent(k)
  BY <1>1, <1>2 DEF Event, DisconnectEvent
<1> HIDE DEF k
<1>4. CASE IsFree(k) /\ UNCHANGED <<session, client>>
  <2>1. ASSUME NEW u \in DOMAIN session, Live(u)
        PROVE  Head(batch) # IdleEvent(u) /\ Head(batch) # DisconnectEvent(session[u].socket)
    BY <1>3, <1>4, <2>1 DEF IdleEvent, DisconnectEvent, Live, IsFree
  <2>2. NoFreedUse' /\ crashed' \in BOOLEAN
    BY <1>1 DEF NoFreedUse, SInv, TypeOK
  <2>3. QED
    BY <1>1, <1>4, <2>1, <2>2, TimerPasses
<1>5. ASSUME NEW s \in DOMAIN session, Live(s), session[s].socket = k,
             session' = Disconnected(s, session), Gone(s)
      PROVE  SInv'
  <2>1. IdleEvent(s) \in ToSet(batch) => session[s].hasty
    BY <1>2, <1>3, <1>5, OwnTimer
  <2>2. QED
    BY <1>1, <1>2, <1>3, <1>5, <2>1, TimerFrees
<1>6. QED
  BY <1>1, <1>4, <1>5
-----------------------------------------------------------------------------
(* Nothing has happened yet. *)
LEMMA InitHolds == Init => SInv
<1> SUFFICES ASSUME Init PROVE SInv
  OBVIOUS
<1>1. /\ session = <<>> /\ client = <<>> /\ batch = <<>> /\ crashed = FALSE /\ destroyed = FALSE
      /\ DOMAIN session = {} /\ DOMAIN client = {} /\ DOMAIN batch = {}
      /\ Len(session) = 0 /\ Len(client) = 0
  BY DEF Init
<1>2. TypeOK
  <2>1. <<>> \in Seq(SessionRecord) /\ <<>> \in Seq(ClientRecord) /\ <<>> \in Seq(Event)
    BY EmptySeq
  <2>2. MaxSession >= 0
    BY ServerAssumption
  <2>3. crashed \in BOOLEAN /\ destroyed \in BOOLEAN
    BY <1>1
  <2>4. QED
    BY <1>1, <2>1, <2>2, <2>3 DEF TypeOK
<1>3. ToSet(batch) = {}
  BY <1>1, <1>2, NothingTaken
<1>4. LineInv /\ GoodInv /\ FreedInv /\ OneSession /\ BatchInv /\ NoFreedUse
  BY <1>1, <1>3 DEF LineInv, GoodInv, FreedInv, OneSession, BatchInv, NoFreedUse
<1>5. QED
  BY <1>2, <1>4 DEF SInv

(* Every step keeps the invariant. *)
LEMMA StepKeeps == SInv /\ [Next]_vars => SInv'
<1> SUFFICES ASSUME SInv, [Next]_vars PROVE SInv'
  OBVIOUS
<1>1. ASSUME NEW s \in DOMAIN session, NEW r \in Request, SendHeader(s, r) PROVE SInv'
  BY <1>1, ClientsKeep
<1>2. ASSUME NEW s \in DOMAIN session, SendBody(s) \/ Leave(s) PROVE SInv'
  BY <1>2, ClientsKeep
<1>3. ASSUME NEW s \in DOMAIN session, PeerCloses(s) PROVE SInv'
  BY <1>3, PeerClosesKeeps
<1>4. ASSUME NEW s \in DOMAIN session, NEW n \in 0 .. 3, NEW fails \in BOOLEAN,
             \/ OnWholeRequest(s, n, fails)
             \/ OnHeader(s, n, fails)
             \/ OnBody(s, n, fails)
             \/ OnMisread(s, n, fails)
      PROVE  SInv'
  BY <1>4, OnWholeRequestKeeps, OnHeaderKeeps, OnBodyKeeps, OnMisreadKeeps
<1>5. ASSUME NEW s \in DOMAIN session, Take(s) \/ TakeFails(s) PROVE SInv'
  BY <1>5, TakeKeeps
<1>6. ASSUME NEW n \in Socket, Accept(n) PROVE SInv'
  BY <1>6, AcceptKeeps
<1>7. ASSUME NEW due \in SUBSET Timers, Check(due) PROVE SInv'
  BY <1>7, CheckKeeps
<1>8. CASE IdleSink
  BY <1>8, IdleSinkKeeps
<1>9. CASE TimerDisconnect
  BY <1>9, TimerDisconnectKeeps
<1>10. CASE Interrupt
  BY <1>10, InterruptKeeps
<1>11. CASE UNCHANGED vars
  <2>1. UNCHANGED <<session, client, batch, destroyed, crashed>>
    BY <1>11 DEF vars
  <2>2. QED
    BY <2>1 DEF SInv, TypeOK, LineInv, GoodInv, FreedInv, OneSession, BatchInv, NoFreedUse, Live,
                Before, IdleEvent, DisconnectEvent
<1>12. QED
  BY <1>1, <1>2, <1>3, <1>4, <1>5, <1>6, <1>7, <1>8, <1>9, <1>10, <1>11 DEF Next

(* The invariant of the web server: what the flags, timers and pending bytes  *)
(* of its sessions have to do with each other holds in every state.          *)
THEOREM SInductive == Spec => []SInv
BY InitHolds, StepKeeps, PTL DEF Spec

(* The sessions, clients and events have their types.                        *)
THEOREM TypeCorrect == Spec => []TypeOK
<1>1. SInv => TypeOK
  BY DEF SInv
<1>2. QED
  BY <1>1, SInductive, PTL

(* A session is on the timer of the idle just when it waits for a request.    *)
THEOREM IdleTimed == Spec => []IdleWhenIdle
<1>1. SInv => IdleWhenIdle
  BY NothingTaken DEF SInv, GoodInv, IdleWhenIdle, Good
<1>2. QED
  BY <1>1, SInductive, PTL

(* The idle timer finds a freed session only where a request was done with    *)
(* before its answer was sent.                                               *)
THEOREM FreedUnused == Spec => []NoFreedUse
<1>1. SInv => NoFreedUse
  BY DEF SInv
<1>2. QED
  BY <1>1, SInductive, PTL

(* What the timer of the idle or of the disconnect frees was on that timer.   *)
LEMMA TimerEnds ==
  ASSUME SInv, IdleSink \/ TimerDisconnect, NEW s \in DOMAIN session, Live(s), session'[s].freed
  PROVE  \/ IdleSink /\ IdleEvent(s) \in ToSet(batch)
         \/ TimerDisconnect /\ DisconnectEvent(session[s].socket) \in ToSet(batch)
<1>1. session[s] \in SessionRecord /\ ~session[s].freed /\ session' # session
  BY Domains DEF SInv, Live
<1>2. ASSUME NEW u \in DOMAIN session, session' = Disconnected(u, session) PROVE u = s
  <2>1. u # s => session'[s].freed = session[s].freed
    BY <1>1, <1>2 DEF Disconnected, SessionRecord
  <2>2. QED
    BY <1>1, <2>1
<1>3. batch # <<>> /\ batch' = Tail(batch)
  BY DEF IdleSink, TimerDisconnect, Calls
<1>4. Head(batch) \in Event /\ Head(batch) \in ToSet(batch)
  BY <1>3, Called DEF SInv
<1>5. CASE IdleSink
  <2> DEFINE u == Head(batch).data
  <2>1. Head(batch).callback = "IdleSink" /\ session' = Disconnected(u, session)
    BY <1>1, <1>5 DEF IdleSink, Calls
  <2>2. Head(batch) = IdleEvent(u) /\ u \in Session
    BY <1>4, <2>1 DEF Event, IdleEvent
  <2>3. u \in DOMAIN session
    BY <1>4, <2>2 DEF SInv, BatchInv
  <2> HIDE DEF u
  <2>4. QED
    BY <1>2, <1>4, <1>5, <2>1, <2>2, <2>3
<1>6. CASE TimerDisconnect
  <2>1. PICK u \in DOMAIN session : /\ session[u].socket = Head(batch).data
                                    /\ session' = Disconnected(u, session)
    BY <1>1, <1>6 DEF TimerDisconnect
  <2>2. Head(batch).callback = "Disconnect"
    BY <1>6 DEF TimerDisconnect, Calls
  <2>3. Head(batch) = DisconnectEvent(session[u].socket)
    BY <1>4, <2>1, <2>2 DEF Event, DisconnectEvent
  <2>4. QED
    BY <1>2, <1>4, <1>6, <2>1, <2>3
<1>7. QED
  BY <1>5, <1>6

(* The timed disconnect of a connection ends no later one on its socket: what *)
(* it ends has been answered, or its client has gone.                        *)
THEOREM OwnOnly == Spec => OwnDisconnect
<1>1. ASSUME SInv, TimerDisconnect, NEW s \in DOMAIN session, Live(s), session'[s].freed
      PROVE  client[s].gone \/ session[s].Reserved8
  <2>1. ~IdleSink
    BY <1>1 DEF IdleSink, TimerDisconnect, Calls
  <2>2. DisconnectEvent(session[s].socket) \in ToSet(batch)
    BY <1>1, <2>1, TimerEnds
  <2>3. QED
    BY <1>1, <2>2, OwnTimer
<1>2. SInv => [TimerDisconnect => \A s \in DOMAIN session : Live(s) /\ session'[s].freed =>
                 client[s].gone \/ session[s].Reserved8]_vars
  BY <1>1
<1>3. QED
  BY <1>2, SInductive, PTL DEF OwnDisconnect

(* Neither timer cuts off an answer, as long as the client stays and the       *)
(* request was not done with before its answer was sent.                     *)
THEOREM NoneCutOff == Spec => NotCutOff
<1>1. ASSUME SInv, IdleSink \/ TimerDisconnect, NEW s \in DOMAIN session, Live(s),
             session'[s].freed
      PROVE  session[s].pending = <<>> \/ client[s].gone \/ session[s].hasty
  <2>1. Good(Before(s), client[s].gone) /\ session[s] \in SessionRecord
    BY <1>1, Domains DEF SInv, GoodInv
  <2>2. /\ Before(s).idle = (session[s].idle \/ IdleEvent(s) \in ToSet(batch))
        /\ Before(s).disconnect =
             (session[s].disconnect \/ DisconnectEvent(session[s].socket) \in ToSet(batch))
        /\ Before(s).pending = session[s].pending /\ Before(s).hasty = session[s].hasty
    BY <2>1 DEF Before, SessionRecord
  <2>3. Before(s).idle \/ Before(s).disconnect
    BY <1>1, <2>2, TimerEnds
  <2>4. QED
    BY <2>1, <2>2, <2>3 DEF Good
<1>2. SInv => [IdleSink \/ TimerDisconnect => \A s \in DOMAIN session :
                 Live(s) /\ session'[s].freed =>
                   session[s].pending = <<>> \/ client[s].gone \/ session[s].hasty]_vars
  BY <1>1
<1>3. QED
  BY <1>2, SInductive, PTL DEF NotCutOff
-----------------------------------------------------------------------------
(* The answers a client gets.                                                *)

(* What the client sends next, and all that is to be read.                    *)
NextSent(d) == IF d.body THEN [of |-> Len(d.requests), is |-> "body"]
               ELSE [of |-> Len(d.requests) + 1, is |-> "header"]

Coming(d) == Append(d.line, NextSent(d))

(* The part that comes after part p.                                         *)
After(requests, p) == IF p.is = "header" /\ requests[p.of].body
                      THEN [of |-> p.of, is |-> "body"]
                      ELSE [of |-> p.of + 1, is |-> "header"]

(* The parts come in the order of the requests.                              *)
PartsInOrder(d) == \A j \in 1 .. Len(d.line) : Coming(d)[j + 1] = After(d.requests, Coming(d)[j])

(* All that is sent and to be sent; it ends with the answer to request i.     *)
Sending(c) == c.wire \o c.pending

EndsWith(requests, w, i) == IF i = 0 THEN w = <<>>
                            ELSE w # <<>> /\ Last(w) = Last(AnswerTo(requests, i))

(* What is read next goes with what was sent last: a session waits for the    *)
(* request after the one it has answered, or for the body of a request, with *)
(* or without a 100 Continue, or for its answer to be taken.                 *)
Placed(c, d) ==
  LET p == Coming(d)[1]  w == Sending(c) IN
  \/ /\ c.header = 0
     /\ p.is = "header" /\ EndsWith(d.requests, w, p.of - 1)
  \/ /\ c.header # 0 /\ ~c.PAUSE /\ ~c.Reserved4
     /\ p = [of |-> c.header, is |-> "body"]
     /\ \/ EndsWith(d.requests, w, c.header - 1)
        \/ w # <<>> /\ Last(w) = [of |-> c.header, is |-> "100"]
  \/ /\ c.header # 0 /\ c.PAUSE
     /\ p = [of |-> c.header + 1, is |-> "header"]
     /\ EndsWith(d.requests, w, c.header)

(* A session that is not to be disconnected is at its place, unless it was     *)
(* hasty.                                                                    *)
Whole(c, d) == c.hasty \/ /\ InOrder(d.requests, Sending(c))
                          /\ c.disconnect \/ Placed(c, d)

WInv == /\ \A s \in DOMAIN client : PartsInOrder(client[s])
        /\ \A s \in DOMAIN session :
             IF session[s].freed THEN session[s].wire = <<>> /\ session[s].pending = <<>>
             ELSE Whole(Before(s), client[s])

(* The pieces of an answer: at least one, and all of that answer.              *)
LEMMA PiecesOf ==
  ASSUME NEW i \in 1 .. MaxRequest, NEW r \in Request
  PROVE  /\ Pieces(i, r) \in Seq(Piece) /\ Len(Pieces(i, r)) \in 1 .. 3 /\ Pieces(i, r) # <<>>
         /\ \A k \in 1 .. Len(Pieces(i, r)) : Pieces(i, r)[k].of = i
<1>2. Pieces(i, r) \in Seq(Piece)
  BY PiecesType
<1> DEFINE P(is) == [of |-> i, is |-> is]
<1>3. \/ \E is : Pieces(i, r) = <<P(is)>>
      \/ \E is, js : Pieces(i, r) = <<P(is), P(js)>>
      \/ \E is, js, ks : Pieces(i, r) = <<P(is), P(js), P(ks)>>
  <2>1. PICK is, js, ks \in {"400", "packet", "fault head", "fault body", "header", "chunk", "end"} :
          Pieces(i, r) \in {<<P(is)>>, <<P(is), P(js)>>, <<P(is), P(js), P(ks)>>}
    BY PiecesCases
  <2> HIDE DEF P
  <2> QED
    BY <2>1
<1>4. \A is : P(is).of = i
  OBVIOUS
<1> HIDE DEF P
<1>5. CASE \E is : Pieces(i, r) = <<P(is)>>
  BY <1>2, <1>4, <1>5
<1>6. CASE \E is, js : Pieces(i, r) = <<P(is), P(js)>>
  BY <1>2, <1>4, <1>6
<1>7. CASE \E is, js, ks : Pieces(i, r) = <<P(is), P(js), P(ks)>>
  BY <1>2, <1>4, <1>7
<1>8. QED
  BY <1>3, <1>5, <1>6, <1>7

(* The elements of a concatenation, from both ends.                           *)
LEMMA Concatenated ==
  ASSUME NEW S, NEW p \in Seq(S), NEW q \in Seq(S)
  PROVE  /\ p \o q \in Seq(S) /\ Len(p \o q) = Len(p) + Len(q)
         /\ Len(p) \in Nat /\ Len(q) \in Nat
         /\ \A k \in 1 .. Len(p) : (p \o q)[k] = p[k]
         /\ \A k \in 1 .. Len(q) : (p \o q)[Len(p) + k] = q[k]
<1>1. /\ p \o q \in Seq(S) /\ Len(p \o q) = Len(p) + Len(q)
      /\ \A k \in 1 .. Len(p) + Len(q) :
           (p \o q)[k] = IF k <= Len(p) THEN p[k] ELSE q[k - Len(p)]
  BY ConcatProperties
<1>2. Len(p) \in Nat /\ Len(q) \in Nat
  OBVIOUS
<1> DEFINE pq == p \o q
           m == Len(p)
           n == Len(q)
<1> HIDE DEF pq, m, n
<1>3. \A k \in 1 .. m + n : pq[k] = IF k <= m THEN p[k] ELSE q[k - m]
  BY <1>1 DEF pq, m, n
<1>4. m \in Nat /\ n \in Nat
  BY <1>2 DEF m, n
<1>5. ASSUME NEW k \in 1 .. m PROVE pq[k] = p[k]
  BY <1>3, <1>4
<1>6. ASSUME NEW k \in 1 .. n PROVE pq[m + k] = q[k]
  <2>1. m + k \in 1 .. m + n /\ ~(m + k <= m) /\ (m + k) - m = k
    BY <1>4
  <2>2. QED
    BY <1>3, <2>1
<1>7. QED
  BY <1>1, <1>2, <1>5, <1>6 DEF pq, m, n

(* What follows in order may be put behind what is in order.                  *)
LEMMA InOrderJoined ==
  ASSUME NEW requests, NEW w \in Seq(Piece), NEW u \in Seq(Piece), InOrder(requests, w),
         \A k \in 1 .. Len(u) : u[k].of \in 1 .. Len(requests),
         \A k \in 2 .. Len(u) : Follows(requests, u[k - 1], u[k]),
         u # <<>> => IF w = <<>> THEN Opens(requests, 1, u[1])
                     ELSE Follows(requests, Last(w), u[1])
  PROVE  InOrder(requests, w \o u)
<1> DEFINE x == w \o u
           m == Len(w)
           n == Len(u)
<1>1. /\ x \in Seq(Piece) /\ Len(x) = m + n /\ m \in Nat /\ n \in Nat
      /\ \A k \in 1 .. m : x[k] = w[k]
      /\ \A k \in 1 .. n : x[m + k] = u[k]
  BY Concatenated
<1>2. /\ \A k \in 1 .. m : w[k].of \in 1 .. Len(requests)
      /\ w # <<>> => Opens(requests, 1, w[1])
      /\ \A k \in 2 .. m : Follows(requests, w[k - 1], w[k])
  BY DEF InOrder
<1>3. (w = <<>> <=> m = 0) /\ (u = <<>> <=> n = 0) /\ (x = <<>> <=> m + n = 0)
  BY <1>1, EmptySeq
<1>4. /\ Last(w) = w[m]
      /\ \A k \in 1 .. n : u[k].of \in 1 .. Len(requests)
      /\ \A k \in 2 .. n : Follows(requests, u[k - 1], u[k])
  BY DEF Last
<1> HIDE DEF x, m, n
<1>5. ASSUME NEW k \in 1 .. m + n
      PROVE  \/ k \in 1 .. m /\ x[k] = w[k]
             \/ \E j \in 1 .. n : k = m + j /\ x[k] = u[j]
  <2>1. CASE k <= m
    BY <1>1, <2>1
  <2>2. CASE k > m
    <3>1. k - m \in 1 .. n /\ k = m + (k - m)
      BY <1>1, <2>2
    <3>2. QED
      BY <1>1, <3>1
  <2>3. QED
    BY <1>1, <2>1, <2>2
<1>6. ASSUME NEW k \in 1 .. m + n PROVE x[k].of \in 1 .. Len(requests)
  BY <1>2, <1>4, <1>5
<1>7. x # <<>> => Opens(requests, 1, x[1])
  <2>1. CASE m = 0 /\ n # 0
    <3>1. 1 \in 1 .. n /\ m + 1 = 1
      BY <1>1, <2>1
    <3>2. x[1] = u[1]
      BY <1>1, <3>1
    <3>3. QED
      BY <1>3, <2>1, <3>2
  <2>2. CASE m # 0
    <3>1. x[1] = w[1]
      BY <1>1, <2>2
    <3>2. QED
      BY <1>2, <1>3, <2>2, <3>1
  <2>3. QED
    BY <1>1, <1>3, <2>1, <2>2
<1>8. ASSUME NEW k \in 2 .. m + n PROVE Follows(requests, x[k - 1], x[k])
  <2>1. CASE k <= m
    <3>1. k \in 1 .. m /\ k - 1 \in 1 .. m /\ k \in 2 .. m
      BY <1>1, <1>8, <2>1
    <3>2. x[k] = w[k] /\ x[k - 1] = w[k - 1]
      BY <1>1, <3>1
    <3>3. QED
      BY <1>2, <3>1, <3>2
  <2>2. CASE k = m + 1
    <3>1. 1 \in 1 .. n /\ m \in 1 .. m /\ k - 1 = m /\ m # 0 /\ n # 0
      BY <1>1, <1>8, <2>2
    <3>2. x[k] = u[1] /\ x[k - 1] = w[m]
      BY <1>1, <2>2, <3>1
    <3>3. QED
      BY <1>3, <1>4, <3>1, <3>2
  <2>3. CASE k > m + 1
    <3>1. /\ k - m \in 1 .. n /\ (k - m) - 1 \in 1 .. n /\ k - m \in 2 .. n
          /\ m + (k - m) = k /\ m + ((k - m) - 1) = k - 1
      BY <1>1, <1>8, <2>3
    <3>2. x[k] = u[k - m] /\ x[k - 1] = u[(k - m) - 1]
      BY <1>1, <3>1
    <3>3. QED
      BY <1>4, <3>1, <3>2
  <2>4. QED
    BY <1>1, <2>1, <2>2, <2>3
<1>9. Len(x) = m + n
  BY <1>1
<1>10. QED
  BY <1>6, <1>7, <1>8, <1>9 DEF InOrder, x

(* What comes after the last answer, or after the 100 Continue.                *)
LEMMA MayFollow ==
  ASSUME NEW requests \in Seq(Request), Len(requests) <= MaxRequest,
         NEW i \in 1 .. Len(requests), NEW w \in Seq(Piece), NEW q \in Piece
  PROVE  /\ EndsWith(requests, w, i - 1) /\ q.of = i /\ Opens(requests, i, q) =>
              IF w = <<>> THEN Opens(requests, 1, q) ELSE Follows(requests, Last(w), q)
         /\ w # <<>> /\ Last(w) = [of |-> i, is |-> "100"]
            /\ q.of = i /\ q = AnswerTo(requests, i)[1] =>
              Follows(requests, Last(w), q)
<1>1. Len(requests) \in Nat /\ MaxRequest \in Nat
  BY ServerAssumption
<1>2. ASSUME EndsWith(requests, w, i - 1), q.of = i, Opens(requests, i, q)
      PROVE  IF w = <<>> THEN Opens(requests, 1, q) ELSE Follows(requests, Last(w), q)
  <2>1. CASE i = 1
    BY <1>2, <2>1 DEF EndsWith
  <2>2. CASE i # 1
    <3>1. i - 1 \in 1 .. Len(requests) /\ i - 1 \in 1 .. MaxRequest /\ i - 1 # 0
      BY <1>1, <2>2
    <3>2. w # <<>> /\ Last(w) = Last(AnswerTo(requests, i - 1))
      BY <1>2, <3>1 DEF EndsWith
    <3>3. requests[i - 1] \in Request
      BY <3>1, ElementOfSeq
    <3>4. LET a == AnswerTo(requests, i - 1) IN
          Len(a) \in 1 .. 3 /\ \A k \in 1 .. Len(a) : a[k].of = i - 1
      BY <3>1, <3>3, PiecesOf DEF AnswerTo
    <3>5. Last(w).of = i - 1
      <4> DEFINE a == AnswerTo(requests, i - 1)
      <4> HIDE DEF a
      <4>1. Len(a) \in 1 .. 3 /\ \A k \in 1 .. Len(a) : a[k].of = i - 1
        BY <3>4 DEF a
      <4>2. \A m \in 1 .. 3 : m \in 1 .. m
        OBVIOUS
      <4>3. Last(a).of = i - 1
        BY <4>1, <4>2 DEF Last
      <4>4. QED
        BY <3>2, <4>3 DEF a
    <3>6. q.of = Last(w).of + 1
      BY <1>2, <3>5
    <3>7. Follows(requests, Last(w), q)
      BY <1>2, <3>2, <3>5, <3>6 DEF Follows
    <3>8. QED
      BY <3>2, <3>7
  <2>3. QED
    BY <2>1, <2>2
<1>3. w # <<>> /\ Last(w) = [of |-> i, is |-> "100"] /\ q.of = i /\ q = AnswerTo(requests, i)[1] =>
        Follows(requests, Last(w), q)
  BY DEF Follows
<1>4. QED
  BY <1>2, <1>3

(* What is sent of an answer, all or some of it, keeps the order, and all of it *)
(* ends with that answer.                                                    *)
LEMMA AnswerSent ==
  ASSUME NEW requests \in Seq(Request), Len(requests) <= MaxRequest,
         NEW i \in 1 .. Len(requests), NEW w \in Seq(Piece), InOrder(requests, w),
         \/ EndsWith(requests, w, i - 1)
         \/ w # <<>> /\ Last(w) = [of |-> i, is |-> "100"]
  PROVE  LET a == AnswerTo(requests, i) IN
         /\ InOrder(requests, w \o a) /\ EndsWith(requests, w \o a, i)
         /\ \A n \in 0 .. Len(a) : InOrder(requests, w \o SubSeq(a, 1, n))
<1> DEFINE a == AnswerTo(requests, i)
<1>1. i \in 1 .. MaxRequest /\ Len(requests) \in Nat /\ requests[i] \in Request
  BY ServerAssumption, ElementOfSeq
<1>2. /\ a \in Seq(Piece) /\ Len(a) \in 1 .. 3 /\ a # <<>>
      /\ \A k \in 1 .. Len(a) : a[k].of = i /\ a[k] \in Piece
  <2>1. /\ a \in Seq(Piece) /\ Len(a) \in 1 .. 3 /\ a # <<>>
        /\ \A k \in 1 .. Len(a) : a[k].of = i
    BY <1>1, PiecesOf DEF AnswerTo
  <2> HIDE DEF a
  <2>2. QED
    BY <2>1, ElementOfSeq
<1>3. \A k \in 2 .. Len(a) : Follows(requests, a[k - 1], a[k])
  <2>1. ASSUME NEW k \in 2 .. Len(a) PROVE Follows(requests, a[k - 1], a[k])
    <3>1. k - 1 \in 1 .. Len(a)
      <4> HIDE DEF a
      <4>1. QED
        BY <1>2, <2>1
    <3>2. a[k - 1].of = i
      BY <1>2, <3>1
    <3>3. \E j \in 2 .. Len(AnswerTo(requests, i)) :
            /\ a[k - 1] = AnswerTo(requests, i)[j - 1]
            /\ a[k] = AnswerTo(requests, i)[j]
      BY <2>1
    <3> HIDE DEF a
    <3>4. QED
      BY <3>2, <3>3 DEF Follows
  <2>2. QED
    BY <2>1
<1>4. IF w = <<>> THEN Opens(requests, 1, a[1]) ELSE Follows(requests, Last(w), a[1])
  <2>1. a[1] = AnswerTo(requests, i)[1] /\ Opens(requests, i, a[1])
    BY DEF Opens
  <2>2. 1 \in 1 .. Len(a)
    <3> HIDE DEF a
    <3>1. QED
      BY <1>2
  <2> HIDE DEF a
  <2>3. a[1] \in Piece /\ a[1].of = i
    BY <1>2, <2>2
  <2>4. QED
    BY <2>1, <2>3, MayFollow
<1>5. ASSUME NEW u \in Seq(Piece), Len(u) \in 0 .. Len(a), \A k \in 1 .. Len(u) : u[k] = a[k]
      PROVE  InOrder(requests, w \o u)
  <2> DEFINE m == Len(u)
             n == Len(a)
  <2>1. m \in 0 .. n /\ n \in 1 .. 3 /\ (u # <<>> => m # 0)
    BY <1>2, <1>5, EmptySeq
  <2> HIDE DEF m, n, a
  <2>2. \A k \in 1 .. m : u[k] = a[k] /\ a[k].of = i
    BY <1>2, <1>5, <2>1 DEF m, n
  <2>3. \A k \in 1 .. m : u[k].of \in 1 .. Len(requests)
    BY <2>2
  <2>4. ASSUME NEW k \in 2 .. m PROVE Follows(requests, u[k - 1], u[k])
    <3>1. k \in 2 .. n /\ k \in 1 .. m /\ k - 1 \in 1 .. m
      BY <2>1, <2>4
    <3>2. u[k - 1] = a[k - 1] /\ u[k] = a[k]
      BY <2>2, <3>1
    <3>3. QED
      BY <1>3, <3>1, <3>2 DEF n
  <2>5. u # <<>> => u[1] = a[1]
    BY <2>1, <2>2
  <2>6. QED
    BY <1>4, <2>3, <2>4, <2>5, InOrderJoined DEF m
<1>6. InOrder(requests, w \o a)
  <2> HIDE DEF a
  <2>1. Len(a) \in 0 .. Len(a)
    BY <1>2
  <2>2. QED
    BY <1>2, <1>5, <2>1
<1>7. ASSUME NEW n \in 0 .. Len(a) PROVE InOrder(requests, w \o SubSeq(a, 1, n))
  <2> HIDE DEF a
  <2>1. n \in Int /\ 1 \in Int /\ \A k \in 1 .. n : k \in 1 .. Len(a)
    BY <1>2, <1>7
  <2>2. /\ SubSeq(a, 1, n) \in Seq(Piece)
        /\ Len(SubSeq(a, 1, n)) = IF 1 <= n THEN n - 1 + 1 ELSE 0
        /\ \A k \in 1 .. n - 1 + 1 : SubSeq(a, 1, n)[k] = a[1 + k - 1]
    BY <1>2, <2>1, SubSeqProperties
  <2>3. Len(SubSeq(a, 1, n)) = n
    BY <1>2, <1>7, <2>2
  <2>4. \A k \in 1 .. n : 1 + k - 1 = k /\ k \in 1 .. n - 1 + 1
    BY <2>1
  <2>5. \A k \in 1 .. n : SubSeq(a, 1, n)[k] = a[k]
    BY <2>2, <2>4
  <2>6. QED
    BY <1>5, <1>7, <2>2, <2>3, <2>5
<1>8. EndsWith(requests, w \o a, i)
  <2> DEFINE x == w \o a
  <2>1. /\ x \in Seq(Piece) /\ Len(x) = Len(w) + Len(a) /\ Len(w) \in Nat
        /\ \A k \in 1 .. Len(a) : x[Len(w) + k] = a[k]
    <3> HIDE DEF a
    <3>1. QED
      BY <1>2, Concatenated
  <2> HIDE DEF x
  <2>2. Len(a) \in 1 .. Len(a) /\ Len(x) # 0
    <3> HIDE DEF a
    <3>1. \A m \in 1 .. 3, n \in Nat : m \in 1 .. m /\ n + m # 0
      OBVIOUS
    <3>2. QED
      BY <1>2, <2>1, <3>1
  <2>3. Last(x) = Last(a)
    <3> HIDE DEF a
    <3>1. QED
      BY <2>1, <2>2 DEF Last
  <2>4. x # <<>>
    BY <2>2
  <2>5. i # 0
    BY <1>1
  <2>6. QED
    BY <2>3, <2>4, <2>5 DEF EndsWith, x
<1>9. QED
  BY <1>6, <1>7, <1>8

(* A 100 Continue may come where the answer may.                              *)
LEMMA ContinueSent ==
  ASSUME NEW requests \in Seq(Request), Len(requests) <= MaxRequest,
         NEW i \in 1 .. Len(requests), NEW w \in Seq(Piece), InOrder(requests, w),
         EndsWith(requests, w, i - 1)
  PROVE  LET p == [of |-> i, is |-> "100"]  x == w \o <<p>> IN
         InOrder(requests, x) /\ x # <<>> /\ Last(x) = p
<1> DEFINE p == [of |-> i, is |-> "100"]
           u == <<p>>
           x == w \o u
<1>1. i \in 1 .. MaxRequest
  BY ServerAssumption
<1>2. p \in Piece /\ p.of = i /\ Opens(requests, i, p)
  BY <1>1 DEF Piece, Opens
<1> HIDE DEF p
<1>3. u \in Seq(Piece) /\ Len(u) = 1 /\ u[1] = p
  BY <1>2
<1>4. IF w = <<>> THEN Opens(requests, 1, p) ELSE Follows(requests, Last(w), p)
  BY <1>2, MayFollow
<1>5. InOrder(requests, x)
  <2>1. \A k \in 1 .. Len(u) : u[k].of \in 1 .. Len(requests)
    BY <1>2, <1>3
  <2>2. \A k \in 2 .. Len(u) : Follows(requests, u[k - 1], u[k])
    BY <1>3
  <2>3. QED
    BY <1>3, <1>4, <2>1, <2>2, InOrderJoined
<1>6. /\ x \in Seq(Piece) /\ Len(x) = Len(w) + Len(u) /\ Len(w) \in Nat
      /\ \A k \in 1 .. Len(u) : x[Len(w) + k] = u[k]
  BY <1>3, Concatenated
<1> HIDE DEF x, u
<1>7. Len(x) # 0 /\ x[Len(x)] = p
  BY <1>3, <1>6
<1>8. x # <<>> /\ Last(x) = p
  BY <1>7 DEF Last
<1>9. QED
  BY <1>5, <1>8 DEF x, u, p

(* What is in order stays so when the client sends another request.           *)
LEMMA MoreRequests ==
  ASSUME NEW requests \in Seq(Request), NEW r \in Request, NEW w \in Seq(Piece)
  PROVE  LET more == Append(requests, r) IN
         /\ InOrder(requests, w) => InOrder(more, w)
         /\ \A i \in 0 .. Len(requests) : EndsWith(requests, w, i) => EndsWith(more, w, i)
<1> DEFINE more == Append(requests, r)
           m == Len(requests)
<1>1. m \in Nat /\ Len(more) = m + 1 /\ \A i \in 1 .. m : more[i] = requests[i]
  BY AppendProperties
<1> HIDE DEF more, m
<1>2. \A i \in 1 .. m : AnswerTo(more, i) = AnswerTo(requests, i)
  BY <1>1 DEF AnswerTo
<1>3. ASSUME InOrder(requests, w) PROVE InOrder(more, w)
  <2>1. \A k \in 1 .. Len(w) : w[k].of \in 1 .. m /\ w[k].of \in 1 .. Len(more)
    BY <1>1, <1>3 DEF InOrder, m
  <2>2. w # <<>> => Opens(more, 1, w[1])
    <3>1. ASSUME w # <<>> PROVE Opens(more, 1, w[1])
      <4>1. Len(w) \in Nat \ {0}
        BY <3>1, EmptySeq
      <4>2. 1 \in 1 .. Len(w)
        BY <4>1
      <4>3. 1 \in 1 .. m
        BY <1>1, <2>1, <4>2
      <4>4. QED
        BY <1>2, <1>3, <3>1, <4>3 DEF InOrder, Opens
    <3>2. QED
      BY <3>1
  <2>3. ASSUME NEW k \in 2 .. Len(w) PROVE Follows(more, w[k - 1], w[k])
    <3>1. k \in 1 .. Len(w) /\ k - 1 \in 1 .. Len(w)
      <4>1. Len(w) \in Nat
        OBVIOUS
      <4>2. QED
        BY <2>3, <4>1
    <3>2. w[k].of \in 1 .. m /\ w[k - 1].of \in 1 .. m
      BY <2>1, <3>1
    <3>3. Follows(requests, w[k - 1], w[k])
      BY <1>3, <2>3 DEF InOrder
    <3>4. QED
      BY <1>2, <3>2, <3>3 DEF Follows, Opens
  <2>4. QED
    BY <2>1, <2>2, <2>3 DEF InOrder
<1>4. ASSUME NEW i \in 0 .. m, EndsWith(requests, w, i) PROVE EndsWith(more, w, i)
  <2>1. i # 0 => i \in 1 .. m
    BY <1>1, <1>4
  <2>2. QED
    BY <1>2, <1>4, <2>1 DEF EndsWith
<1>5. QED
  BY <1>3, <1>4 DEF more, m

(* The parts of any requests, also of the one the client sends next.           *)
AnyPart == [of : Nat, is : {"header", "body"}]

(* What is to be read: what is on the line, and what the client sends next.    *)
LEMMA ComingType ==
  ASSUME NEW d \in ClientRecord, Line(d)
  PROVE  /\ d.line \in Seq(AnyPart) /\ NextSent(d) \in AnyPart /\ Coming(d) \in Seq(AnyPart)
         /\ Len(d.line) \in Nat /\ Len(Coming(d)) = Len(d.line) + 1
         /\ \A j \in 1 .. Len(d.line) : Coming(d)[j] = d.line[j]
         /\ Coming(d)[Len(d.line) + 1] = NextSent(d)
         /\ NextSent(d).of \in 1 .. Len(d.requests) + 1
         /\ \A j \in 1 .. Len(d.line) + 1 : Coming(d)[j].of \in 1 .. Len(d.requests) + 1
         /\ d.requests \in Seq(Request) /\ Len(d.requests) \in Nat
<1>1. /\ d.line \in Seq(Part) /\ d.requests \in Seq(Request) /\ Len(d.requests) \in Nat
      /\ d.body \in BOOLEAN
  BY DEF ClientRecord
<1>2. Part \subseteq AnyPart
  BY DEF Part, AnyPart
<1>3. d.line \in Seq(AnyPart) /\ Len(d.line) \in Nat /\ DOMAIN d.line = 1 .. Len(d.line)
  BY <1>1, <1>2, SeqMonotonic, LenProperties
<1>4. d.body => Len(d.requests) # 0
  BY <1>1, EmptySeq DEF Line
<1>5. NextSent(d) \in AnyPart /\ NextSent(d).of \in 1 .. Len(d.requests) + 1
  BY <1>1, <1>4 DEF NextSent, AnyPart
<1>6. /\ Coming(d) \in Seq(AnyPart) /\ Len(Coming(d)) = Len(d.line) + 1
      /\ \A j \in 1 .. Len(d.line) : Coming(d)[j] = d.line[j]
      /\ Coming(d)[Len(d.line) + 1] = NextSent(d)
  BY <1>3, <1>5, AppendProperties DEF Coming
<1>7. ASSUME NEW j \in 1 .. Len(d.line) + 1
      PROVE  Coming(d)[j].of \in 1 .. Len(d.requests) + 1
  <2>1. CASE j = Len(d.line) + 1
    BY <1>5, <1>6, <2>1
  <2>2. CASE j # Len(d.line) + 1
    <3>1. j \in 1 .. Len(d.line)
      BY <1>3, <1>7, <2>2
    <3>2. d.line[j].of \in 1 .. Len(d.requests)
      BY <1>3, <3>1 DEF Line
    <3>3. Coming(d)[j].of \in 1 .. Len(d.requests)
      BY <1>6, <3>1, <3>2
    <3>4. QED
      BY <1>1, <3>3
  <2>3. QED
    BY <2>1, <2>2
<1>8. QED
  BY <1>1, <1>3, <1>5, <1>6, <1>7

(* The client sends what is next.                                            *)
LEMMA PartSent ==
  ASSUME NEW d \in ClientRecord, Line(d), PartsInOrder(d), NEW e \in ClientRecord, Line(e),
         e.line = Append(d.line, NextSent(d)),
         NextSent(e) = After(e.requests, NextSent(d)),
         \A i \in 1 .. Len(d.requests) : e.requests[i] = d.requests[i]
  PROVE  PartsInOrder(e) /\ Coming(e)[1] = Coming(d)[1]
<1> DEFINE n == Len(d.line)
<1>1. /\ d.line \in Seq(AnyPart) /\ NextSent(d) \in AnyPart /\ n \in Nat
      /\ \A j \in 1 .. n : Coming(d)[j] = d.line[j]
      /\ Coming(d)[n + 1] = NextSent(d)
  BY ComingType
<1>2. Len(e.line) = n + 1 /\ e.line = Coming(d)
  BY <1>1, AppendProperties DEF Coming
<1>3. /\ \A j \in 1 .. n + 1 : Coming(e)[j] = Coming(d)[j]
      /\ Coming(e)[n + 2] = NextSent(e)
  <2>1. (n + 1) + 1 = n + 2
    BY <1>1
  <2>2. QED
    BY <1>2, <2>1, ComingType
<1>4. ASSUME NEW j \in 1 .. n + 1 PROVE Coming(e)[j + 1] = After(e.requests, Coming(e)[j])
  <2>1. CASE j = n + 1
    BY <1>1, <1>3, <1>4, <2>1
  <2>2. CASE j # n + 1
    <3>1. j \in 1 .. n /\ j + 1 \in 1 .. n + 1
      BY <1>1, <1>4, <2>2
    <3>2. Coming(d)[j + 1] = After(d.requests, Coming(d)[j])
      BY <3>1 DEF PartsInOrder
    <3>3. Coming(d)[j].of \in 1 .. Len(d.requests)
      <4>1. DOMAIN d.line = 1 .. n
        BY <1>1, LenProperties
      <4>2. d.line[j].of \in 1 .. Len(d.requests)
        BY <3>1, <4>1 DEF Line
      <4>3. QED
        BY <1>1, <3>1, <4>2
    <3>4. e.requests[Coming(d)[j].of] = d.requests[Coming(d)[j].of]
      BY <3>3
    <3>5. After(e.requests, Coming(d)[j]) = After(d.requests, Coming(d)[j])
      BY <3>4 DEF After
    <3>6. QED
      BY <1>3, <3>1, <3>2, <3>5
  <2>3. QED
    BY <2>1, <2>2
<1>5. PartsInOrder(e)
  BY <1>2, <1>4 DEF PartsInOrder
<1>6. 1 \in 1 .. n + 1
  BY <1>1
<1>7. QED
  BY <1>3, <1>5, <1>6

(* The first k parts are read.                                               *)
LEMMA PartsRead ==
  ASSUME NEW d \in ClientRecord, Line(d), PartsInOrder(d), NEW k \in 1 .. Len(d.line)
  PROVE  LET e == [d EXCEPT !.line = SubSeq(@, k + 1, Len(@))] IN
         PartsInOrder(e) /\ Coming(e)[1] = Coming(d)[k + 1] /\ e.requests = d.requests
<1> DEFINE e == [d EXCEPT !.line = SubSeq(@, k + 1, Len(@))]
           n == Len(d.line)
<1>1. /\ d.line \in Seq(Part) /\ d.line \in Seq(AnyPart) /\ n \in Nat
      /\ \A j \in 1 .. n : Coming(d)[j] = d.line[j]
      /\ Coming(d)[n + 1] = NextSent(d)
  BY ComingType DEF ClientRecord
<1>2. /\ e.requests = d.requests /\ e.body = d.body /\ e.line = SubSeq(d.line, k + 1, n)
      /\ e \in ClientRecord /\ Line(e)
  BY ReadType DEF ClientRecord
<1>3. k \in Nat /\ k <= n /\ k \in 1 .. n
  BY <1>1
<1> HIDE DEF e, n
<1>4. /\ Len(e.line) = n - k
      /\ \A j \in 1 .. n - k : e.line[j] = d.line[k + j]
  <2>1. \A j \in k + 1 .. n : j \in 1 .. Len(d.line) /\ d.line[j] \in AnyPart
    BY <1>1, <1>3 DEF n
  <2>2. /\ Len(SubSeq(d.line, k + 1, n)) = IF k + 1 <= n THEN n - (k + 1) + 1 ELSE 0
        /\ \A j \in 1 .. n - (k + 1) + 1 : SubSeq(d.line, k + 1, n)[j] = d.line[(k + 1) + j - 1]
    BY <1>1, <1>3, <2>1, SubSeqProperties
  <2>3. (IF k + 1 <= n THEN n - (k + 1) + 1 ELSE 0) = n - k
    BY <1>1, <1>3
  <2>4. \A j \in 1 .. n - k : j \in 1 .. n - (k + 1) + 1 /\ (k + 1) + j - 1 = k + j
    BY <1>1, <1>3
  <2>5. QED
    BY <1>2, <2>2, <2>3, <2>4
<1>5. \A j \in 1 .. (n - k) + 1 : Coming(e)[j] = Coming(d)[k + j]
  <2>1. /\ \A j \in 1 .. n - k : Coming(e)[j] = e.line[j]
        /\ Coming(e)[(n - k) + 1] = NextSent(e)
    BY <1>2, <1>4, ComingType
  <2>2. NextSent(e) = NextSent(d)
    BY <1>2 DEF NextSent
  <2>3. ASSUME NEW j \in 1 .. (n - k) + 1 PROVE Coming(e)[j] = Coming(d)[k + j]
    <3>1. CASE j = (n - k) + 1
      <4>1. k + j = n + 1
        BY <1>1, <1>3, <3>1
      <4>2. QED
        BY <1>1, <2>1, <2>2, <3>1, <4>1
    <3>2. CASE j # (n - k) + 1
      <4>1. j \in 1 .. n - k /\ k + j \in 1 .. n
        BY <1>1, <1>3, <2>3, <3>2
      <4>2. QED
        BY <1>1, <1>4, <2>1, <4>1
    <3>3. QED
      BY <3>1, <3>2
  <2>4. QED
    BY <2>3
<1>6. ASSUME NEW j \in 1 .. n - k PROVE Coming(e)[j + 1] = After(e.requests, Coming(e)[j])
  <2>1. /\ j \in 1 .. (n - k) + 1 /\ j + 1 \in 1 .. (n - k) + 1 /\ k + j \in 1 .. n
        /\ k + (j + 1) = (k + j) + 1
    BY <1>1, <1>3, <1>6
  <2>2. Coming(d)[(k + j) + 1] = After(d.requests, Coming(d)[k + j])
    BY <2>1 DEF PartsInOrder, n
  <2>3. QED
    BY <1>2, <1>5, <2>1, <2>2
<1>7. PartsInOrder(e)
  BY <1>4, <1>6 DEF PartsInOrder
<1>8. 1 \in 1 .. (n - k) + 1
  BY <1>1, <1>3
<1>9. QED
  BY <1>2, <1>5, <1>7, <1>8 DEF e
-----------------------------------------------------------------------------
(* What the steps of a session send.                                         *)

(* A sequence in two parts is the whole.                                      *)
LEMMA InParts ==
  ASSUME NEW S, NEW q \in Seq(S), NEW n \in Nat, n <= Len(q)
  PROVE  SubSeq(q, 1, n) \o SubSeq(q, n + 1, Len(q)) = q
<1>1. Len(q) \in Nat
  OBVIOUS
<1>2. 1 \in 1 .. Len(q) + 1 /\ n \in 1 - 1 .. Len(q) /\ Len(q) \in n .. Len(q)
  BY <1>1
<1>3. SubSeq(q, 1, n) \o SubSeq(q, n + 1, Len(q)) = SubSeq(q, 1, Len(q))
  BY <1>2, ConcatAdjacentSubSeq
<1>4. QED
  BY <1>3, SubSeqFull

(* A concatenation of three sequences does not depend on how it is grouped.    *)
LEMMA Regrouped ==
  ASSUME NEW p \in Seq(Piece), NEW q \in Seq(Piece), NEW u \in Seq(Piece)
  PROVE  (p \o q) \o u = p \o (q \o u)
<1> DEFINE S == Piece
<1>1. p \in Seq(S) /\ q \in Seq(S) /\ u \in Seq(S)
  OBVIOUS
<1> HIDE DEF S
<1>2. QED
  BY <1>1, ConcatAssociative

(* What is sent comes behind what was sent: all of it, or what the network    *)
(* took of it before it failed.                                              *)
LEMMA SentSends ==
  ASSUME NEW c \in SessionRecord, NEW pieces \in Seq(Piece), NEW n \in Nat, n <= Len(pieces),
         NEW fails \in BOOLEAN, fails => c.pending = <<>>
  PROVE  Sending(Sent(c, pieces, n, fails)) =
           IF fails THEN Sending(c) \o SubSeq(pieces, 1, n) ELSE Sending(c) \o pieces
<1> DEFINE taken == SubSeq(pieces, 1, n)
           left == SubSeq(pieces, n + 1, Len(pieces))
           a == Sent(c, pieces, n, fails)
<1>1. c.wire \in Seq(Piece) /\ c.pending \in Seq(Piece)
  BY DEF SessionRecord
<1>2. taken \in Seq(Piece) /\ left \in Seq(Piece) /\ taken \o left = pieces
  BY Parts, InParts
<1>3. CASE c.pending # <<>>
  <2>1. a.wire = c.wire /\ a.pending = c.pending \o pieces
    BY <1>3 DEF Sent, SessionRecord
  <2>2. (c.wire \o c.pending) \o pieces = c.wire \o (c.pending \o pieces)
    BY <1>1, Regrouped
  <2>3. QED
    BY <1>3, <2>1, <2>2 DEF Sending
<1>4. CASE c.pending = <<>>
  <2>1. Sending(c) = c.wire
    BY <1>1, <1>4, ConcatEmptySeq DEF Sending
  <2>2. CASE fails
    <3>1. a.wire = c.wire \o taken /\ a.pending = <<>>
      BY <1>4, <2>2 DEF Sent, SessionRecord
    <3>2. c.wire \o taken \in Seq(Piece)
      BY <1>1, <1>2
    <3>3. Sending(a) = c.wire \o taken
      BY <3>1, <3>2, ConcatEmptySeq DEF Sending
    <3>4. QED
      BY <2>1, <2>2, <3>3
  <2>3. CASE ~fails
    <3>1. a.wire = c.wire \o taken /\ a.pending = left
      BY <1>4, <2>3 DEF Sent, SessionRecord
    <3> HIDE DEF taken, left
    <3>2. (c.wire \o taken) \o left = c.wire \o (taken \o left)
      <4>1. c.wire \in Seq(Piece) /\ taken \in Seq(Piece) /\ left \in Seq(Piece)
        BY <1>1, <1>2
      <4>2. QED
        BY ZenonT(30), <4>1, Regrouped
    <3>3. Sending(a) = c.wire \o pieces
      BY <1>2, <3>1, <3>2 DEF Sending
    <3>4. QED
      BY <2>1, <2>3, <3>3
  <2>4. QED
    BY <2>2, <2>3
<1>5. QED
  BY <1>3, <1>4

(* A request that is answered: what is sent for it, and where the session is   *)
(* then.                                                                     *)
LEMMA RespondedSends ==
  ASSUME NEW c \in SessionRecord, NEW gone \in BOOLEAN, Good(c, gone),
         NEW i \in 1 .. MaxRequest, NEW r \in Request,
         NEW n \in Nat, n <= Len(Pieces(i, r)), NEW fails \in BOOLEAN,
         fails => c.pending = <<>>
  PROVE  LET e == Responded(c, i, r, n, fails) IN
         /\ c.hasty => e.hasty
         /\ Sending(e) = IF fails THEN Sending(c) \o SubSeq(Pieces(i, r), 1, n)
                         ELSE Sending(c) \o Pieces(i, r)
         /\ fails => e.disconnect
         /\ ~fails => e.hasty \/ e.header = 0 \/ e.disconnect \/ (e.header = i /\ e.PAUSE)
<1> DEFINE b == [Begun(c, i) EXCEPT !.Reserved4 = DoneSent(r, n, fails),
                                    !.Reserved6 = @ \/ (Streamed(r) /\ r.Version = "1.0")]
           a == Sent(b, Pieces(i, r), n, fails)
           d == Answer(Begun(c, i), i, r, n, fails)
           e == Responded(c, i, r, n, fails)
           hasty == /\ HeadOnly(r) \/ Refused(r)
                    /\ fails \/ d.pending # <<>>
<1>1. Begun(c, i) \in SessionRecord
  BY RespondedType
<1>2. b \in SessionRecord
  BY ZenonT(40), <1>1 DEF SessionRecord, DoneSent, Streamed, HeadOnly, Refused
<1>3. /\ Busy(b) /\ b.pending = c.pending /\ b.wire = c.wire /\ b.hasty = c.hasty
      /\ b.header = i
  <2>1. Begun(c, i).header = i /\ Begun(c, i).wire = c.wire
    BY DEF Begun, SessionRecord
  <2>2. Busy(Begun(c, i)) /\ Begun(c, i).pending = c.pending /\ Begun(c, i).hasty = c.hasty
    BY BegunBusy
  <2>3. QED
    BY <1>1, <2>1, <2>2 DEF Busy, SessionRecord
<1> HIDE DEF b
<1>4. /\ a \in SessionRecord /\ Busy(a) /\ a.hasty = c.hasty /\ a.header = i
      /\ fails => a.disconnect
  BY <1>2, <1>3, PiecesType, SentType, SentFields DEF Busy
<1>5. Sending(a) = IF fails THEN Sending(c) \o SubSeq(Pieces(i, r), 1, n)
                   ELSE Sending(c) \o Pieces(i, r)
  <2>1. Sending(b) = Sending(c)
    BY <1>3 DEF Sending
  <2>2. Pieces(i, r) \in Seq(Piece) /\ (fails => b.pending = <<>>)
    BY <1>3, PiecesType
  <2>3. Sending(a) = IF fails THEN Sending(b) \o SubSeq(Pieces(i, r), 1, n)
                     ELSE Sending(b) \o Pieces(i, r)
    BY <1>2, <2>2, SentSends
  <2> HIDE DEF a
  <2>4. QED
    BY <2>1, <2>3
<1>6. d = IF HeadOnly(r) \/ (~fails /\ a.pending = <<>>) THEN RequestAnswered(a, r) ELSE a
  BY DEF Answer, b
<1> HIDE DEF a, d
<1>7. /\ d \in SessionRecord /\ d.pending = a.pending /\ d.wire = a.wire /\ d.hasty = c.hasty
      /\ a.disconnect => d.disconnect
      /\ \/ d = a /\ ~HeadOnly(r) /\ (fails \/ a.pending # <<>>)
         \/ d.header = 0 \/ d.disconnect
  <2>1. LET f == RequestAnswered(a, r) IN
        /\ f \in SessionRecord /\ f.pending = a.pending /\ f.wire = a.wire /\ f.hasty = a.hasty
        /\ a.disconnect => f.disconnect
        /\ f.header = 0 \/ f.disconnect
    <3>1. RequestAnswered(a, r) \in SessionRecord
      BY <1>4, RequestAnsweredType
    <3>2. a.header # 0 /\ ~a.Reserved8
      BY <1>4 DEF Busy
    <3>3. CASE Persistent(a, r)
      BY <1>4, <3>1, <3>2, <3>3 DEF RequestAnswered, SessionRecord
    <3>4. CASE ~Persistent(a, r)
      BY <1>4, <3>1, <3>2, <3>4 DEF RequestAnswered, SessionRecord
    <3>5. QED
      BY <3>3, <3>4
  <2>2. QED
    BY <1>4, <1>6, <2>1
<1>8. e = [d EXCEPT !.PAUSE = IF Refused(r) THEN FALSE ELSE Paused(d), !.hasty = @ \/ hasty]
  BY DEF Responded, d
<1>9. /\ e.hasty = (d.hasty \/ hasty) /\ e.pending = d.pending /\ e.wire = d.wire
      /\ e.disconnect = d.disconnect /\ e.header = d.header
      /\ e.PAUSE = IF Refused(r) THEN FALSE ELSE Paused(d)
  <2> HIDE DEF e, hasty
  <2>1. QED
    BY <1>7, <1>8 DEF SessionRecord
<1>10. hasty <=> (HeadOnly(r) \/ Refused(r)) /\ (fails \/ d.pending # <<>>)
  BY DEF hasty
<1> HIDE DEF e, hasty
<1>11. Sending(e) = Sending(a)
  BY <1>7, <1>9 DEF Sending
<1>12. c.hasty => e.hasty
  BY <1>7, <1>9
<1>13. fails => e.disconnect
  BY <1>4, <1>7, <1>9
<1>14. ASSUME ~fails PROVE e.hasty \/ e.header = 0 \/ e.disconnect \/ (e.header = i /\ e.PAUSE)
  <2>1. CASE d.header = 0 \/ d.disconnect
    BY <1>9, <2>1
  <2>2. CASE d = a /\ a.pending # <<>> /\ Refused(r)
    BY <1>9, <1>10, <2>2
  <2>3. CASE d = a /\ ~Refused(r)
    <3>1. Paused(d) /\ d.header = i
      BY <1>4, <2>3 DEF Busy, Paused
    <3>2. QED
      BY <1>9, <2>3, <3>1
  <2>4. QED
    BY <1>7, <1>14, <2>1, <2>2, <2>3
<1>15. QED
  BY <1>5, <1>11, <1>12, <1>13, <1>14 DEF e

(* A session answers request i, the first that was not answered yet.           *)
LEMMA RespondedWhole ==
  ASSUME NEW c \in SessionRecord, NEW gone \in BOOLEAN, Good(c, gone),
         NEW d \in ClientRecord, Line(d), NEW e \in ClientRecord, e.requests = d.requests,
         NEW i \in 1 .. Len(d.requests), NEW n \in Nat, NEW fails \in BOOLEAN,
         n <= Len(Pieces(i, d.requests[i])), fails => c.pending = <<>>,
         c.disconnect => n = 0 /\ fails,
         Whole(c, d),
         c.hasty \/ c.disconnect \/
           /\ \/ EndsWith(d.requests, Sending(c), i - 1)
              \/ Sending(c) # <<>> /\ Last(Sending(c)) = [of |-> i, is |-> "100"]
           /\ Coming(e)[1] = [of |-> i + 1, is |-> "header"]
  PROVE  Whole(Responded(c, i, d.requests[i], n, fails), e)
<1> DEFINE q == d.requests
           r == q[i]
           x == Responded(c, i, r, n, fails)
           w == Sending(c)
<1>1. /\ q \in Seq(Request) /\ Len(q) \in Nat /\ Len(q) <= MaxRequest /\ i \in 1 .. MaxRequest
      /\ r \in Request /\ i # 0 /\ n <= Len(Pieces(i, r))
  BY ServerAssumption, ElementOfSeq DEF Line, ClientRecord
<1>2. Pieces(i, r) = AnswerTo(q, i) /\ Pieces(i, r) \in Seq(Piece)
  BY <1>1, PiecesType DEF AnswerTo
<1>3. w \in Seq(Piece)
  BY DEF Sending, SessionRecord
<1>4. /\ c.hasty => x.hasty
      /\ Sending(x) = IF fails THEN w \o SubSeq(Pieces(i, r), 1, n) ELSE w \o Pieces(i, r)
      /\ fails => x.disconnect
      /\ ~fails => x.hasty \/ x.header = 0 \/ x.disconnect \/ (x.header = i /\ x.PAUSE)
  <2> HIDE DEF r, q
  <2>1. QED
    BY Zenon, <1>1, RespondedSends
<1> SUFFICES Whole(x, e)
  OBVIOUS
<1> HIDE DEF x, w, q, r
<1>5. CASE c.hasty
  BY <1>4, <1>5 DEF Whole
<1>6. CASE ~c.hasty /\ c.disconnect
  <2>1. fails /\ n = 0 /\ InOrder(q, w)
    BY <1>6 DEF Whole, w, q
  <2>2. SubSeq(Pieces(i, r), 1, 0) = <<>>
    BY SubSeqEmpty
  <2>3. Sending(x) = w
    BY <1>3, <1>4, <2>1, <2>2, ConcatEmptySeq
  <2>4. QED
    BY <1>4, <2>1, <2>3 DEF Whole, q
<1>7. CASE ~c.hasty /\ ~c.disconnect
  <2>1. /\ InOrder(q, w)
        /\ EndsWith(q, w, i - 1) \/ (w # <<>> /\ Last(w) = [of |-> i, is |-> "100"])
        /\ Coming(e)[1] = [of |-> i + 1, is |-> "header"]
    BY <1>7 DEF Whole, w, q
  <2>2. /\ InOrder(q, w \o Pieces(i, r)) /\ EndsWith(q, w \o Pieces(i, r), i)
        /\ \A m \in 0 .. Len(Pieces(i, r)) : InOrder(q, w \o SubSeq(Pieces(i, r), 1, m))
    <3>1. i \in 1 .. Len(q)
      BY DEF q
    <3>2. QED
      BY <1>1, <1>2, <1>3, <2>1, <3>1, AnswerSent
  <2>3. n \in 0 .. Len(Pieces(i, r))
    BY <1>2 DEF r, q
  <2>4. InOrder(q, Sending(x))
    BY <1>4, <2>2, <2>3
  <2>5. ASSUME ~x.hasty, ~x.disconnect PROVE Placed(x, e)
    <3>1. ~fails /\ Sending(x) = w \o Pieces(i, r)
      BY <1>4, <2>5
    <3>2. EndsWith(e.requests, Sending(x), i)
      BY <2>2, <3>1 DEF q
    <3>3. CASE x.header = 0
      <4>1. Coming(e)[1].is = "header" /\ Coming(e)[1].of - 1 = i
        BY <1>1, <2>1
      <4>2. QED
        BY <3>2, <3>3, <4>1 DEF Placed
    <3>4. CASE x.header = i /\ x.PAUSE
      BY <1>1, <2>1, <3>2, <3>4 DEF Placed
    <3>5. QED
      BY <1>4, <2>5, <3>1, <3>3, <3>4
  <2>6. QED
    BY <2>4, <2>5 DEF Whole, q
<1>8. QED
  BY <1>5, <1>6, <1>7

(* What comes before what is in order is in order.                            *)
LEMMA InOrderPrefix ==
  ASSUME NEW requests, NEW w \in Seq(Piece), NEW u \in Seq(Piece), InOrder(requests, w \o u)
  PROVE  InOrder(requests, w)
<1> DEFINE x == w \o u
           m == Len(w)
           n == Len(u)
<1>1. /\ x \in Seq(Piece) /\ Len(x) = m + n /\ m \in Nat /\ n \in Nat
      /\ \A k \in 1 .. m : x[k] = w[k]
  BY Concatenated
<1>2. w # <<>> => m # 0 /\ x # <<>>
  <2>1. w # <<>> => m # 0
    BY EmptySeq
  <2> HIDE DEF x, m, n
  <2>2. m # 0 => Len(x) # 0
    BY <1>1
  <2>3. Len(x) # 0 => x # <<>>
    OBVIOUS
  <2>4. QED
    BY <2>1, <2>2, <2>3
<1>3. /\ \A k \in 1 .. m + n : x[k].of \in 1 .. Len(requests)
      /\ x # <<>> => Opens(requests, 1, x[1])
      /\ \A k \in 2 .. m + n : Follows(requests, x[k - 1], x[k])
  <2>1. InOrder(requests, x)
    OBVIOUS
  <2> HIDE DEF x, m, n
  <2>2. QED
    BY <1>1, <2>1 DEF InOrder
<1> HIDE DEF x, m, n
<1>4. \A k \in 1 .. m : k \in 1 .. m + n
  BY <1>1
<1>5. \A k \in 1 .. m : w[k].of \in 1 .. Len(requests)
  BY <1>1, <1>3, <1>4
<1>6. w # <<>> => Opens(requests, 1, w[1])
  <2>1. m # 0 => 1 \in 1 .. m
    BY <1>1
  <2>2. QED
    BY <1>1, <1>2, <1>3, <2>1
<1>7. ASSUME NEW k \in 2 .. m PROVE Follows(requests, w[k - 1], w[k])
  <2>1. k \in 1 .. m /\ k - 1 \in 1 .. m /\ k \in 2 .. m + n
    BY <1>1, <1>7
  <2>2. QED
    BY <1>1, <1>3, <2>1
<1>8. QED
  BY <1>5, <1>6, <1>7 DEF InOrder, m

(* The network takes some of what is pending, or finds the connection broken.  *)
LEMMA TakenWhole ==
  ASSUME NEW c \in SessionRecord, NEW gone \in BOOLEAN, Good(c, gone), c.pending # <<>>,
         NEW d, Whole(c, d), NEW n \in 1 .. Len(c.pending), NEW r
  PROVE  LET t == Taken(c, n)
             a == IF n = Len(c.pending) /\ c.header # 0 THEN SendOK(t, r) ELSE t
         IN  Whole(a, d)
<1> DEFINE t == Taken(c, n)
           a == IF n = Len(c.pending) /\ c.header # 0 THEN SendOK(t, r) ELSE t
           first == SubSeq(c.pending, 1, n)
           rest == SubSeq(c.pending, n + 1, Len(c.pending))
<1>1. c.wire \in Seq(Piece) /\ c.pending \in Seq(Piece)
  BY DEF SessionRecord
<1>2. n \in Nat /\ n <= Len(c.pending)
  BY <1>1
<1>3. first \in Seq(Piece) /\ rest \in Seq(Piece) /\ first \o rest = c.pending
  BY <1>1, <1>2, Parts, InParts
<1>4. /\ t.wire = c.wire \o first /\ t.pending = rest /\ t.header = c.header
      /\ t.PAUSE = c.PAUSE /\ t.Reserved4 = c.Reserved4 /\ t.hasty = c.hasty
      /\ t.disconnect = c.disconnect /\ t.Reserved8 = c.Reserved8
      /\ t \in SessionRecord
  <2>1. c.wire \o first \in Seq(Piece)
    <3> HIDE DEF first
    <3>1. QED
      BY <1>1, <1>3
  <2>2. QED
    BY <1>1, <1>3, <2>1 DEF Taken, SessionRecord
<1> HIDE DEF first, rest, t
<1>5. Sending(t) = Sending(c)
  <2>1. (c.wire \o first) \o rest = c.wire \o (first \o rest)
    <3>1. c.wire \in Seq(Piece) /\ first \in Seq(Piece) /\ rest \in Seq(Piece)
      BY <1>1, <1>3
    <3>2. QED
      BY ZenonT(30), <3>1, Regrouped
  <2>2. QED
    BY <1>3, <1>4, <2>1 DEF Sending
<1>6. CASE a = t
  <2>1. Whole(t, d)
    BY <1>4, <1>5 DEF Whole, Placed
  <2>2. QED
    BY <1>6, <2>1 DEF t
<1>7. CASE a # t
  <2>1. a = RequestAnswered(t, r) /\ t.Reserved4 /\ t.header # 0 /\ ~t.Reserved8
    BY <1>4, <1>7 DEF SendOK, RequestAnswered
  <2>2. /\ a.hasty = c.hasty /\ Sending(a) = Sending(c)
        /\ c.disconnect => a.disconnect
        /\ a.header = 0 \/ a.disconnect
    <3>1. CASE Persistent(t, r)
      <4>1. a = [t EXCEPT !.Reserved8 = TRUE, !.Reserved5 = FALSE, !.header = 0, !.PAUSE = FALSE,
                          !.idle = TRUE]
        BY <2>1, <3>1 DEF RequestAnswered
      <4> HIDE DEF a
      <4>2. /\ a.hasty = t.hasty /\ a.wire = t.wire /\ a.pending = t.pending
            /\ a.disconnect = t.disconnect /\ a.header = 0
        BY <1>4, <4>1 DEF SessionRecord
      <4>3. QED
        BY <1>4, <1>5, <4>2 DEF Sending
    <3>2. CASE ~Persistent(t, r)
      <4>1. a = [t EXCEPT !.Reserved8 = TRUE, !.Reserved5 = FALSE, !.disconnect = TRUE]
        BY <2>1, <3>2 DEF RequestAnswered
      <4> HIDE DEF a
      <4>2. /\ a.hasty = t.hasty /\ a.wire = t.wire /\ a.pending = t.pending
            /\ a.disconnect
        BY <1>4, <4>1 DEF SessionRecord
      <4>3. QED
        BY <1>4, <1>5, <4>2 DEF Sending
    <3>3. QED
      BY <3>1, <3>2
  <2> SUFFICES Whole(a, d)
    BY DEF t
  <2> HIDE DEF a
  <2>3. CASE c.hasty
    BY <2>2, <2>3 DEF Whole
  <2>4. CASE ~c.hasty /\ a.disconnect
    BY <2>2, <2>4 DEF Whole
  <2>5. CASE ~c.hasty /\ ~a.disconnect
    <3>1. InOrder(d.requests, Sending(c)) /\ Placed(c, d)
      BY <2>2, <2>5 DEF Whole
    <3>2. /\ Coming(d)[1] = [of |-> c.header + 1, is |-> "header"]
          /\ EndsWith(d.requests, Sending(c), c.header)
      BY <1>4, <2>1, <3>1 DEF Placed
    <3>3. c.header \in Int
      BY ServerAssumption DEF SessionRecord
    <3>4. Coming(d)[1].is = "header" /\ Coming(d)[1].of - 1 = c.header
      BY <3>2, <3>3
    <3>5. Placed(a, d)
      BY <2>2, <2>5, <3>2, <3>4 DEF Placed
    <3>6. QED
      BY <2>2, <3>1, <3>5 DEF Whole
  <2>6. QED
    BY <2>3, <2>4, <2>5
<1>8. QED
  BY <1>6, <1>7

(* What is pending is lost: what was sent is still in order.                 *)
LEMMA BrokenWhole ==
  ASSUME NEW c \in SessionRecord, NEW d, Whole(c, d)
  PROVE  Whole([c EXCEPT !.pending = <<>>, !.disconnect = TRUE], d)
<1> DEFINE a == [c EXCEPT !.pending = <<>>, !.disconnect = TRUE]
<1>1. c.wire \in Seq(Piece) /\ c.pending \in Seq(Piece)
  BY DEF SessionRecord
<1>2. a.hasty = c.hasty /\ a.disconnect /\ a.wire = c.wire /\ a.pending = <<>>
  BY DEF SessionRecord
<1> HIDE DEF a
<1>3. Sending(a) = c.wire
  BY <1>1, <1>2, ConcatEmptySeq DEF Sending
<1>4. InOrder(d.requests, Sending(c)) => InOrder(d.requests, Sending(a))
  BY <1>1, <1>3, InOrderPrefix DEF Sending
<1>5. Whole(a, d)
  BY <1>2, <1>4 DEF Whole
<1>6. QED
  BY <1>5 DEF a

(* A header alone is read, and a 100 Continue may be sent.                     *)
LEMMA HeaderWhole ==
  ASSUME NEW c \in SessionRecord, NEW gone \in BOOLEAN, Good(c, gone), c.header = 0, ~c.PAUSE,
         NEW d \in ClientRecord, Line(d), NEW e \in ClientRecord, e.requests = d.requests,
         NEW i \in 1 .. Len(d.requests), NEW n \in 0 .. 1, NEW fails \in BOOLEAN,
         Whole(c, d),
         c.hasty \/ c.disconnect \/
           /\ EndsWith(d.requests, Sending(c), i - 1)
           /\ Coming(e)[1] = [of |-> i, is |-> "body"]
  PROVE  /\ Whole(HeaderRead(c, i), e)
         /\ (fails => c.pending = <<>> /\ n = 0) /\ (c.disconnect => fails) =>
              Whole(Continued(c, i, n, fails), e)
<1> DEFINE q == d.requests
           w == Sending(c)
           p == [of |-> i, is |-> "100"]
           b == HeaderRead(c, i)
           b4 == [b EXCEPT !.Reserved4 = FALSE]
           a == Sent(b4, <<p>>, n, fails)
<1>1. /\ q \in Seq(Request) /\ Len(q) \in Nat /\ Len(q) <= MaxRequest /\ i \in 1 .. MaxRequest
      /\ i # 0 /\ i \in 0 .. MaxRequest
  BY ServerAssumption DEF Line, ClientRecord
<1>2. w \in Seq(Piece) /\ e.requests = q
  BY DEF Sending, SessionRecord
<1>3. b \in SessionRecord /\ b4 \in SessionRecord
  <2>1. Begun(c, i) \in SessionRecord
    BY <1>1 DEF Begun, SessionRecord
  <2>2. b \in SessionRecord
    BY <2>1 DEF HeaderRead, SessionRecord
  <2> HIDE DEF b
  <2>3. QED
    BY <2>2 DEF SessionRecord
<1>4. /\ b.wire = c.wire /\ b.pending = c.pending /\ b.hasty = c.hasty
      /\ b.disconnect = c.disconnect /\ b.header = i /\ b.PAUSE = c.PAUSE
  BY <1>3 DEF HeaderRead, Begun, SessionRecord
<1>5. b.Reserved4 = FALSE
  BY DEF HeaderRead, Begun, SessionRecord
<1> HIDE DEF b
<1>6. /\ b4.wire = c.wire /\ b4.pending = c.pending /\ b4.hasty = c.hasty
      /\ b4.disconnect = c.disconnect /\ b4.header = i /\ b4.PAUSE = c.PAUSE /\ ~b4.Reserved4
  BY <1>3, <1>4 DEF SessionRecord
<1>7. Sending(b) = w /\ Sending(b4) = w
  BY <1>4, <1>6 DEF Sending
<1> HIDE DEF b4, w, q
<1>8. ASSUME ~c.hasty, ~c.disconnect
      PROVE  /\ InOrder(q, w) /\ EndsWith(q, w, i - 1) /\ Coming(e)[1] = [of |-> i, is |-> "body"]
  BY <1>8 DEF Whole, w, q
<1>9. Whole(b, e)
  <2>1. CASE c.hasty
    BY <1>4, <2>1 DEF Whole
  <2>2. CASE ~c.hasty /\ c.disconnect
    <3>1. InOrder(q, w)
      BY <2>2 DEF Whole, w, q
    <3>2. QED
      BY <1>2, <1>4, <1>7, <2>2, <3>1 DEF Whole
  <2>3. CASE ~c.hasty /\ ~c.disconnect
    <3>1. Placed(b, e)
      BY <1>1, <1>2, <1>4, <1>5, <1>7, <1>8, <2>3 DEF Placed
    <3>2. QED
      BY <1>2, <1>7, <1>8, <2>3, <3>1 DEF Whole
  <2>4. QED
    BY <2>1, <2>2, <2>3
<1>10. ASSUME fails => c.pending = <<>> /\ n = 0, c.disconnect => fails
       PROVE  Whole(a, e)
  <2>1. p \in Piece
    BY <1>1 DEF Piece
  <2>2. <<p>> \in Seq(Piece) /\ Len(<<p>>) = 1 /\ n \in Nat /\ n <= 1
    BY <2>1
  <2>3. Sending(a) = IF fails THEN w \o SubSeq(<<p>>, 1, n) ELSE w \o <<p>>
    <3> HIDE DEF p
    <3>1. n <= Len(<<p>>) /\ (fails => b4.pending = <<>>)
      BY <1>6, <1>10, <2>2
    <3>2. Sending(a) = IF fails THEN Sending(b4) \o SubSeq(<<p>>, 1, n)
                       ELSE Sending(b4) \o <<p>>
      BY <1>3, <2>2, <3>1, SentSends
    <3> HIDE DEF a
    <3>3. QED
      BY <1>7, <3>2
  <2>4. /\ a.header = i /\ a.hasty = c.hasty /\ a.disconnect = (c.disconnect \/ fails)
    <3> HIDE DEF p
    <3>1. n <= Len(<<p>>)
      BY <2>2
    <3>2. /\ a.header = b4.header /\ a.hasty = b4.hasty
          /\ a.disconnect = (b4.disconnect \/ (b4.pending = <<>> /\ fails))
      BY <1>3 DEF Sent, SessionRecord
    <3> HIDE DEF a
    <3>3. QED
      BY <1>6, <1>10, <3>2
  <2>5. a.PAUSE = c.PAUSE /\ a.Reserved4 = FALSE
    BY <1>3, <1>6 DEF Sent, SessionRecord
  <2> HIDE DEF a, p
  <2>6. CASE c.hasty
    BY <2>4, <2>6 DEF Whole
  <2>7. CASE ~c.hasty /\ fails
    <3>1. SubSeq(<<p>>, 1, 0) = <<>>
      BY SubSeqEmpty
    <3>2. Sending(a) = w
      BY <1>2, <1>10, <2>3, <2>7, <3>1, ConcatEmptySeq
    <3>3. InOrder(q, w)
      BY <2>7 DEF Whole, w, q
    <3>4. QED
      BY <1>2, <2>4, <2>7, <3>2, <3>3 DEF Whole
  <2>8. CASE ~c.hasty /\ ~fails
    <3>1. ~c.disconnect /\ InOrder(q, w) /\ EndsWith(q, w, i - 1)
          /\ Coming(e)[1] = [of |-> i, is |-> "body"]
      BY <1>8, <1>10, <2>8
    <3>2. i \in 1 .. Len(q)
      BY DEF q
    <3>3. LET x == w \o <<p>> IN InOrder(q, x) /\ x # <<>> /\ Last(x) = p
      BY <1>1, <1>2, <3>1, <3>2, ContinueSent DEF p
    <3>4. /\ InOrder(q, Sending(a)) /\ Sending(a) # <<>>
          /\ Last(Sending(a)) = [of |-> i, is |-> "100"]
      BY <2>3, <2>8, <3>3 DEF p
    <3>5. Placed(a, e)
      BY <1>1, <2>4, <2>5, <3>1, <3>4 DEF Placed
    <3>6. QED
      BY <1>2, <3>4, <3>5 DEF Whole
  <2>9. QED
    BY <2>6, <2>7, <2>8
<1>11. a = Continued(c, i, n, fails)
  BY DEF Continued, b, b4
<1> HIDE DEF a
<1>12. QED
  BY <1>9, <1>10, <1>11 DEF b

(* The client sends the next part: what the session has sent stays as it was.  *)
LEMMA ClientWhole ==
  ASSUME NEW c \in SessionRecord, NEW d \in ClientRecord, Line(d), NEW e \in ClientRecord,
         e.requests = d.requests \/ (\E r \in Request : e.requests = Append(d.requests, r)),
         Coming(e)[1] = Coming(d)[1], Whole(c, d)
  PROVE  Whole(c, e)
<1> DEFINE q == d.requests
           w == Sending(c)
           p == Coming(d)[1]
<1>1. q \in Seq(Request) /\ Len(q) \in Nat /\ p.of \in 1 .. Len(q) + 1
  <2>1. 1 \in 1 .. Len(d.line) + 1
    BY ComingType
  <2>2. QED
    BY <2>1, ComingType
<1>2. w \in Seq(Piece)
  BY DEF Sending, SessionRecord
<1> HIDE DEF q, w
<1>3. /\ InOrder(q, w) => InOrder(e.requests, w)
      /\ \A i \in 0 .. Len(q) : EndsWith(q, w, i) => EndsWith(e.requests, w, i)
  BY <1>1, <1>2, MoreRequests DEF q
<1>4. ASSUME Placed(c, d) PROVE Placed(c, e)
  <2>1. c.header \in Nat
    BY ServerAssumption DEF SessionRecord
  <2>2. CASE c.header = 0 /\ p.is = "header" /\ EndsWith(q, w, p.of - 1)
    <3>1. p.of - 1 \in 0 .. Len(q)
      BY <1>1
    <3>2. EndsWith(e.requests, w, p.of - 1)
      BY <1>3, <2>2, <3>1
    <3>3. QED
      BY <2>2, <3>2 DEF Placed, w
  <2>3. CASE /\ c.header # 0 /\ ~c.PAUSE /\ ~c.Reserved4
             /\ p = [of |-> c.header, is |-> "body"]
             /\ \/ EndsWith(q, w, c.header - 1)
                \/ w # <<>> /\ Last(w) = [of |-> c.header, is |-> "100"]
    <3>1. c.header - 1 \in 0 .. Len(q)
      BY <1>1, <2>1, <2>3
    <3>2. \/ EndsWith(e.requests, w, c.header - 1)
          \/ w # <<>> /\ Last(w) = [of |-> c.header, is |-> "100"]
      BY <1>3, <2>3, <3>1
    <3>3. QED
      BY <2>3, <3>2 DEF Placed, w
  <2>4. CASE /\ c.header # 0 /\ c.PAUSE
             /\ p = [of |-> c.header + 1, is |-> "header"]
             /\ EndsWith(q, w, c.header)
    <3>1. c.header \in 0 .. Len(q)
      <4>1. p.of = c.header + 1
        BY <2>4
      <4> HIDE DEF p
      <4>2. QED
        BY <1>1, <2>1, <4>1
    <3>2. EndsWith(e.requests, w, c.header)
      BY <1>3, <2>4, <3>1
    <3>3. QED
      BY <2>4, <3>2 DEF Placed, w
  <2>5. QED
    BY <1>4, <2>2, <2>3, <2>4 DEF Placed, q, w
<1>5. QED
  BY <1>3, <1>4 DEF Whole, q, w
-----------------------------------------------------------------------------
(* The steps keep the answers whole.                                         *)

(* One session and its client change while no timer is called.                *)
LEMMA OneWhole ==
  ASSUME SInv, TypeOK', WInv, batch = <<>>, UNCHANGED batch, NEW s \in DOMAIN session,
         NEW c \in SessionRecord, session' = [session EXCEPT ![s] = c],
         NEW d \in ClientRecord, client' = [client EXCEPT ![s] = d], PartsInOrder(d),
         IF c.freed THEN c.wire = <<>> /\ c.pending = <<>> ELSE Whole(c, d)
  PROVE  WInv'
<1>1. /\ DOMAIN session' = DOMAIN session /\ DOMAIN client' = DOMAIN client
      /\ DOMAIN client = DOMAIN session
      /\ session'[s] = c /\ client'[s] = d
      /\ \A u \in DOMAIN session : u # s => session'[u] = session[u] /\ client'[u] = client[u]
  BY Domains DEF SInv
<1>2. \A u \in DOMAIN session : Before(u) = session[u]
  BY NothingTaken DEF SInv
<1>3. \A u \in DOMAIN session' : Before(u)' = session'[u]
  <2>1. ToSet(batch') = {}
    BY NothingTaken DEF SInv
  <2>2. \A u \in DOMAIN session : session'[u] \in SessionRecord
    BY <1>1, Domains DEF SInv
  <2>3. ASSUME NEW u \in DOMAIN session' PROVE Before(u)' = session'[u]
    <3>1. session'[u] \in SessionRecord
      BY <1>1, <2>2
    <3>2. QED
      BY <2>1, <3>1 DEF Before, SessionRecord
  <2>4. QED
    BY <2>3
<1>4. \A u \in DOMAIN client' : PartsInOrder(client'[u])
  BY <1>1 DEF WInv
<1>5. ASSUME NEW u \in DOMAIN session'
      PROVE  IF session'[u].freed THEN session'[u].wire = <<>> /\ session'[u].pending = <<>>
             ELSE Whole(Before(u)', client'[u])
  <2>1. CASE u = s
    BY <1>1, <1>3, <2>1
  <2>2. CASE u # s
    BY <1>1, <1>2, <1>3, <2>2 DEF WInv
  <2>3. QED
    BY <2>1, <2>2
<1>6. QED
  BY <1>4, <1>5 DEF WInv

(* A session as it was is a session.                                         *)
LEMMA BeforeType ==
  ASSUME NEW s, session[s] \in SessionRecord PROVE Before(s) \in SessionRecord
BY ZenonT(40) DEF Before, SessionRecord

(* The clients send, or leave.                                               *)
LEMMA ClientsWhole ==
  ASSUME SInv, WInv, NEW s \in DOMAIN session, Live(s), NEW e \in ClientRecord,
         client' = [client EXCEPT ![s] = e], UNCHANGED <<session, batch>>,
         PartsInOrder(e), Coming(e)[1] = Coming(client[s])[1],
         \/ e.requests = client[s].requests
         \/ \E r \in Request : e.requests = Append(client[s].requests, r)
  PROVE  WInv'
<1>1. /\ DOMAIN client' = DOMAIN client /\ DOMAIN client = DOMAIN session
      /\ client'[s] = e /\ \A u \in DOMAIN session : u # s => client'[u] = client[u]
      /\ \A u \in DOMAIN session : session[u] \in SessionRecord
      /\ client[s] \in ClientRecord /\ Line(client[s])
  BY Domains DEF SInv, LineInv
<1>2. \A u \in DOMAIN client' : PartsInOrder(client'[u])
  BY <1>1 DEF WInv
<1>3. Before(s) \in SessionRecord
  BY <1>1, BeforeType
<1>4. Whole(Before(s), client[s])
  BY DEF WInv, Live
<1>5. Whole(Before(s), e)
  BY <1>1, <1>3, <1>4, ClientWhole
<1>6. \A u \in DOMAIN session : Before(u)' = Before(u)
  BY DEF Before, IdleEvent, DisconnectEvent
<1>7. ASSUME NEW u \in DOMAIN session'
      PROVE  IF session'[u].freed THEN session'[u].wire = <<>> /\ session'[u].pending = <<>>
             ELSE Whole(Before(u)', client'[u])
  <2>1. CASE u = s
    BY <1>1, <1>5, <1>6, <2>1 DEF Live
  <2>2. CASE u # s
    BY <1>1, <1>6, <2>2 DEF WInv
  <2>3. QED
    BY <2>1, <2>2
<1>8. QED
  BY <1>2, <1>7 DEF WInv

(* A client sends the next part, which comes after those on the line.        *)
LEMMA ClientsSend ==
  ASSUME SInv, WInv, SInv', NEW s \in DOMAIN session,
         SendBody(s) \/ Leave(s) \/ \E r \in Request : SendHeader(s, r)
  PROVE  WInv'
<1> DEFINE d == client[s]
           q == d.requests
<1>1. /\ d \in ClientRecord /\ Line(d) /\ PartsInOrder(d) /\ q \in Seq(Request)
      /\ Len(q) \in Nat /\ DOMAIN client = DOMAIN session /\ d.body \in BOOLEAN
  BY Domains DEF SInv, LineInv, ClientRecord, WInv
<1>2. \A u \in DOMAIN client' : client'[u] \in ClientRecord /\ Line(client'[u])
  <2>1. client' \in Seq(ClientRecord)
    BY DEF SInv, TypeOK
  <2>2. DOMAIN client' = 1 .. Len(client')
    BY <2>1, LenProperties
  <2>3. \A u \in DOMAIN client' : client'[u] \in ClientRecord
    BY <2>1, <2>2, ElementOfSeq
  <2>4. QED
    BY <2>3 DEF SInv, LineInv
<1>3. ASSUME NEW r \in Request, SendHeader(s, r) PROVE WInv'
  <2> DEFINE n == Len(q) + 1
             e == [d EXCEPT !.requests = Append(@, r),
                            !.line = Append(@, [of |-> n, is |-> "header"]),
                            !.body = r.body]
  <2>1. Live(s) /\ ~d.body /\ client' = [client EXCEPT ![s] = e] /\ UNCHANGED <<session, batch>>
    BY ZenonT(40), <1>3 DEF SendHeader
  <2>2. client'[s] = e
    BY <1>1, <2>1
  <2>3. e \in ClientRecord /\ Line(e)
    <3> HIDE DEF e
    <3>1. s \in DOMAIN client'
      BY <1>1, <2>1
    <3>2. QED
      BY <1>2, <2>2, <3>1
  <2>4. /\ e.requests = Append(q, r) /\ e.line = Append(d.line, [of |-> n, is |-> "header"])
        /\ e.body = r.body
    BY <1>1 DEF ClientRecord
  <2> HIDE DEF e, q
  <2>5. Len(e.requests) = n /\ e.requests[n] = r /\ \A i \in 1 .. Len(q) : e.requests[i] = q[i]
    BY <1>1, <2>4, AppendProperties
  <2>6. NextSent(d) = [of |-> n, is |-> "header"]
    BY <2>1 DEF NextSent, q
  <2>7. NextSent(e) = After(e.requests, NextSent(d))
    BY <2>4, <2>5, <2>6 DEF NextSent, After
  <2>8. PartsInOrder(e) /\ Coming(e)[1] = Coming(d)[1]
    BY <1>1, <2>3, <2>4, <2>5, <2>6, <2>7, PartSent DEF q
  <2>9. QED
    BY <2>1, <2>3, <2>4, <2>8, ClientsWhole DEF q
<1>4. CASE SendBody(s)
  <2> DEFINE n == Len(q)
             e == [d EXCEPT !.line = Append(@, [of |-> n, is |-> "body"]), !.body = FALSE]
  <2>1. Live(s) /\ d.body /\ client' = [client EXCEPT ![s] = e] /\ UNCHANGED <<session, batch>>
    BY ZenonT(40), <1>4 DEF SendBody
  <2>2. client'[s] = e
    BY <1>1, <2>1
  <2>3. e \in ClientRecord /\ Line(e)
    <3> HIDE DEF e
    <3>1. s \in DOMAIN client'
      BY <1>1, <2>1
    <3>2. QED
      BY <1>2, <2>2, <3>1
  <2>4. /\ e.requests = q /\ e.line = Append(d.line, [of |-> n, is |-> "body"])
        /\ e.body = FALSE
    BY <1>1 DEF ClientRecord
  <2> HIDE DEF e, q
  <2>5. NextSent(d) = [of |-> n, is |-> "body"]
    BY <2>1 DEF NextSent, q
  <2>6. NextSent(e) = After(e.requests, NextSent(d))
    BY <2>4, <2>5 DEF NextSent, After
  <2>7. PartsInOrder(e) /\ Coming(e)[1] = Coming(d)[1]
    BY <1>1, <2>3, <2>4, <2>5, <2>6, PartSent DEF q
  <2>8. QED
    BY <2>1, <2>3, <2>4, <2>7, ClientsWhole DEF q
<1>5. CASE Leave(s)
  <2> DEFINE e == [d EXCEPT !.gone = TRUE]
  <2>1. Live(s) /\ client' = [client EXCEPT ![s] = e] /\ UNCHANGED <<session, batch>>
    BY <1>5 DEF Leave
  <2>2. /\ e \in ClientRecord /\ e.requests = q /\ e.line = d.line /\ e.body = d.body
    BY <1>1 DEF ClientRecord
  <2> HIDE DEF e
  <2>3. Coming(e) = Coming(d) /\ PartsInOrder(e)
    BY <1>1, <2>2 DEF Coming, NextSent, PartsInOrder
  <2>4. QED
    BY <2>1, <2>2, <2>3, ClientsWhole
<1>6. QED
  BY <1>3, <1>4, <1>5

(* The part that is read first, and where the session is then.                 *)
LEMMA ReadPlaced ==
  ASSUME SInv, WInv, NEW s \in DOMAIN session, MayRead(s)
  PROVE  LET c == session[s]  d == client[s] IN
         /\ Whole(c, d) /\ PartsInOrder(d)
         /\ Coming(d)[1] = d.line[1] /\ Len(d.line) \in Nat \ {0}
         /\ \A k \in 1 .. Len(d.line) : Coming(d)[k + 1] = After(d.requests, Coming(d)[k])
         /\ \/ c.hasty \/ c.disconnect
            \/ /\ c.header = 0 /\ d.line[1].is = "header"
               /\ EndsWith(d.requests, Sending(c), d.line[1].of - 1)
            \/ /\ c.header # 0 /\ d.line[1] = [of |-> c.header, is |-> "body"]
               /\ \/ EndsWith(d.requests, Sending(c), c.header - 1)
                  \/ Sending(c) # <<>> /\ Last(Sending(c)) = [of |-> c.header, is |-> "100"]
<1> DEFINE c == session[s]
           d == client[s]
<1>1. /\ Live(s) /\ batch = <<>> /\ ~c.PAUSE /\ d \in ClientRecord /\ Line(d)
      /\ Len(d.line) \in Nat \ {0} /\ DOMAIN client = DOMAIN session
  BY FirstPart, Domains DEF MayRead, SInv
<1>2. Before(s) = c
  BY <1>1, NothingTaken DEF SInv
<1>3. Whole(c, d) /\ PartsInOrder(d)
  BY <1>1, <1>2 DEF WInv, Live
<1>4. Coming(d)[1] = d.line[1]
  <2>1. 1 \in 1 .. Len(d.line)
    BY <1>1
  <2>2. QED
    BY <1>1, <2>1, ComingType
<1> HIDE DEF c, d
<1>5. \A k \in 1 .. Len(d.line) : Coming(d)[k + 1] = After(d.requests, Coming(d)[k])
  BY <1>3 DEF PartsInOrder
<1>6. \/ c.hasty \/ c.disconnect
      \/ /\ c.header = 0 /\ d.line[1].is = "header"
         /\ EndsWith(d.requests, Sending(c), d.line[1].of - 1)
      \/ /\ c.header # 0 /\ d.line[1] = [of |-> c.header, is |-> "body"]
         /\ \/ EndsWith(d.requests, Sending(c), c.header - 1)
            \/ Sending(c) # <<>> /\ Last(Sending(c)) = [of |-> c.header, is |-> "100"]
  BY <1>1, <1>3, <1>4 DEF Whole, Placed
<1>7. QED
  BY <1>1, <1>3, <1>4, <1>5, <1>6 DEF c, d

(* A request is answered after something, or nothing, was read.                *)
LEMMA RespondedStep ==
  ASSUME SInv, WInv, TypeOK', NEW s \in DOMAIN session, MayRead(s),
         NEW i \in 1 .. Len(client[s].requests),
         NEW n \in 0 .. 3, NEW fails \in BOOLEAN,
         Network(s, Len(Pieces(i, client[s].requests[i])), n, fails),
         session' = [session EXCEPT ![s] =
                       Responded(session[s], i, client[s].requests[i], n, fails)],
         NEW e \in ClientRecord, client' = [client EXCEPT ![s] = e],
         e.requests = client[s].requests, PartsInOrder(e), UNCHANGED batch,
         session[s].hasty \/ session[s].disconnect \/
           /\ \/ EndsWith(client[s].requests, Sending(session[s]), i - 1)
              \/ /\ Sending(session[s]) # <<>>
                 /\ Last(Sending(session[s])) = [of |-> i, is |-> "100"]
           /\ Coming(e)[1] = [of |-> i + 1, is |-> "header"]
  PROVE  WInv'
<1> DEFINE c == session[s]
           d == client[s]
           x == Responded(c, i, d.requests[i], n, fails)
<1>1. /\ batch = <<>> /\ c \in SessionRecord /\ ~c.freed /\ d \in ClientRecord /\ Line(d)
      /\ Good(c, d.gone) /\ d.gone \in BOOLEAN /\ d.requests \in Seq(Request)
  BY FirstPart DEF Live
<1>2. i \in 1 .. MaxRequest /\ d.requests[i] \in Request
  BY <1>1, ServerAssumption, ElementOfSeq DEF Line
<1>3. /\ n \in Nat /\ n <= Len(Pieces(i, d.requests[i]))
      /\ fails => d.gone /\ c.pending = <<>>
      /\ c.disconnect => n = 0 /\ fails
  BY DEF Network
<1>4. Whole(c, d)
  BY ReadPlaced
<1>5. x \in SessionRecord
  BY <1>1, <1>2, <1>3, RespondedType
<1>6. ~x.freed
  <2>1. c.disconnect => fails
    BY <1>3
  <2>2. x.freed = c.freed
    BY <1>1, <1>2, <1>3, <2>1, RespondedGood
  <2>3. QED
    BY <1>1, <2>2
<1>7. Whole(x, e)
  BY <1>1, <1>3, <1>4, RespondedWhole
<1>8. session' = [session EXCEPT ![s] = x]
  OBVIOUS
<1> HIDE DEF x, c, d
<1>9. QED
  BY <1>1, <1>5, <1>6, <1>7, <1>8, OneWhole

(* All of a request is read at once.                                         *)
LEMMA OnWholeRequestWhole ==
  ASSUME SInv, WInv, TypeOK', NEW s \in DOMAIN session, NEW n \in 0 .. 3, NEW fails \in BOOLEAN,
         OnWholeRequest(s, n, fails)
  PROVE  WInv'
<1> DEFINE c == session[s]
           d == client[s]
           i == d.line[1].of
           r == d.requests[i]
           k == IF r.body THEN 2 ELSE 1
           e == [d EXCEPT !.line = SubSeq(@, k + 1, Len(@))]
<1>1. MayRead(s) /\ c.header = 0
  BY ZenonT(30) DEF OnWholeRequest
<1>2. /\ k <= Len(d.line) /\ Network(s, Len(Pieces(i, r)), n, fails)
      /\ session' = [session EXCEPT ![s] = Responded(c, i, r, n, fails)]
      /\ client' = [client EXCEPT ![s] = e] /\ UNCHANGED batch
  BY ZenonT(40) DEF OnWholeRequest, Read
<1>3. /\ d \in ClientRecord /\ Line(d) /\ Len(d.line) \in Nat /\ i \in 1 .. Len(d.requests)
  BY <1>1, FirstPart
<1>4. /\ PartsInOrder(d) /\ Coming(d)[1] = d.line[1]
      /\ \A j \in 1 .. Len(d.line) : Coming(d)[j + 1] = After(d.requests, Coming(d)[j])
      /\ \/ c.hasty \/ c.disconnect
         \/ d.line[1].is = "header" /\ EndsWith(d.requests, Sending(c), i - 1)
  BY <1>1, ReadPlaced
<1>5. k \in {1, 2} /\ (r.body => k = 2) /\ (~r.body => k = 1)
  OBVIOUS
<1> HIDE DEF k
<1>6. k \in 1 .. Len(d.line) /\ 1 \in 1 .. Len(d.line)
  <2> HIDE DEF r, i, d
  <2>1. QED
    BY <1>2, <1>3, <1>5
<1>7. /\ e \in ClientRecord /\ PartsInOrder(e) /\ Coming(e)[1] = Coming(d)[k + 1]
      /\ e.requests = d.requests
  BY <1>3, <1>4, <1>6, ReadType, PartsRead
<1> HIDE DEF e
<1>8. ASSUME d.line[1].is = "header" PROVE Coming(e)[1] = [of |-> i + 1, is |-> "header"]
  <2>1. Coming(d)[2] = After(d.requests, d.line[1])
    <3>1. 1 + 1 = 2
      OBVIOUS
    <3>2. QED
      BY <1>4, <1>6, <3>1
  <2>2. CASE ~r.body
    <3>1. Coming(d)[2] = [of |-> i + 1, is |-> "header"]
      BY <2>1, <2>2 DEF After
    <3>2. k + 1 = 2
      BY <1>5, <2>2
    <3>3. QED
      BY <1>7, <3>1, <3>2
  <2>3. CASE r.body
    <3>1. Coming(d)[2] = [of |-> i, is |-> "body"]
      BY <1>8, <2>1, <2>3 DEF After
    <3>2. k = 2 /\ 2 + 1 = 3 /\ 2 \in 1 .. Len(d.line)
      BY <1>5, <1>6, <2>3
    <3>3. Coming(d)[3] = After(d.requests, Coming(d)[2])
      BY <1>4, <3>2
    <3>4. Coming(d)[3] = [of |-> i + 1, is |-> "header"]
      BY <3>1, <3>3 DEF After
    <3>5. QED
      BY <1>7, <3>2, <3>4
  <2>4. QED
    BY <2>2, <2>3
<1>9. c.hasty \/ c.disconnect \/
        /\ EndsWith(d.requests, Sending(c), i - 1)
        /\ Coming(e)[1] = [of |-> i + 1, is |-> "header"]
  BY <1>4, <1>8
<1> HIDE DEF i
<1>10. QED
  BY <1>1, <1>2, <1>3, <1>7, <1>9, RespondedStep

(* The rest of a request is read.                                             *)
LEMMA OnBodyWhole ==
  ASSUME SInv, WInv, TypeOK', NEW s \in DOMAIN session, NEW n \in 0 .. 3, NEW fails \in BOOLEAN,
         OnBody(s, n, fails)
  PROVE  WInv'
<1> DEFINE c == session[s]
           d == client[s]
           i == c.header
           r == d.requests[i]
           e == [d EXCEPT !.line = SubSeq(@, 1 + 1, Len(@))]
<1>1. MayRead(s) /\ i # 0 /\ d.line[1] = [of |-> i, is |-> "body"]
  BY ZenonT(30) DEF OnBody
<1>2. /\ Network(s, Len(Pieces(i, r)), n, fails)
      /\ session' = [session EXCEPT ![s] = Responded(c, i, r, n, fails)]
      /\ client' = [client EXCEPT ![s] = e] /\ UNCHANGED batch
  BY ZenonT(40) DEF OnBody, Read
<1>3. d \in ClientRecord /\ Line(d) /\ Len(d.line) \in Nat /\ i \in 1 .. Len(d.requests)
  <2>1. d.line[1].of = i
    BY <1>1
  <2> HIDE DEF i
  <2>2. QED
    BY <1>1, <2>1, FirstPart
<1>4. /\ PartsInOrder(d) /\ Coming(d)[1] = d.line[1] /\ 1 \in 1 .. Len(d.line)
      /\ \A j \in 1 .. Len(d.line) : Coming(d)[j + 1] = After(d.requests, Coming(d)[j])
      /\ \/ c.hasty \/ c.disconnect
         \/ EndsWith(d.requests, Sending(c), i - 1)
         \/ Sending(c) # <<>> /\ Last(Sending(c)) = [of |-> i, is |-> "100"]
  BY <1>1, ReadPlaced
<1>5. /\ e \in ClientRecord /\ PartsInOrder(e) /\ Coming(e)[1] = Coming(d)[1 + 1]
      /\ e.requests = d.requests
  BY <1>3, <1>4, ReadType, PartsRead
<1> HIDE DEF e
<1>6. Coming(e)[1] = [of |-> i + 1, is |-> "header"]
  <2>1. Coming(d)[1 + 1] = After(d.requests, [of |-> i, is |-> "body"])
    BY <1>1, <1>4
  <2> HIDE DEF i, d
  <2>2. QED
    BY <1>5, <2>1 DEF After
<1>7. c.hasty \/ c.disconnect \/
        /\ \/ EndsWith(d.requests, Sending(c), i - 1)
           \/ Sending(c) # <<>> /\ Last(Sending(c)) = [of |-> i, is |-> "100"]
        /\ Coming(e)[1] = [of |-> i + 1, is |-> "header"]
  BY <1>4, <1>6
<1> HIDE DEF i
<1>8. QED
  BY <1>1, <1>2, <1>3, <1>5, <1>7, RespondedStep

(* The next request is taken for the rest of one: only of a session that was   *)
(* hasty or is to be disconnected.                                           *)
LEMMA OnMisreadWhole ==
  ASSUME SInv, WInv, TypeOK', NEW s \in DOMAIN session, NEW n \in 0 .. 3, NEW fails \in BOOLEAN,
         OnMisread(s, n, fails)
  PROVE  WInv'
<1> DEFINE c == session[s]
           d == client[s]
           i == c.header
           r == d.requests[i]
<1>1. MayRead(s) /\ i # 0 /\ d.line[1] = [of |-> i + 1, is |-> "header"]
  BY ZenonT(30) DEF OnMisread
<1>2. /\ Network(s, Len(Pieces(i, r)), n, fails)
      /\ session' = [session EXCEPT ![s] = Responded(c, i, r, n, fails)]
      /\ client' = client /\ UNCHANGED batch
  BY ZenonT(40) DEF OnMisread
<1>3. /\ d \in ClientRecord /\ Len(d.requests) \in Nat /\ i + 1 \in 1 .. Len(d.requests)
      /\ i \in 0 .. MaxRequest
  <2>1. d.line[1].of = i + 1
    BY <1>1
  <2>2. i \in 0 .. MaxRequest
    BY Domains DEF SInv, SessionRecord
  <2> HIDE DEF i
  <2>3. QED
    BY <1>1, <2>1, <2>2, FirstPart
<1>4. i \in 1 .. Len(d.requests)
  <2> HIDE DEF i, d
  <2>1. QED
    BY <1>1, <1>3, ServerAssumption
<1>5. c.hasty \/ c.disconnect
  <2>1. d.line[1].is = "header"
    BY <1>1
  <2>2. d.line[1] # [of |-> i, is |-> "body"]
    BY <2>1
  <2>3. QED
    BY <1>1, <2>2, ReadPlaced
<1>6. PartsInOrder(d)
  BY <1>1, ReadPlaced
<1>7. client' = [client EXCEPT ![s] = d]
  <2>1. client \in Seq(ClientRecord)
    BY DEF SInv, TypeOK
  <2>2. client \in [1 .. Len(client) -> ClientRecord]
    BY <2>1, LenProperties
  <2>3. QED
    BY <1>2, <2>2
<1> HIDE DEF i
<1>8. MayRead(s) /\ UNCHANGED batch /\ d \in ClientRecord /\ d.requests = client[s].requests
  BY <1>1, <1>2, <1>3
<1>9. QED
  BY ZenonT(40), <1>2, <1>4, <1>5, <1>6, <1>7, <1>8, RespondedStep

(* A header alone is read.                                                    *)
LEMMA OnHeaderWhole ==
  ASSUME SInv, WInv, TypeOK', NEW s \in DOMAIN session, NEW n \in 0 .. 3, NEW fails \in BOOLEAN,
         OnHeader(s, n, fails)
  PROVE  WInv'
<1> DEFINE c == session[s]
           d == client[s]
           i == d.line[1].of
           r == d.requests[i]
           b == HeaderRead(c, i)
           a == Continued(c, i, n, fails)
           f == NotContinued(c, i, n, fails)
           e == [d EXCEPT !.line = SubSeq(@, 1 + 1, Len(@))]
           left == [NewClient EXCEPT !.gone = TRUE]
<1>1. MayRead(s) /\ c.header = 0 /\ r.body /\ UNCHANGED batch
  BY ZenonT(40) DEF OnHeader
<1>2. /\ IF ~Expecting(c, r) THEN n = 0 /\ ~fails ELSE Network(s, 1, n, fails)
      /\ session' = CASE ~Expecting(c, r) -> [session EXCEPT ![s] = b]
            [] Expecting(c, r) /\ r.Expect = "100-Continue" -> [session EXCEPT ![s] = a]
            [] Expecting(c, r) /\ r.Expect = "other" ->
                 Disconnected(s, [session EXCEPT ![s] = f])
      /\ IF Expecting(c, r) /\ r.Expect = "other" THEN Gone(s) ELSE Read(s, 1)
  <2> HIDE DEF e, left
  <2>1. IF ~Expecting(c, r) THEN n = 0 /\ ~fails ELSE Network(s, 1, n, fails)
    BY DEF OnHeader
  <2>2. session' = CASE ~Expecting(c, r) -> [session EXCEPT ![s] = b]
            [] Expecting(c, r) /\ r.Expect = "100-Continue" -> [session EXCEPT ![s] = a]
            [] Expecting(c, r) /\ r.Expect = "other" ->
                 Disconnected(s, [session EXCEPT ![s] = f])
    BY DEF OnHeader, HeaderRead, Continued, NotContinued
  <2>3. IF Expecting(c, r) /\ r.Expect = "other" THEN Gone(s) ELSE Read(s, 1)
    BY DEF OnHeader
  <2>4. QED
    BY <2>1, <2>2, <2>3
<1>3. /\ d \in ClientRecord /\ Line(d) /\ Len(d.line) \in Nat /\ i \in 1 .. Len(d.requests)
      /\ i \in 1 .. MaxRequest /\ r \in Request
      /\ Live(s) /\ batch = <<>> /\ c \in SessionRecord /\ Good(c, d.gone)
      /\ d.gone \in BOOLEAN /\ ~c.PAUSE
  BY <1>1, FirstPart DEF MayRead
<1>4. /\ PartsInOrder(d) /\ Coming(d)[1] = d.line[1] /\ 1 \in 1 .. Len(d.line)
      /\ Coming(d)[1 + 1] = After(d.requests, Coming(d)[1])
      /\ Whole(c, d)
      /\ \/ c.hasty \/ c.disconnect
         \/ d.line[1].is = "header" /\ EndsWith(d.requests, Sending(c), i - 1)
  <2>1. \A m \in Nat \ {0} : 1 \in 1 .. m
    OBVIOUS
  <2>2. QED
    BY <1>1, <2>1, ReadPlaced
<1>5. /\ e \in ClientRecord /\ Line(e) /\ PartsInOrder(e) /\ Coming(e)[1] = Coming(d)[1 + 1]
      /\ e.requests = d.requests
  BY <1>3, <1>4, ReadType, PartsRead
<1>6. Read(s, 1) => client' = [client EXCEPT ![s] = e]
  BY DEF Read
<1>7. Gone(s) => client' = [client EXCEPT ![s] = left]
  BY DEF Gone
<1>8. left \in ClientRecord /\ PartsInOrder(left)
  <2>1. left.line = <<>> /\ Len(<<>>) = 0
    BY DEF NewClient
  <2>2. QED
    BY <2>1, NewClientType DEF PartsInOrder
<1>9. d.line[1].is = "header" => Coming(e)[1] = [of |-> i, is |-> "body"]
  BY <1>1, <1>4, <1>5 DEF After
<1> HIDE DEF e, left
<1>10. c.hasty \/ c.disconnect \/
         /\ EndsWith(d.requests, Sending(c), i - 1)
         /\ Coming(e)[1] = [of |-> i, is |-> "body"]
  BY <1>4, <1>9
<1>11. n \in 0 .. 1
  <2>1. Network(s, 1, n, fails) => n <= 1
    BY DEF Network
  <2> HIDE DEF i, r, c
  <2>2. n = 0 \/ n <= 1
    BY <1>2, <2>1
  <2>3. QED
    BY <2>2
<1> HIDE DEF i, r
<1>12. /\ Whole(b, e)
       /\ (fails => c.pending = <<>> /\ n = 0) /\ (c.disconnect => fails) => Whole(a, e)
  BY <1>1, <1>3, <1>4, <1>5, <1>10, <1>11, HeaderWhole
<1>13. /\ b \in SessionRecord /\ b.freed = c.freed /\ a \in SessionRecord /\ a.freed = c.freed
       /\ f \in SessionRecord /\ f.socket = c.socket
  BY <1>1, <1>3, <1>11, HeaderGood
<1>14. ~c.freed
  BY <1>3 DEF Live
<1>15. r.Expect \in {"none", "100-Continue", "other"}
  BY <1>3, ServerAssumption
<1> HIDE DEF a, b, f
<1>16. CASE ~Expecting(c, r)
  <2>1. session' = [session EXCEPT ![s] = b] /\ client' = [client EXCEPT ![s] = e]
    BY <1>2, <1>6, <1>16
  <2>2. QED
    BY <1>1, <1>3, <1>5, <1>12, <1>13, <1>14, <2>1, OneWhole
<1>17. CASE Expecting(c, r) /\ r.Expect = "100-Continue"
  <2>1. session' = [session EXCEPT ![s] = a] /\ client' = [client EXCEPT ![s] = e]
    BY <1>2, <1>6, <1>17
  <2>2. (fails => c.pending = <<>> /\ n = 0) /\ (c.disconnect => fails)
    <3>1. Network(s, 1, n, fails)
      BY <1>2, <1>17
    <3>2. QED
      BY <1>11, <3>1 DEF Network
  <2>3. QED
    BY <1>1, <1>3, <1>5, <1>12, <1>13, <1>14, <2>1, <2>2, OneWhole
<1>18. CASE Expecting(c, r) /\ r.Expect = "other"
  <2>1. session' = Disconnected(s, [session EXCEPT ![s] = f])
    BY <1>2, <1>18
  <2>2. session' = [session EXCEPT ![s] = Freed(f)]
    BY <1>3, <1>13, <2>1, OnlyOne DEF SInv
  <2>3. client' = [client EXCEPT ![s] = left]
    BY <1>2, <1>7, <1>18
  <2>4. Freed(f) \in SessionRecord /\ Freed(f).freed
    BY <1>13, FreedType
  <2>5. Freed(f).wire = <<>> /\ Freed(f).pending = <<>>
    BY DEF Freed, NewSession
  <2>6. QED
    BY <1>1, <1>3, <1>8, <2>2, <2>3, <2>4, <2>5, OneWhole
<1>19. QED
  BY <1>15, <1>16, <1>17, <1>18 DEF Expecting

(* Nothing is sent to a client whose connection has ended or begins, and      *)
(* nothing comes from it yet.                                                *)
LEMMA NothingSent ==
  /\ \A c : Freed(c).wire = <<>> /\ Freed(c).pending = <<>> /\ Freed(c).freed
  /\ PartsInOrder(NewClient) /\ PartsInOrder([NewClient EXCEPT !.gone = TRUE])
  /\ \A k : Whole(NewSession(k), NewClient)
<1>1. \A c : Freed(c).wire = <<>> /\ Freed(c).pending = <<>> /\ Freed(c).freed
  BY DEF Freed, NewSession
<1>2. Len(<<>>) = 0
  OBVIOUS
<1>3. ASSUME NEW d, d.line = <<>> PROVE PartsInOrder(d)
  BY <1>2, <1>3 DEF PartsInOrder
<1>4. PartsInOrder(NewClient) /\ PartsInOrder([NewClient EXCEPT !.gone = TRUE])
  BY <1>3 DEF NewClient
<1>5. ASSUME NEW k PROVE Whole(NewSession(k), NewClient)
  <2> DEFINE c == NewSession(k)
             p == Coming(NewClient)[1]
  <2>1. /\ c.wire = <<>> /\ c.pending = <<>> /\ c.header = 0
    BY DEF NewSession
  <2>2. Sending(c) = <<>>
    <3> HIDE DEF c
    <3>1. <<>> \o <<>> = <<>>
      OBVIOUS
    <3>2. QED
      BY <2>1, <3>1 DEF Sending
  <2>3. p = [of |-> 1, is |-> "header"]
    <3>1. NewClient.requests = <<>> /\ NewClient.line = <<>> /\ NewClient.body = FALSE
      BY DEF NewClient
    <3>2. NextSent(NewClient) = [of |-> 1, is |-> "header"]
      BY <1>2, <3>1 DEF NextSent
    <3>3. Append(<<>>, NextSent(NewClient))[1] = NextSent(NewClient)
      OBVIOUS
    <3>4. QED
      BY <3>1, <3>2, <3>3 DEF Coming
  <2>4. InOrder(NewClient.requests, <<>>)
    BY <1>2 DEF InOrder
  <2> HIDE DEF c, p
  <2>5. p.is = "header" /\ p.of - 1 = 0
    BY <2>3
  <2>6. EndsWith(NewClient.requests, <<>>, p.of - 1)
    BY <2>5 DEF EndsWith
  <2>7. Placed(c, NewClient)
    BY <2>1, <2>2, <2>5, <2>6 DEF Placed, p
  <2>8. Whole(c, NewClient)
    BY <2>2, <2>4, <2>7 DEF Whole
  <2>9. QED
    BY <2>8 DEF c
<1>6. QED
  BY <1>1, <1>4, <1>5

(* The network takes what is pending.                                        *)
LEMMA TakeWhole ==
  ASSUME SInv, WInv, TypeOK', NEW s \in DOMAIN session, Take(s) \/ TakeFails(s) PROVE WInv'
<1> DEFINE c == session[s]
           d == client[s]
<1>1. Live(s) /\ batch = <<>> /\ UNCHANGED <<client, batch>>
  BY DEF Take, TakeFails, Ready
<1>2. /\ c \in SessionRecord /\ ~c.freed /\ Good(c, d.gone) /\ d \in ClientRecord
      /\ d.gone \in BOOLEAN /\ c.pending \in Seq(Piece) /\ DOMAIN client = DOMAIN session
  BY <1>1, Domains, NothingTaken DEF SInv, GoodInv, Live, ClientRecord, SessionRecord
<1>3. Whole(c, d) /\ PartsInOrder(d)
  BY <1>1, <1>2, NothingTaken DEF SInv, WInv
<1>4. client' = [client EXCEPT ![s] = d]
  <2>1. client \in [1 .. Len(client) -> ClientRecord]
    BY LenProperties DEF SInv, TypeOK
  <2>2. QED
    BY <1>1, <2>1
<1>5. CASE Take(s)
  <2> DEFINE r == d.requests[c.header]
             t(n) == Taken(c, n)
             a(n) == IF n = Len(c.pending) /\ c.header # 0 THEN SendOK(t(n), r) ELSE t(n)
  <2>1. PICK n \in 1 .. Len(c.pending) : session' = [session EXCEPT ![s] = a(n)]
    BY <1>5 DEF Take
  <2>2. c.pending # <<>>
    <3>1. Len(c.pending) # 0
      BY <1>2
    <3>2. QED
      BY <3>1
  <2>3. a(n) \in SessionRecord /\ a(n).freed = c.freed
    BY <1>2, <2>2, TakenGood
  <2>4. Whole(a(n), d)
    BY <1>2, <1>3, <2>2, TakenWhole
  <2> HIDE DEF a, c, d
  <2>5. QED
    BY <1>1, <1>2, <1>3, <1>4, <2>1, <2>3, <2>4, OneWhole
<1>6. CASE TakeFails(s)
  <2> DEFINE a == [c EXCEPT !.pending = <<>>, !.disconnect = TRUE]
  <2>1. c.pending # <<>> /\ Good(c, TRUE)
    BY <1>2, <1>6 DEF TakeFails
  <2>2. session' = [session EXCEPT ![s] = a]
    BY <1>6 DEF TakeFails
  <2> HIDE DEF c, d
  <2>3. a \in SessionRecord /\ a.freed = c.freed
    BY Zenon, <1>2, <2>1, BrokenGood
  <2>4. Whole(a, d)
    BY Zenon, <1>2, <1>3, BrokenWhole
  <2> HIDE DEF a
  <2>5. QED
    BY <1>1, <1>2, <1>3, <1>4, <2>2, <2>3, <2>4, OneWhole
<1>7. QED
  BY <1>5, <1>6

(* The client ends the connection. *)
LEMMA PeerClosesWhole ==
  ASSUME SInv, WInv, TypeOK', NEW s \in DOMAIN session, PeerCloses(s) PROVE WInv'
<1> DEFINE c == Freed(session[s])
           d == [NewClient EXCEPT !.gone = TRUE]
<1>1. Live(s) /\ batch = <<>> /\ session[s] \in SessionRecord /\ UNCHANGED batch
  BY Domains DEF PeerCloses, Ready, SInv
<1>2. session' = [session EXCEPT ![s] = c]
  <2>1. session = [session EXCEPT ![s] = session[s]]
    <3>1. session \in [1 .. Len(session) -> SessionRecord]
      BY LenProperties DEF SInv, TypeOK
    <3>2. QED
      BY <3>1
  <2>2. session' = Disconnected(s, [session EXCEPT ![s] = session[s]])
    BY <2>1 DEF PeerCloses
  <2>3. QED
    BY <1>1, <2>2, OnlyOne DEF SInv
<1>3. client' = [client EXCEPT ![s] = d]
  BY DEF PeerCloses, Gone
<1>4. d \in ClientRecord /\ PartsInOrder(d) /\ c \in SessionRecord
  BY <1>1, NewClientType, NothingSent, FreedType
<1>5. c.freed /\ c.wire = <<>> /\ c.pending = <<>>
  BY NothingSent
<1> HIDE DEF c, d
<1>6. QED
  BY <1>1, <1>2, <1>3, <1>4, <1>5, OneWhole

(* Nothing has been sent on a new connection.                                *)
LEMMA AcceptWhole ==
  ASSUME SInv, WInv, TypeOK', NEW n \in Socket, Accept(n) PROVE WInv'
<1> DEFINE m == Len(session)
<1>1. batch = <<>> /\ UNCHANGED batch /\ TypeOK
  BY DEF Accept, Ready, SInv
<1>2. /\ DOMAIN session = 1 .. m /\ DOMAIN session' = 1 .. m + n
      /\ DOMAIN client = 1 .. m /\ DOMAIN client' = 1 .. m + n
  BY <1>1, Accepted
<1>3. ASSUME NEW u \in 1 .. m + n
      PROVE  \/ u \in 1 .. m /\ session'[u] = session[u] /\ client'[u] = client[u]
             \/ \E k : session'[u] = NewSession(k) /\ client'[u] = NewClient
  <2>1. PICK f : \A x \in 1 .. m + n :
          \/ x \in 1 .. m /\ session'[x] = session[x] /\ client'[x] = client[x]
          \/ /\ x \notin 1 .. m /\ x - m \in 1 .. n
             /\ session'[x] = NewSession(f[x - m]) /\ client'[x] = NewClient
    BY <1>1, Accepted
  <2> HIDE DEF m
  <2>2. QED
    BY <2>1
<1> HIDE DEF m
<1>4. /\ \A u \in DOMAIN session : Before(u) = session[u]
      /\ \A u \in DOMAIN session' : Before(u)' = session'[u]
  <2>1. ToSet(batch') = {}
    BY <1>1, NothingTaken
  <2>2. ASSUME NEW u \in DOMAIN session' PROVE Before(u)' = session'[u]
    <3>1. session'[u] \in SessionRecord
      <4>1. session' \in Seq(SessionRecord)
        BY DEF TypeOK
      <4>2. QED
        BY <4>1, LenProperties, ElementOfSeq
    <3>2. QED
      BY <2>1, <3>1 DEF Before, SessionRecord
  <2>3. QED
    BY <1>1, <2>2, NothingTaken
<1>5. ASSUME NEW u \in 1 .. m + n PROVE PartsInOrder(client'[u])
  BY <1>2, <1>3, NothingSent DEF WInv
<1>6. ASSUME NEW u \in 1 .. m + n
      PROVE  IF session'[u].freed THEN session'[u].wire = <<>> /\ session'[u].pending = <<>>
             ELSE Whole(session'[u], client'[u])
  <2>1. CASE u \in 1 .. m /\ session'[u] = session[u] /\ client'[u] = client[u]
    BY <1>2, <1>4, <2>1 DEF WInv
  <2>2. ASSUME NEW k, session'[u] = NewSession(k), client'[u] = NewClient
        PROVE  ~session'[u].freed /\ Whole(session'[u], client'[u])
    <3>1. ~NewSession(k).freed
      BY DEF NewSession
    <3>2. QED
      BY <2>2, <3>1, NothingSent
  <2>3. QED
    BY <1>3, <2>1, <2>2
<1>7. QED
  BY <1>2, <1>4, <1>5, <1>6 DEF WInv

(* The chain is stopped. *)
LEMMA InterruptWhole ==
  ASSUME SInv, WInv, Interrupt PROVE WInv'
<1>1. /\ DOMAIN session' = DOMAIN session /\ DOMAIN client' = DOMAIN client
      /\ \A s \in DOMAIN session : session'[s] = Freed(session[s])
      /\ \A s \in DOMAIN client : client'[s] = [NewClient EXCEPT !.gone = TRUE]
  BY DEF Interrupt
<1>2. \A s \in DOMAIN client' : PartsInOrder(client'[s])
  BY <1>1, NothingSent
<1>3. \A s \in DOMAIN session' :
        session'[s].freed /\ session'[s].wire = <<>> /\ session'[s].pending = <<>>
  BY <1>1, NothingSent
<1>4. QED
  BY <1>2, <1>3 DEF WInv

(* The timer takes out what is due. *)
LEMMA CheckWhole ==
  ASSUME SInv, WInv, NEW due \in SUBSET Timers, Check(due) PROVE WInv'
<1>1. UNCHANGED client /\ \A s \in DOMAIN session : Before(s) = session[s]
  BY NothingTaken DEF Check, Ready, SInv
<1>2. /\ DOMAIN session' = DOMAIN session
      /\ \A s \in DOMAIN session :
           /\ session'[s].freed = session[s].freed /\ session'[s].wire = session[s].wire
           /\ session'[s].pending = session[s].pending
           /\ ~session[s].freed => Before(s)' = session[s]
  BY Checked
<1>3. \A s \in DOMAIN client' : PartsInOrder(client'[s])
  BY <1>1 DEF WInv
<1>4. ASSUME NEW s \in DOMAIN session'
      PROVE  IF session'[s].freed THEN session'[s].wire = <<>> /\ session'[s].pending = <<>>
             ELSE Whole(Before(s)', client'[s])
  BY <1>1, <1>2 DEF WInv
<1>5. QED
  BY <1>3, <1>4 DEF WInv

(* A timer disconnects a session; the others stay as they were.                *)
LEMMA TimerFreesWhole ==
  ASSUME SInv, WInv, batch # <<>>, batch' = Tail(batch), NEW s \in DOMAIN session, Live(s),
         session' = Disconnected(s, session), Gone(s),
         Head(batch) = IdleEvent(s) \/ Head(batch) = DisconnectEvent(session[s].socket)
  PROVE  WInv'
<1> DEFINE c == Freed(session[s])
           d == [NewClient EXCEPT !.gone = TRUE]
<1>1. TypeOK /\ BatchInv /\ session[s] \in SessionRecord
  BY Domains DEF SInv
<1>2. session' = [session EXCEPT ![s] = c]
  <2>1. session = [session EXCEPT ![s] = session[s]]
    <3>1. session \in [1 .. Len(session) -> SessionRecord]
      BY <1>1, LenProperties DEF TypeOK
    <3>2. QED
      BY <3>1
  <2>2. session' = Disconnected(s, [session EXCEPT ![s] = session[s]])
    BY <2>1
  <2>3. QED
    BY <1>1, <2>2, OnlyOne DEF SInv
<1>3. client' = [client EXCEPT ![s] = d]
  BY DEF Gone
<1>4. c.freed /\ c.wire = <<>> /\ c.pending = <<>> /\ PartsInOrder(d)
  BY NothingSent
<1> HIDE DEF c, d
<1>5. /\ DOMAIN session' = DOMAIN session /\ DOMAIN client' = DOMAIN client
      /\ DOMAIN client = DOMAIN session
      /\ session'[s] = c /\ client'[s] = d
      /\ \A u \in DOMAIN session : u # s => session'[u] = session[u] /\ client'[u] = client[u]
  BY <1>1, <1>2, <1>3, Domains
<1>6. \A u \in DOMAIN client' : PartsInOrder(client'[u])
  BY <1>4, <1>5 DEF WInv
<1>7. ASSUME NEW u \in DOMAIN session, u # s, Live(u) PROVE Before(u)' = Before(u)
  <2>1. session[u].socket # session[s].socket
    BY <1>7 DEF SInv, OneSession
  <2>2. Head(batch) # IdleEvent(u) /\ Head(batch) # DisconnectEvent(session[u].socket)
    BY <1>7, <2>1 DEF IdleEvent, DisconnectEvent
  <2>3. QED
    BY <1>1, <1>5, <1>7, <2>2, BeforeStays
<1>8. ASSUME NEW u \in DOMAIN session'
      PROVE  IF session'[u].freed THEN session'[u].wire = <<>> /\ session'[u].pending = <<>>
             ELSE Whole(Before(u)', client'[u])
  <2>1. CASE u = s
    BY <1>4, <1>5, <2>1
  <2>2. CASE u # s
    BY <1>5, <1>7, <2>2 DEF WInv, Live
  <2>3. QED
    BY <2>1, <2>2
<1>9. QED
  BY <1>6, <1>8 DEF WInv

(* A timer is called that is about no session.                               *)
LEMMA TimerPassesWhole ==
  ASSUME SInv, WInv, batch # <<>>, batch' = Tail(batch), UNCHANGED <<session, client>>,
         \A u \in DOMAIN session : Live(u) =>
           Head(batch) # IdleEvent(u) /\ Head(batch) # DisconnectEvent(session[u].socket)
  PROVE  WInv'
<1>1. ASSUME NEW u \in DOMAIN session, Live(u) PROVE Before(u)' = Before(u)
  BY <1>1, BeforeStays DEF SInv
<1>2. QED
  BY <1>1 DEF WInv, Live

(* What the timers call. *)
LEMMA TimersWhole ==
  ASSUME SInv, WInv, IdleSink \/ TimerDisconnect PROVE WInv'
<1> DEFINE k == Head(batch).data
<1>1. batch # <<>> /\ batch' = Tail(batch)
  BY DEF IdleSink, TimerDisconnect, Calls
<1>2. Head(batch) \in Event /\ Head(batch) \in ToSet(batch)
  BY <1>1, Called DEF SInv
<1>3. CASE IdleSink
  <2>1. /\ Head(batch).callback = "IdleSink"
        /\ IF session[k].freed THEN UNCHANGED <<session, client>>
           ELSE session' = Disconnected(k, session) /\ Gone(k)
    BY <1>3 DEF IdleSink, Calls
  <2>2. Head(batch) = IdleEvent(k) /\ k \in Session
    BY <1>2, <2>1 DEF Event, IdleEvent
  <2>3. k \in DOMAIN session
    BY <1>2, <2>2 DEF SInv, BatchInv
  <2> HIDE DEF k
  <2>4. CASE session[k].freed
    <3>1. UNCHANGED <<session, client>>
      BY <2>1, <2>4
    <3>2. ASSUME NEW u \in DOMAIN session, Live(u)
          PROVE  Head(batch) # IdleEvent(u) /\ Head(batch) # DisconnectEvent(session[u].socket)
      BY <2>2, <2>4, <3>2 DEF IdleEvent, DisconnectEvent, Live
    <3>3. QED
      BY <1>1, <3>1, <3>2, TimerPassesWhole
  <2>5. CASE ~session[k].freed
    <3>1. Live(k) /\ session' = Disconnected(k, session) /\ Gone(k)
      BY <2>1, <2>3, <2>5 DEF Live
    <3>2. QED
      BY <1>1, <2>2, <2>3, <3>1, TimerFreesWhole
  <2>6. QED
    BY <2>4, <2>5
<1>4. CASE TimerDisconnect
  <2>1. /\ Head(batch).callback = "Disconnect"
        /\ \/ IsFree(k) /\ UNCHANGED <<session, client>>
           \/ \E s \in DOMAIN session : /\ Live(s) /\ session[s].socket = k
                                        /\ session' = Disconnected(s, session) /\ Gone(s)
    BY <1>4 DEF TimerDisconnect, Calls
  <2>2. Head(batch) = DisconnectEvent(k)
    BY <1>2, <2>1 DEF Event, DisconnectEvent
  <2> HIDE DEF k
  <2>3. CASE IsFree(k) /\ UNCHANGED <<session, client>>
    <3>1. ASSUME NEW u \in DOMAIN session, Live(u)
          PROVE  Head(batch) # IdleEvent(u) /\ Head(batch) # DisconnectEvent(session[u].socket)
      BY <2>2, <2>3, <3>1 DEF IdleEvent, DisconnectEvent, Live, IsFree
    <3>2. QED
      BY <1>1, <2>3, <3>1, TimerPassesWhole
  <2>4. ASSUME NEW s \in DOMAIN session, Live(s), session[s].socket = k,
               session' = Disconnected(s, session), Gone(s)
        PROVE  WInv'
    BY <1>1, <2>2, <2>4, TimerFreesWhole
  <2>5. QED
    BY <2>1, <2>3, <2>4
<1>5. QED
  BY <1>3, <1>4

(* Nothing has been sent yet, and every step keeps the answers whole.          *)
LEMMA WholeInit == Init => WInv
BY DEF Init, WInv

(* Every step keeps the answers whole.                                       *)
LEMMA StepKeepsWhole == SInv /\ WInv /\ [Next]_vars => WInv'
<1> SUFFICES ASSUME SInv, WInv, [Next]_vars PROVE WInv'
  OBVIOUS
<1>1. SInv' /\ TypeOK'
  BY StepKeeps DEF SInv
<1>2. ASSUME NEW s \in DOMAIN session,
             SendBody(s) \/ Leave(s) \/ \E r \in Request : SendHeader(s, r)
      PROVE  WInv'
  BY Zenon, <1>1, <1>2, ClientsSend
<1>3. ASSUME NEW s \in DOMAIN session, PeerCloses(s) PROVE WInv'
  BY <1>1, <1>3, PeerClosesWhole
<1>4. ASSUME NEW s \in DOMAIN session, NEW n \in 0 .. 3, NEW fails \in BOOLEAN,
             \/ OnWholeRequest(s, n, fails)
             \/ OnHeader(s, n, fails)
             \/ OnBody(s, n, fails)
             \/ OnMisread(s, n, fails)
      PROVE  WInv'
  BY <1>1, <1>4, OnWholeRequestWhole, OnHeaderWhole, OnBodyWhole, OnMisreadWhole
<1>5. ASSUME NEW s \in DOMAIN session, Take(s) \/ TakeFails(s) PROVE WInv'
  BY <1>1, <1>5, TakeWhole
<1>6. ASSUME NEW n \in Socket, Accept(n) PROVE WInv'
  BY <1>1, <1>6, AcceptWhole
<1>7. ASSUME NEW due \in SUBSET Timers, Check(due) PROVE WInv'
  BY <1>7, CheckWhole
<1>8. CASE IdleSink \/ TimerDisconnect
  BY <1>8, TimersWhole
<1>9. CASE Interrupt
  BY <1>9, InterruptWhole
<1>10. CASE UNCHANGED vars
  <2>1. UNCHANGED <<session, client, batch>>
    BY <1>10 DEF vars
  <2>2. \A s : Before(s)' = Before(s)
    BY <2>1 DEF Before, IdleEvent, DisconnectEvent
  <2>3. QED
    BY <2>1, <2>2 DEF WInv
<1>11. QED
  BY <1>2, <1>3, <1>4, <1>5, <1>6, <1>7, <1>8, <1>9, <1>10 DEF Next

(* What is read next of each client goes with what was sent last to it, in    *)
(* every state (UPnPProcessHTTPPacket, ILibWebServer_OnResponse and OnSendOK  *)
(* keep reading and answering in step).                                      *)
THEOREM WholeInductive == Spec => []WInv
<1>1. Spec => []SInv
  BY SInductive
<1>2. QED
  BY <1>1, WholeInit, StepKeepsWhole, PTL DEF Spec

(* What a client gets are the answers to its requests, each one whole, in     *)
(* their order, none twice and with nothing in between, however the network   *)
(* cuts them up, as long as no request was done with before its answer was.   *)
THEOREM AnswersInOrder == Spec => []AnswersWhole
<1>1. ASSUME SInv, WInv, NEW s \in DOMAIN session
      PROVE  session[s].hasty \/ InOrder(client[s].requests, Sending(session[s]))
  <2>1. CASE session[s].freed
    <3>1. Sending(session[s]) = <<>>
      <4>1. session[s].wire = <<>> /\ session[s].pending = <<>>
        BY <1>1, <2>1 DEF WInv
      <4>2. <<>> \o <<>> = <<>>
        OBVIOUS
      <4>3. QED
        BY <4>1, <4>2 DEF Sending
    <3>2. Len(<<>>) = 0
      OBVIOUS
    <3>3. QED
      BY <3>1, <3>2 DEF InOrder
  <2>2. CASE ~session[s].freed
    <3>1. Whole(Before(s), client[s]) /\ session[s] \in SessionRecord
      BY <1>1, <2>2, Domains DEF SInv, WInv
    <3>2. /\ Before(s).hasty = session[s].hasty /\ Before(s).wire = session[s].wire
          /\ Before(s).pending = session[s].pending
      BY <3>1 DEF Before, SessionRecord
    <3>3. QED
      BY <3>1, <3>2 DEF Whole, Sending
  <2>3. QED
    BY <2>1, <2>2
<1>2. SInv /\ WInv => AnswersWhole
  BY <1>1 DEF AnswersWhole, Sending
<1>3. QED
  BY <1>2, SInductive, WholeInductive, PTL
=============================================================================

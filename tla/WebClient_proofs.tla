-------------------------- MODULE WebClient_proofs --------------------------
(* Proofs about WebClient, for any addresses, requests and sizes of the pool  *)
(* and of the table of idle objects.                                        *)
EXTENDS WebClient, SequenceTheorems, FiniteSetTheorems, TLAPS

(* What the variables are.                                                  *)
Object == [SOCK : 0 .. PoolSize, Closing : BOOLEAN, InitialRequestAnswered : BOOLEAN,
           FinHeader : BOOLEAN, WaitForClose : BOOLEAN]

Socket == [state : {"free", "connecting", "connected"}, user : Address \cup {NULL},
           asked : Seq(Request), body : BOOLEAN]

TypeOK ==
  /\ DataTable \in SUBSET Address /\ idleTable \in SUBSET Address /\ idleCount \in Nat
  /\ wcdo \in [Address -> Object]
  /\ RequestQueue \in [Address -> Seq(Request)]
  /\ backlogQueue \in Seq(Address)
  /\ timers \in SUBSET Address /\ due \in SUBSET Address
  /\ socks \in [Sock -> Socket]
  /\ running \in BOOLEAN
  /\ issued \in [Address -> 0 .. MaxRequest]
  /\ outcome \in [Address -> [Request -> {"none", "answered", "failed", "lost", "twice"}]]
  /\ sent \in [Address -> [Request -> Nat]]
  /\ served \in [Address -> SUBSET Request]
  /\ cut \in SUBSET Address /\ left \in SUBSET Address

Waits(a) == a \in ToSet(backlogQueue)
HasSocket(a) == wcdo[a].SOCK # NULL
SocketOf(a) == socks[wcdo[a].SOCK]
Connecting(a) == HasSocket(a) /\ SocketOf(a).state = "connecting"

(* The requests of a queue are the last ones that were made.                 *)
Numbered(q, n) == Len(q) <= n /\ \A i \in 1 .. Len(q) : q[i] = n - Len(q) + i

(* How many requests to a have ended: the next number is under way, or is     *)
(* that of the next request.                                                *)
Gone(a) == issued[a] - Len(RequestQueue[a])

(* What was freed has nothing and is nowhere.                                *)
QueueOf(a) ==
  /\ Numbered(RequestQueue[a], issued[a])
  /\ a \notin DataTable => RequestQueue[a] = <<>> /\ wcdo[a] = NewObject
  /\ Waits(a) \/ a \in idleTable \cup timers \cup due => a \in DataTable

(* An object has a timer only while it has nothing to do, one, and is not     *)
(* idle then; a connecting one has something to do and no timer that could   *)
(* run out; only an object that was left is closing.                         *)
LinkOf(a) ==
  /\ RequestQueue[a] # <<>> => Waits(a) \/ HasSocket(a) \/ a \in left
  /\ Waits(a) => RequestQueue[a] # <<>> /\ ~HasSocket(a)
  /\ a \in idleTable => RequestQueue[a] = <<>> /\ ~HasSocket(a) /\ a \notin timers \cup due
  /\ a \in timers => RequestQueue[a] = <<>> /\ a \notin due
  /\ HasSocket(a) => /\ SocketOf(a).state # "free" /\ SocketOf(a).user = a
                     /\ wcdo[a].Closing => a \in left
  /\ Connecting(a) => RequestQueue[a] # <<>> /\ a \notin due

(* The header of an answer was read for a request that is still there.  Only  *)
(* an object whose answer was cut off meets a new connection with it.         *)
HeaderOf(a) ==
  /\ wcdo[a].FinHeader => RequestQueue[a] # <<>>
  /\ wcdo[a].WaitForClose => wcdo[a].FinHeader /\ HasSocket(a) /\ ~Connecting(a)
  /\ wcdo[a].FinHeader /\ (Waits(a) \/ Connecting(a)) => a \in cut
  /\ HasSocket(a) /\ SocketOf(a).body =>
       wcdo[a].FinHeader /\ ~wcdo[a].WaitForClose /\ ~Connecting(a)

(* No request was sent before its turn, and it was sent a second time only    *)
(* on a connection that was not used before.                                *)
SentOf(a) ==
  \A r \in Request :
    /\ r > Gone(a) + 1 => sent[a][r] = 0
    /\ r = Gone(a) + 1 =>
         /\ RequestQueue[a] = <<>> => sent[a][r] = 0
         /\ sent[a][r] <= 2
         /\ Waits(a) \/ Connecting(a) \/ (HasSocket(a) /\ wcdo[a].InitialRequestAnswered)
              => sent[a][r] <= 1

(* What is not over has no outcome.                                          *)
OutcomeOf(a) ==
  \A r \in Request :
    /\ outcome[a][r] = "none" <=> r > Gone(a)
    /\ outcome[a][r] # "twice"
    /\ outcome[a][r] = "lost" => r > 1 /\ outcome[a][r - 1] = "failed"

(* What a server has still to answer is the request under way, unless it has  *)
(* begun to.                                                                *)
AnswerOf(a) ==
  a \notin cut =>
    /\ wcdo[a].FinHeader => Gone(a) + 1 \in served[a]
    /\ \A r \in Request : outcome[a][r] = "answered" => r \in served[a]
    /\ HasSocket(a) /\ ~Connecting(a) =>
         SocketOf(a).asked = IF RequestQueue[a] = <<>> \/ wcdo[a].FinHeader THEN <<>>
                             ELSE <<Gone(a) + 1>>

ObjectInv(a) == QueueOf(a) /\ LinkOf(a) /\ HeaderOf(a) /\ SentOf(a) /\ OutcomeOf(a) /\ AnswerOf(a)

(* A socket that is not free belongs to one object.                          *)
UserOf(s) == socks[s].state # "free" => socks[s].user \in Address /\ wcdo[socks[s].user].SOCK = s

IInv == /\ TypeOK /\ IsInjective(backlogQueue)
        /\ \A a \in Address : ObjectInv(a)
        /\ \A s \in Sock : UserOf(s)
-----------------------------------------------------------------------------
(* Queues of numbered requests. *)

(* The first request of a queue is the number after those that have ended,    *)
(* and it holds all the numbers from there.                                  *)
LEMMA QueueFacts ==
  ASSUME NEW q \in Seq(Request), NEW n \in 0 .. MaxRequest, Numbered(q, n)
  PROVE  /\ Len(q) \in 0 .. n /\ (q = <<>> <=> Len(q) = 0)
         /\ q # <<>> => /\ Head(q) = n - Len(q) + 1 /\ Head(q) \in Request
                        /\ q[1] = Head(q)
         /\ ToSet(q) = {r \in Request : n - Len(q) < r /\ r <= n}
<1>1. MaxRequest \in Nat /\ n \in Nat /\ n <= MaxRequest
  BY WebClientAssumption
<1>2. Len(q) \in Nat /\ DOMAIN q = 1 .. Len(q) /\ (q = <<>> <=> Len(q) = 0)
  BY LenProperties, EmptySeq
<1>3. Len(q) \in 0 .. n
  BY <1>1, <1>2 DEF Numbered
<1>4. ASSUME q # <<>>
      PROVE  Head(q) = n - Len(q) + 1 /\ Head(q) \in Request /\ q[1] = Head(q)
  <2>1. 1 \in 1 .. Len(q) /\ Head(q) = q[1]
    BY <1>2, <1>4, HeadTailProperties
  <2>2. QED
    BY <1>1, <1>3, <2>1 DEF Numbered, Request
<1>5. ASSUME NEW r \in ToSet(q) PROVE r \in Request /\ n - Len(q) < r /\ r <= n
  <2>1. PICK i \in 1 .. Len(q) : q[i] = r
    BY <1>2 DEF ToSet
  <2>2. QED
    BY <1>1, <1>3, <2>1 DEF Numbered, Request
<1>6. ASSUME NEW r \in Request, n - Len(q) < r, r <= n PROVE r \in ToSet(q)
  <2>1. r - n + Len(q) \in 1 .. Len(q)
    BY <1>1, <1>3, <1>6 DEF Request
  <2>2. q[r - n + Len(q)] = r
    BY <1>1, <1>3, <2>1 DEF Numbered, Request
  <2>3. QED
    BY <1>2, <2>1, <2>2 DEF ToSet
<1>7. QED
  BY <1>2, <1>3, <1>4, <1>5, <1>6

(* The queues a step makes of a queue.                                       *)
LEMMA EmptyNumbered ==
  ASSUME NEW n \in 0 .. MaxRequest
  PROVE  <<>> \in Seq(Request) /\ Len(<<>>) = 0 /\ Numbered(<<>>, n)
BY WebClientAssumption DEF Numbered

(* A new request has the next number.                                        *)
LEMMA AppendNumbered ==
  ASSUME NEW q \in Seq(Request), NEW n \in 0 .. MaxRequest, Numbered(q, n), n < MaxRequest
  PROVE  /\ Append(q, n + 1) \in Seq(Request) /\ Numbered(Append(q, n + 1), n + 1)
         /\ (n + 1) - Len(Append(q, n + 1)) = n - Len(q) /\ Append(q, n + 1) # <<>>
<1>1. MaxRequest \in Nat /\ n \in Nat /\ n + 1 \in Request
  BY WebClientAssumption DEF Request
<1>2. Len(q) \in Nat
  BY LenProperties
<1>3. /\ Append(q, n + 1) \in Seq(Request) /\ Len(Append(q, n + 1)) = Len(q) + 1
      /\ \A i \in 1 .. Len(q) : Append(q, n + 1)[i] = q[i]
      /\ Append(q, n + 1)[Len(q) + 1] = n + 1
  BY <1>1, AppendProperties
<1>4. Numbered(Append(q, n + 1), n + 1)
  BY <1>1, <1>2, <1>3 DEF Numbered
<1>5. (n + 1) - Len(Append(q, n + 1)) = n - Len(q) /\ Append(q, n + 1) # <<>>
  BY <1>1, <1>2, <1>3
<1>6. QED
  BY <1>3, <1>4, <1>5

(* Without its first request a queue holds the last numbers still.           *)
LEMMA TailNumbered ==
  ASSUME NEW q \in Seq(Request), NEW n \in 0 .. MaxRequest, Numbered(q, n), q # <<>>
  PROVE  /\ Tail(q) \in Seq(Request) /\ Numbered(Tail(q), n) /\ Len(Tail(q)) = Len(q) - 1
         /\ n - Len(Tail(q)) = n - Len(q) + 1
         /\ Tail(q) = <<>> <=> n - Len(q) + 1 = n
         /\ Tail(q) # <<>> => Head(Tail(q)) = n - Len(q) + 2 /\ n - Len(q) + 2 \in Request
<1>1. MaxRequest \in Nat /\ n \in Nat /\ Len(q) \in Nat \ {0}
  BY WebClientAssumption, EmptySeq, LenProperties
<1>2. /\ Tail(q) \in Seq(Request) /\ Len(Tail(q)) = Len(q) - 1
      /\ \A i \in 1 .. Len(Tail(q)) : Tail(q)[i] = q[i + 1]
  BY HeadTailProperties
<1>3. Numbered(Tail(q), n)
  BY <1>1, <1>2 DEF Numbered
<1>4. n - Len(Tail(q)) = n - Len(q) + 1 /\ n - Len(q) + 1 + 1 = n - Len(q) + 2
  BY <1>1, <1>2
<1>5. /\ Tail(q) = <<>> <=> Len(Tail(q)) = 0
      /\ Tail(q) # <<>> => Head(Tail(q)) = n - Len(Tail(q)) + 1 /\ Head(Tail(q)) \in Request
  BY <1>2, <1>3, QueueFacts
<1>6. Len(Tail(q)) = 0 <=> n - Len(q) + 1 = n
  <2>1. \A m \in Nat \ {0} : m - 1 = 0 <=> n - m + 1 = n
    BY <1>1
  <2>2. QED
    BY <1>1, <1>2, <2>1
<1>7. QED
  BY <1>2, <1>3, <1>4, <1>5, <1>6

(* So it does without its first two.                                         *)
LEMMA RestNumbered ==
  ASSUME NEW q \in Seq(Request), NEW n \in 0 .. MaxRequest, Numbered(q, n)
  PROVE  LET rest == SubSeq(q, 3, Len(q))
         IN  /\ rest \in Seq(Request) /\ Numbered(rest, n)
             /\ Len(rest) = IF Len(q) <= 2 THEN 0 ELSE Len(q) - 2
<1> DEFINE rest == SubSeq(q, 3, Len(q))
<1>1. MaxRequest \in Nat /\ n \in Nat /\ Len(q) \in Nat /\ DOMAIN q = 1 .. Len(q)
  BY WebClientAssumption, LenProperties
<1>2. \A i \in 3 .. Len(q) : q[i] \in Request
  BY <1>1, ElementOfSeq
<1>3. /\ rest \in Seq(Request)
      /\ Len(rest) = IF 3 <= Len(q) THEN Len(q) - 3 + 1 ELSE 0
      /\ \A i \in 1 .. Len(q) - 3 + 1 : rest[i] = q[3 + i - 1]
  BY <1>1, <1>2, SubSeqProperties
<1> HIDE DEF rest
<1>4. Numbered(rest, n)
  <2>1. CASE Len(q) < 3
    <3>1. Len(rest) = IF 3 <= Len(q) THEN Len(q) - 3 + 1 ELSE 0
      BY <1>3
    <3>2. ~(3 <= Len(q))
      BY <1>1, <2>1
    <3>3. Len(rest) = 0
      BY <3>1, <3>2
    <3>4. QED
      BY <1>1, <3>3 DEF Numbered
  <2>2. CASE 3 <= Len(q)
    <3>1. Len(rest) = Len(q) - 2 /\ Len(rest) <= n
      BY <1>1, <1>3, <2>2 DEF Numbered
    <3>2. ASSUME NEW i \in 1 .. Len(rest) PROVE rest[i] = n - Len(rest) + i
      <4>1. i \in 1 .. Len(q) - 2
        BY <3>1
      <4>2. i \in 1 .. Len(q) - 3 + 1 /\ i + 2 \in 1 .. Len(q) /\ 3 + i - 1 = i + 2
        BY <1>1, <4>1
      <4>3. rest[i] = q[i + 2]
        BY <1>3, <4>2
      <4>4. q[i + 2] = n - Len(q) + (i + 2)
        BY <4>2 DEF Numbered
      <4>5. QED
        BY <1>1, <3>1, <4>1, <4>3, <4>4
    <3>3. QED
      BY <3>1, <3>2 DEF Numbered
  <2>3. QED
    BY <1>1, <2>1, <2>2
<1>5. QED
  BY <1>1, <1>3, <1>4 DEF rest
(* An object that does not wait joins those that do. *)
LEMMA Joined ==
  ASSUME NEW q \in Seq(Address), NEW a \in Address, IsInjective(q), a \notin ToSet(q)
  PROVE  /\ Append(q, a) \in Seq(Address) /\ IsInjective(Append(q, a))
         /\ ToSet(Append(q, a)) = ToSet(q) \cup {a}
<1> DEFINE n == Len(q)
           p == Append(q, a)
<1>1. n \in Nat /\ DOMAIN q = 1 .. n
  BY LenProperties
<1>2. /\ p \in Seq(Address) /\ Len(p) = n + 1 /\ p[n + 1] = a
      /\ \A i \in 1 .. n : p[i] = q[i]
  BY AppendProperties
<1>3. DOMAIN p = 1 .. n + 1
  BY <1>2, LenProperties
<1>4. \A i \in 1 .. n + 1 : i \in 1 .. n \/ i = n + 1
  BY <1>1
<1>5. \A i \in 1 .. n : q[i] # a /\ q[i] \in ToSet(q) /\ i \in 1 .. n + 1
  BY <1>1 DEF ToSet
<1> HIDE DEF n, p
<1>6. IsInjective(p)
  BY <1>1, <1>2, <1>3, <1>4, <1>5 DEF IsInjective
<1>7. ToSet(p) = ToSet(q) \cup {a}
  <2>1. n + 1 \in 1 .. n + 1
    BY <1>1
  <2>2. QED
    BY <1>1, <1>2, <1>3, <1>4, <1>5, <2>1 DEF ToSet
<1>8. QED
  BY <1>2, <1>6, <1>7 DEF p
-----------------------------------------------------------------------------
(* Steps that leave objects alone. *)

(* Nothing that is said of object b changes. *)
Same(b) ==
  /\ wcdo'[b] = wcdo[b] /\ RequestQueue'[b] = RequestQueue[b] /\ issued'[b] = issued[b]
  /\ outcome'[b] = outcome[b] /\ sent'[b] = sent[b] /\ served'[b] = served[b]
  /\ b \in DataTable' <=> b \in DataTable
  /\ b \in idleTable' <=> b \in idleTable
  /\ b \in timers' <=> b \in timers
  /\ b \in due' <=> b \in due
  /\ b \in cut' <=> b \in cut
  /\ b \in left' <=> b \in left
  /\ Waits(b)' <=> Waits(b)
  /\ HasSocket(b) => SocketOf(b)' = SocketOf(b)

(* What is not touched about an address keeps its part of the invariant.     *)
LEMMA SameKeeps ==
  ASSUME NEW b \in Address, ObjectInv(b), Same(b) PROVE ObjectInv(b)'
<1> USE DEF Same
<1>1. Gone(b)' = Gone(b)
  BY DEF Gone
<1>2. (HasSocket(b)' <=> HasSocket(b)) /\ (Connecting(b)' <=> Connecting(b))
  BY DEF HasSocket, Connecting
<1>3. QueueOf(b)'
  BY DEF ObjectInv, QueueOf
<1>4. LinkOf(b)'
  BY <1>2 DEF ObjectInv, LinkOf
<1>5. HeaderOf(b)'
  BY <1>2 DEF ObjectInv, HeaderOf
<1>6. SentOf(b)'
  BY <1>1, <1>2 DEF ObjectInv, SentOf
<1>7. OutcomeOf(b)'
  BY <1>1 DEF ObjectInv, OutcomeOf
<1>8. AnswerOf(b)'
  BY <1>1, <1>2 DEF ObjectInv, AnswerOf
<1>9. QED
  BY <1>3, <1>4, <1>5, <1>6, <1>7, <1>8 DEF ObjectInv

(* A step that changes only object a and the socket it has.                   *)
OnlyOf(a) ==
  /\ \A b \in Address \ {a} :
       /\ wcdo'[b] = wcdo[b] /\ RequestQueue'[b] = RequestQueue[b] /\ issued'[b] = issued[b]
       /\ outcome'[b] = outcome[b] /\ sent'[b] = sent[b] /\ served'[b] = served[b]
       /\ b \in DataTable' <=> b \in DataTable
       /\ b \in idleTable' <=> b \in idleTable
       /\ b \in timers' <=> b \in timers
       /\ b \in due' <=> b \in due
       /\ b \in cut' <=> b \in cut
       /\ b \in left' <=> b \in left
       /\ Waits(b)' <=> Waits(b)
  /\ \A s \in Sock :
       /\ s # wcdo[a].SOCK => socks'[s] = socks[s]
       /\ s = wcdo[a].SOCK => (socks'[s].state # "free" => socks'[s].user = a /\ wcdo'[a].SOCK = s)

(* A step about one address keeps the invariant if it keeps its part.        *)
LEMMA OnlyKeeps ==
  ASSUME IInv, NEW a \in Address, OnlyOf(a), TypeOK', IsInjective(backlogQueue)', ObjectInv(a)'
  PROVE  IInv'
<1>1. ASSUME NEW b \in Address \ {a} PROVE ObjectInv(b)'
  <2>1. ObjectInv(b) /\ ObjectInv(a) /\ wcdo[b] \in Object /\ wcdo[a] \in Object
    BY DEF IInv, TypeOK
  <2>2. HasSocket(b) => wcdo[b].SOCK # wcdo[a].SOCK /\ wcdo[b].SOCK \in Sock
    BY <2>1 DEF ObjectInv, LinkOf, HasSocket, SocketOf, Object, Sock, NULL
  <2>3. HasSocket(b) => SocketOf(b)' = SocketOf(b)
    BY <2>2 DEF OnlyOf, SocketOf
  <2>4. Same(b)
    BY <2>3 DEF OnlyOf, Same
  <2>5. QED
    BY <2>1, <2>4, SameKeeps
<1>2. ASSUME NEW s \in Sock PROVE UserOf(s)'
  <2>1. UserOf(s) /\ ObjectInv(a)
    BY DEF IInv
  <2>2. CASE s = wcdo[a].SOCK
    BY <2>2 DEF OnlyOf, UserOf
  <2>3. CASE s # wcdo[a].SOCK
    <3>1. socks'[s] = socks[s]
      BY <2>3 DEF OnlyOf
    <3>2. CASE socks[s].state = "free"
      BY <3>1, <3>2 DEF UserOf
    <3>3. CASE socks[s].state # "free"
      BY <2>1, <2>3, <3>1, <3>3 DEF UserOf, OnlyOf
    <3>4. QED
      BY <3>2, <3>3
  <2>4. QED
    BY <2>2, <2>3
<1>3. QED
  BY <1>1, <1>2 DEF IInv
(* What is known of an object and its queue. *)
LEMMA ObjectFacts ==
  ASSUME IInv, NEW a \in Address
  PROVE  /\ ObjectInv(a) /\ wcdo[a] \in Object
         /\ HasSocket(a) <=> wcdo[a].SOCK \in Sock
         /\ RequestQueue[a] \in Seq(Request) /\ issued[a] \in 0 .. MaxRequest
         /\ Numbered(RequestQueue[a], issued[a])
         /\ Gone(a) \in 0 .. issued[a]
         /\ RequestQueue[a] = <<>> <=> Gone(a) = issued[a]
         /\ RequestQueue[a] # <<>> => /\ Head(RequestQueue[a]) = Gone(a) + 1
                                      /\ Gone(a) + 1 \in Request
         /\ ToSet(RequestQueue[a]) = {r \in Request : r > Gone(a) /\ r <= issued[a]}
<1>1. /\ ObjectInv(a) /\ wcdo[a] \in Object
      /\ RequestQueue[a] \in Seq(Request) /\ issued[a] \in 0 .. MaxRequest
  BY DEF IInv, TypeOK
<1>2. Numbered(RequestQueue[a], issued[a])
  BY <1>1 DEF ObjectInv, QueueOf
<1>3. /\ Len(RequestQueue[a]) \in 0 .. issued[a] /\ (RequestQueue[a] = <<>> <=> Len(RequestQueue[a]) = 0)
      /\ RequestQueue[a] # <<>> => /\ Head(RequestQueue[a]) = issued[a] - Len(RequestQueue[a]) + 1
                                   /\ Head(RequestQueue[a]) \in Request
      /\ ToSet(RequestQueue[a])
           = {r \in Request : issued[a] - Len(RequestQueue[a]) < r /\ r <= issued[a]}
  BY <1>1, <1>2, QueueFacts
<1>4. HasSocket(a) <=> wcdo[a].SOCK \in Sock
  BY <1>1, WebClientAssumption DEF HasSocket, Object, Sock, NULL
<1>5. issued[a] \in Nat /\ Len(RequestQueue[a]) \in Nat
  BY <1>1, <1>3, WebClientAssumption
<1>6. Gone(a) \in 0 .. issued[a] /\ (RequestQueue[a] = <<>> <=> Gone(a) = issued[a])
  BY <1>3, <1>5 DEF Gone
<1>7. \A r \in Request : r > Gone(a) <=> issued[a] - Len(RequestQueue[a]) < r
  BY <1>5 DEF Gone, Request
<1>8. ToSet(RequestQueue[a]) = {r \in Request : r > Gone(a) /\ r <= issued[a]}
  BY <1>3, <1>7
<1>9. RequestQueue[a] # <<>> => Head(RequestQueue[a]) = Gone(a) + 1 /\ Gone(a) + 1 \in Request
  BY <1>3 DEF Gone
<1>10. QED
  BY <1>1, <1>2, <1>4, <1>6, <1>8, <1>9

(* What is known of a socket that is not free. *)
LEMMA SocketFacts ==
  ASSUME IInv, NEW s \in Sock, socks[s].state # "free"
  PROVE  /\ socks[s] \in Socket /\ socks[s].user \in Address
         /\ wcdo[socks[s].user].SOCK = s /\ HasSocket(socks[s].user)
         /\ SocketOf(socks[s].user) = socks[s]
         /\ socks[s].user \in DataTable /\ ~Waits(socks[s].user)
         /\ Connecting(socks[s].user) <=> socks[s].state = "connecting"
<1> DEFINE a == socks[s].user
<1>1. socks[s] \in Socket /\ a \in Address /\ wcdo[a].SOCK = s
  BY DEF IInv, TypeOK, UserOf
<1>2. HasSocket(a) /\ SocketOf(a) = socks[s] /\ ObjectInv(a)
  BY <1>1, WebClientAssumption DEF IInv, HasSocket, SocketOf, Sock, NULL
<1>3. a \in DataTable /\ ~Waits(a)
  <2>1. wcdo[a] # NewObject
    BY <1>1, WebClientAssumption DEF NewObject, Sock, NULL
  <2>2. QED
    BY <1>2, <2>1 DEF ObjectInv, QueueOf, LinkOf
<1>4. QED
  BY <1>1, <1>2, <1>3 DEF Connecting

(* The first request of a queue has ended. *)
LEMMA FirstEnded ==
  ASSUME IInv, NEW a \in Address, RequestQueue[a] # <<>>, NEW how \in {"answered", "failed"},
         outcome' = Ended(outcome, a, {Gone(a) + 1}, how), Gone(a)' = Gone(a) + 1
  PROVE  /\ outcome' \in [Address -> [Request -> {"none", "answered", "failed", "lost", "twice"}]]
         /\ \A b \in Address \ {a} : outcome'[b] = outcome[b]
         /\ \A r \in Request : outcome'[a][r] = IF r = Gone(a) + 1 THEN how ELSE outcome[a][r]
         /\ OutcomeOf(a)'
<1> DEFINE g == Gone(a)
<1>1. TypeOK /\ ObjectInv(a) /\ g \in Nat /\ g + 1 \in Request
  BY ObjectFacts, WebClientAssumption DEF IInv
<1>2. \A r \in Request : /\ r \in Nat /\ (outcome[a][r] = "none" <=> r > g)
                         /\ outcome[a][r] # "twice"
                         /\ outcome[a][r] = "lost" => /\ r > 1 /\ outcome[a][r - 1] = "failed"
                                                      /\ r - 1 \in Request
  BY <1>1, WebClientAssumption DEF ObjectInv, OutcomeOf, Request
<1>3. outcome[a][g + 1] = "none"
  <2>1. g + 1 > g
    BY <1>1
  <2>2. QED
    BY <1>1, <2>1 DEF ObjectInv, OutcomeOf
<1>4. /\ outcome' \in [Address -> [Request -> {"none", "answered", "failed", "lost", "twice"}]]
      /\ \A b \in Address \ {a} : outcome'[b] = outcome[b]
      /\ \A r \in Request : outcome'[a][r] = IF r = g + 1 THEN how ELSE outcome[a][r]
  BY <1>1, <1>3 DEF TypeOK, Ended
<1> HIDE DEF g
<1>5. ASSUME NEW r \in Request PROVE outcome'[a][r] = "none" <=> r > g + 1
  <2>1. CASE r = g + 1
    <3>1. outcome'[a][r] = how /\ how # "none"
      BY <1>4, <2>1
    <3>2. ~(r > g + 1)
      BY <1>1, <2>1
    <3>3. QED
      BY <3>1, <3>2
  <2>2. CASE r # g + 1
    <3>1. r \in Nat /\ (r > g <=> r > g + 1)
      BY <1>1, <1>2, <2>2
    <3>2. QED
      BY <1>2, <1>4, <2>2, <3>1
  <2>3. QED
    BY <2>1, <2>2
<1>6. ASSUME NEW r \in Request, outcome'[a][r] = "lost" PROVE r > 1 /\ outcome'[a][r - 1] = "failed"
  <2>1. outcome[a][r] = "lost" /\ r - 1 \in Request /\ outcome[a][r - 1] = "failed" /\ r > 1
    BY <1>2, <1>4, <1>6
  <2>2. r - 1 # g + 1
    BY <1>3, <2>1
  <2>3. QED
    BY <1>4, <2>1, <2>2
<1>7. Gone(a)' = g + 1 /\ \A r \in Request : outcome'[a][r] # "twice"
  BY <1>2, <1>4 DEF g
<1>8. OutcomeOf(a)'
  BY <1>5, <1>6, <1>7 DEF OutcomeOf
<1>9. QED
  BY <1>4, <1>8 DEF g
-----------------------------------------------------------------------------
(* FinishedResponse. *)

(* Whatever the server still owes, the step keeps the invariant: it owes      *)
(* nothing that was asked before, and had begun with this answer, unless the  *)
(* object's answer was cut off.                                              *)
LEMMA FinishedResponseKeeps ==
  ASSUME IInv, NEW s \in Sock, socks[s].state = "connected", due = {},
         NEW a \in Address, a = socks[s].user, RequestQueue[a] # <<>>,
         NEW rest \in Socket, rest.state = "connected", rest.user = a, ~rest.body,
         a \notin cut => rest.asked = <<>> /\ Gone(a) + 1 \in served'[a],
         FinishedResponse(s, a, rest),
         served' \in [Address -> SUBSET Request], served[a] \subseteq served'[a],
         \A b \in Address \ {a} : served'[b] = served[b],
         UNCHANGED <<tables, backlogQueue, due, running, issued, cut, left>>
  PROVE  IInv'
<1> DEFINE q == RequestQueue[a]
           g == Gone(a)
<1>1. TypeOK
  BY DEF IInv
<1>2. /\ ObjectInv(a) /\ wcdo[a] \in Object /\ q \in Seq(Request) /\ issued[a] \in 0 .. MaxRequest
      /\ Numbered(q, issued[a]) /\ g \in 0 .. issued[a] /\ Head(q) = g + 1 /\ g + 1 \in Request
      /\ g # issued[a]
  BY ObjectFacts
<1>3. /\ wcdo[a].SOCK = s /\ HasSocket(a) /\ SocketOf(a) = socks[s] /\ ~Waits(a) /\ a \in DataTable
      /\ ~Connecting(a) /\ a \notin idleTable
  BY <1>2, SocketFacts DEF ObjectInv, LinkOf
<1>4. /\ UNCHANGED <<DataTable, idleTable, idleCount, backlogQueue, due, running, issued, cut, left>>
      /\ RequestQueue' = [RequestQueue EXCEPT ![a] = Tail(q)]
      /\ wcdo' = [wcdo EXCEPT ![a] = Reset(wcdo[a])]
      /\ outcome' = Ended(outcome, a, {g + 1}, "answered")
  BY <1>1, <1>2 DEF FinishedResponse, tables, TypeOK
<1>5. /\ RequestQueue'[a] = Tail(q) /\ Tail(q) \in Seq(Request)
      /\ Numbered(Tail(q), issued[a])
      /\ issued[a] - Len(Tail(q)) = g + 1
      /\ Tail(q) = <<>> <=> g + 1 = issued[a]
      /\ Tail(q) # <<>> => Head(Tail(q)) = g + 2 /\ g + 2 \in Request
  BY <1>1, <1>2, <1>4, TailNumbered DEF TypeOK, Gone
<1>6. Gone(a)' = g + 1
  BY <1>4, <1>5 DEF Gone
<1>7. /\ wcdo'[a] \in Object /\ wcdo'[a].SOCK = s /\ wcdo'[a].Closing = wcdo[a].Closing
      /\ ~wcdo'[a].FinHeader /\ ~wcdo'[a].WaitForClose /\ wcdo'[a].InitialRequestAnswered
  BY <1>1, <1>2, <1>3, <1>4 DEF TypeOK, Reset, Object
<1>8. g \in Nat /\ g + 2 = g + 1 + 1
  BY <1>2, WebClientAssumption
<1>9. /\ socks'[s] \in Socket /\ socks'[s].state = "connected" /\ socks'[s].user = a /\ ~socks'[s].body
      /\ a \notin cut => socks'[s].asked = IF Tail(q) = <<>> THEN <<>> ELSE <<g + 2>>
      /\ socks' \in [Sock -> Socket]
      /\ \A k \in Sock \ {s} : socks'[k] = socks[k]
  <2>1. CASE Tail(q) # <<>>
    <3>1. socks' = [socks EXCEPT ![s] = [rest EXCEPT !.asked = Append(rest.asked, g + 2)]]
      BY <1>1, <1>5, <2>1 DEF FinishedResponse, TypeOK
    <3>2. Append(rest.asked, g + 2) \in Seq(Request)
      BY <1>5, <2>1, AppendProperties DEF Socket
    <3>3. rest.asked = <<>> => Append(rest.asked, g + 2) = <<g + 2>>
      OBVIOUS
    <3>4. QED
      BY <1>1, <2>1, <3>1, <3>2, <3>3 DEF TypeOK, Socket
  <2>2. CASE Tail(q) = <<>>
    <3>1. socks' = [socks EXCEPT ![s] = rest]
      BY <2>2 DEF FinishedResponse
    <3>2. QED
      BY <1>1, <2>2, <3>1 DEF TypeOK
  <2>3. QED
    BY <2>1, <2>2
<1>10. /\ sent' \in [Address -> [Request -> Nat]]
       /\ \A b \in Address \ {a} : sent'[b] = sent[b]
       /\ \A r \in Request : sent'[a][r] = IF Tail(q) # <<>> /\ r = g + 2 THEN sent[a][r] + 1
                                           ELSE sent[a][r]
  <2>1. CASE Tail(q) # <<>>
    <3>1. sent' = [sent EXCEPT ![a] = [sent[a] EXCEPT ![g + 2] = sent[a][g + 2] + 1]]
      BY <1>1, <1>5, <2>1 DEF FinishedResponse, TypeOK
    <3>2. sent[a] \in [Request -> Nat] /\ g + 2 \in Request
      BY <1>1, <1>5, <2>1 DEF TypeOK
    <3>3. [sent[a] EXCEPT ![g + 2] = sent[a][g + 2] + 1] \in [Request -> Nat]
      BY <3>2
    <3>4. QED
      BY <1>1, <2>1, <3>1, <3>2, <3>3 DEF TypeOK
  <2>2. CASE Tail(q) = <<>>
    BY <1>1, <2>2 DEF FinishedResponse, TypeOK
  <2>3. QED
    BY <2>1, <2>2
<1>11. /\ timers' = IF Tail(q) = <<>> THEN timers \cup {a} ELSE timers
       /\ a \in timers' <=> Tail(q) = <<>>
  BY <1>2, <1>4 DEF FinishedResponse, ObjectInv, LinkOf
<1>12. /\ outcome' \in [Address -> [Request -> {"none", "answered", "failed", "lost", "twice"}]]
       /\ \A b \in Address \ {a} : outcome'[b] = outcome[b]
       /\ \A r \in Request : outcome'[a][r] = IF r = g + 1 THEN "answered" ELSE outcome[a][r]
       /\ OutcomeOf(a)'
  BY <1>4, <1>6, FirstEnded
<1> HIDE DEF q, g
<1>13. TypeOK'
  BY <1>1, <1>4, <1>5, <1>7, <1>9, <1>10, <1>11, <1>12 DEF TypeOK
<1>14. OnlyOf(a)
  <2>1. \A b \in Address \ {a} : wcdo'[b] = wcdo[b] /\ RequestQueue'[b] = RequestQueue[b]
    BY <1>1, <1>4 DEF TypeOK
  <2>2. \A b \in Address : Waits(b)' <=> Waits(b)
    BY <1>4 DEF Waits
  <2>3. \A b \in Address \ {a} : b \in timers' <=> b \in timers
    BY <1>11
  <2>4. \A k \in Sock : /\ k # wcdo[a].SOCK => socks'[k] = socks[k]
                        /\ k = wcdo[a].SOCK => socks'[k].user = a /\ wcdo'[a].SOCK = k
    BY <1>3, <1>7, <1>9
  <2>5. QED
    BY <1>4, <1>10, <1>12, <2>1, <2>2, <2>3, <2>4 DEF OnlyOf, Waits
<1>15. /\ HasSocket(a)' /\ ~Connecting(a)' /\ ~Waits(a)'
       /\ SocketOf(a)' = socks'[s]
  BY <1>3, <1>4, <1>7, <1>9 DEF HasSocket, Connecting, Waits, SocketOf
<1>16. QueueOf(a)'
  BY <1>3, <1>4, <1>5 DEF QueueOf
<1>17. LinkOf(a)'
  BY <1>2, <1>3, <1>4, <1>5, <1>7, <1>9, <1>11, <1>15 DEF ObjectInv, LinkOf
<1>18. HeaderOf(a)'
  BY <1>7, <1>9, <1>15 DEF HeaderOf
<1>19. SentOf(a)'
  <2>1. \A r \in Request : r > g + 1 => sent[a][r] = 0
    BY <1>2 DEF ObjectInv, SentOf, g
  <2> \A r \in Request : r \in Nat
    BY WebClientAssumption DEF Request
  <2>2. ASSUME NEW r \in Request, r > g + 2 PROVE sent'[a][r] = 0
    BY <1>8, <1>10, <2>1, <2>2
  <2>3. ASSUME NEW r \in Request, r = g + 2
        PROVE  sent'[a][r] <= 1 /\ (Tail(q) = <<>> => sent'[a][r] = 0)
    BY <1>8, <1>10, <2>1, <2>3
  <2>4. ASSUME NEW r \in Request PROVE sent'[a][r] \in Nat
    BY <1>10
  <2>5. QED
    BY <1>5, <1>6, <1>8, <2>2, <2>3, <2>4 DEF SentOf
<1>20. AnswerOf(a)'
  <2>1. SUFFICES ASSUME a \notin cut PROVE AnswerOf(a)'
    BY <1>4 DEF AnswerOf
  <2>2. \A r \in Request : outcome'[a][r] = "answered" => r \in served'[a]
    BY <1>2, <1>12, <2>1 DEF ObjectInv, AnswerOf, g
  <2>3. QED
    BY <1>5, <1>6, <1>7, <1>8, <1>9, <1>15, <2>2 DEF AnswerOf
<1>21. IsInjective(backlogQueue)'
  BY <1>4 DEF IInv
<1>22. QED
  BY <1>12, <1>13, <1>14, <1>16, <1>17, <1>18, <1>19, <1>20, <1>21, OnlyKeeps DEF ObjectInv
-----------------------------------------------------------------------------
(* PipelineRequest. *)

(* A new request is behind those that are there; a step that goes with it     *)
(* leaves the others as they are.                                           *)
LEMMA NewRequest ==
  ASSUME IInv, NEW a \in Address, issued[a] < MaxRequest,
         issued' = [issued EXCEPT ![a] = @ + 1],
         RequestQueue' = [RequestQueue EXCEPT ![a] = Append(@, issued[a] + 1)]
  PROVE  /\ issued' \in [Address -> 0 .. MaxRequest] /\ issued'[a] = issued[a] + 1
         /\ issued[a] + 1 \in Request
         /\ RequestQueue' \in [Address -> Seq(Request)]
         /\ RequestQueue'[a] # <<>> /\ Numbered(RequestQueue'[a], issued'[a])
         /\ Gone(a)' = Gone(a)
         /\ \A b \in Address \ {a} : issued'[b] = issued[b] /\ RequestQueue'[b] = RequestQueue[b]
<1>1. /\ RequestQueue[a] \in Seq(Request) /\ issued[a] \in 0 .. MaxRequest
      /\ Numbered(RequestQueue[a], issued[a])
  BY ObjectFacts
<1>2. TypeOK /\ MaxRequest \in Nat
  BY WebClientAssumption DEF IInv
<1>3. issued[a] \in Nat /\ issued[a] + 1 \in 0 .. MaxRequest /\ issued[a] + 1 \in Request
  BY <1>1, <1>2 DEF Request
<1>4. /\ issued' \in [Address -> 0 .. MaxRequest] /\ issued'[a] = issued[a] + 1
      /\ \A b \in Address \ {a} : issued'[b] = issued[b] /\ RequestQueue'[b] = RequestQueue[b]
  BY <1>2, <1>3 DEF TypeOK
<1>5. RequestQueue'[a] = Append(RequestQueue[a], issued[a] + 1)
  BY <1>2 DEF TypeOK
<1>6. /\ RequestQueue'[a] \in Seq(Request) /\ RequestQueue'[a] # <<>>
      /\ Numbered(RequestQueue'[a], issued[a] + 1)
      /\ (issued[a] + 1) - Len(RequestQueue'[a]) = issued[a] - Len(RequestQueue[a])
  BY <1>1, <1>5, AppendNumbered
<1>7. RequestQueue' \in [Address -> Seq(Request)]
  BY <1>2, <1>5, <1>6 DEF TypeOK
<1>8. Gone(a)' = Gone(a)
  <2>1. Gone(a)' = (issued[a] + 1) - Len(RequestQueue'[a])
    BY <1>4 DEF Gone
  <2>2. QED
    BY <1>6, <2>1 DEF Gone
<1>9. QED
  BY <1>3, <1>4, <1>6, <1>7, <1>8

LEMMA FirstRequestKeeps ==
  ASSUME IInv, NEW a \in Address, issued[a] < MaxRequest,
         issued' = [issued EXCEPT ![a] = @ + 1],
         UNCHANGED <<due, running, outcome, served, cut, left>>,
         FirstRequest(a, issued[a] + 1)
  PROVE  IInv'
<1>1. TypeOK /\ ObjectInv(a)
  BY DEF IInv
<1>2. /\ a \notin DataTable /\ RequestQueue[a] = <<>> /\ wcdo[a] = NewObject
      /\ ~Waits(a) /\ a \notin idleTable /\ a \notin timers /\ a \notin due
  BY <1>1 DEF FirstRequest, ObjectInv, QueueOf
<1>3. /\ DataTable' = DataTable \cup {a} /\ wcdo' = [wcdo EXCEPT ![a] = NewObject]
      /\ backlogQueue' = Append(backlogQueue, a)
      /\ UNCHANGED <<socks, sent, idleTable, idleCount, timers, due, running, outcome, served, cut, left>>
  BY DEF FirstRequest, SendsNothing
<1>4. RequestQueue' = [RequestQueue EXCEPT ![a] = Append(@, issued[a] + 1)]
  <2>1. <<issued[a] + 1>> = Append(RequestQueue[a], issued[a] + 1)
    BY <1>2
  <2>2. QED
    BY <1>1, <2>1 DEF FirstRequest, TypeOK
<1>5. /\ issued' \in [Address -> 0 .. MaxRequest] /\ RequestQueue' \in [Address -> Seq(Request)]
      /\ RequestQueue'[a] # <<>> /\ Numbered(RequestQueue'[a], issued'[a]) /\ Gone(a)' = Gone(a)
      /\ \A b \in Address \ {a} : issued'[b] = issued[b] /\ RequestQueue'[b] = RequestQueue[b]
  BY <1>4, NewRequest
<1>6. /\ backlogQueue' \in Seq(Address) /\ IsInjective(backlogQueue')
      /\ ToSet(backlogQueue') = ToSet(backlogQueue) \cup {a}
  BY <1>1, <1>2, <1>3, Joined DEF IInv, TypeOK, Waits
<1>7. /\ NewObject \in Object /\ NewObject.SOCK = NULL /\ ~NewObject.FinHeader
      /\ ~NewObject.WaitForClose
  BY WebClientAssumption DEF NewObject, Object, NULL
<1>8. /\ wcdo' \in [Address -> Object] /\ wcdo'[a] = NewObject /\ ~HasSocket(a)'
      /\ \A b \in Address \ {a} : wcdo'[b] = wcdo[b]
  BY <1>1, <1>3, <1>7 DEF TypeOK, HasSocket
<1>9. TypeOK'
  BY <1>1, <1>3, <1>5, <1>6, <1>8 DEF TypeOK
<1>10. OnlyOf(a)
  <2>1. \A s \in Sock : s # wcdo[a].SOCK
    BY <1>2, <1>7, WebClientAssumption DEF Sock, NULL
  <2>2. QED
    BY <1>3, <1>5, <1>6, <1>8, <2>1 DEF OnlyOf, Waits
<1>11. Waits(a)' /\ a \in DataTable' /\ ~Connecting(a)'
  BY <1>3, <1>6, <1>8 DEF Waits, Connecting
<1>12. QueueOf(a)' /\ LinkOf(a)'
  BY <1>2, <1>3, <1>5, <1>8, <1>11 DEF QueueOf, LinkOf
<1>13. HeaderOf(a)'
  BY <1>7, <1>8 DEF HeaderOf
<1>14. SentOf(a)'
  BY <1>1, <1>2, <1>3, <1>5, <1>8 DEF ObjectInv, SentOf
<1>15. OutcomeOf(a)' /\ AnswerOf(a)'
  BY <1>1, <1>3, <1>5, <1>7, <1>8 DEF ObjectInv, OutcomeOf, AnswerOf
<1>16. QED
  BY <1>6, <1>9, <1>10, <1>12, <1>13, <1>14, <1>15, OnlyKeeps DEF ObjectInv

LEMMA LaterRequestKeeps ==
  ASSUME IInv, NEW a \in Address, issued[a] < MaxRequest,
         issued' = [issued EXCEPT ![a] = @ + 1],
         UNCHANGED <<due, running, outcome, served, cut, left>>,
         LaterRequest(a, issued[a] + 1)
  PROVE  IInv'
<1>1. TypeOK /\ ObjectInv(a)
  BY DEF IInv
<1>2. /\ a \in DataTable /\ RequestQueue[a] # <<>>
      /\ UNCHANGED <<DataTable, idleTable, idleCount, wcdo, backlogQueue, timers, socks, sent,
                     due, running, outcome, served, cut, left>>
  BY DEF LaterRequest, SendsNothing, tables
<1>3. /\ issued' \in [Address -> 0 .. MaxRequest] /\ RequestQueue' \in [Address -> Seq(Request)]
      /\ RequestQueue'[a] # <<>> /\ Numbered(RequestQueue'[a], issued'[a]) /\ Gone(a)' = Gone(a)
      /\ \A b \in Address \ {a} : issued'[b] = issued[b] /\ RequestQueue'[b] = RequestQueue[b]
  BY NewRequest DEF LaterRequest
<1>4. TypeOK'
  BY <1>1, <1>2, <1>3 DEF TypeOK
<1>5. OnlyOf(a)
  <2>1. \A s \in Sock : s = wcdo[a].SOCK /\ socks[s].state # "free" => socks[s].user = a
    BY <1>1, WebClientAssumption DEF ObjectInv, LinkOf, HasSocket, SocketOf, Sock, NULL
  <2>2. QED
    BY <1>2, <1>3, <2>1 DEF OnlyOf, Waits
<1>6. /\ Waits(a)' <=> Waits(a)
      /\ HasSocket(a)' <=> HasSocket(a)
      /\ Connecting(a)' <=> Connecting(a)
      /\ SocketOf(a)' = SocketOf(a)
  BY <1>2 DEF Waits, HasSocket, Connecting, SocketOf
<1>7. QueueOf(a)' /\ LinkOf(a)'
  BY <1>1, <1>2, <1>3, <1>6 DEF ObjectInv, QueueOf, LinkOf
<1>8. HeaderOf(a)' /\ SentOf(a)'
  BY <1>1, <1>2, <1>3, <1>6 DEF ObjectInv, HeaderOf, SentOf
<1>9. OutcomeOf(a)' /\ AnswerOf(a)'
  BY <1>1, <1>2, <1>3, <1>6 DEF ObjectInv, OutcomeOf, AnswerOf
<1>10. IsInjective(backlogQueue)'
  BY <1>2 DEF IInv
<1>11. QED
  BY <1>4, <1>5, <1>7, <1>8, <1>9, <1>10, OnlyKeeps DEF ObjectInv

LEMMA IdleRequestKeeps ==
  ASSUME IInv, NEW a \in Address, issued[a] < MaxRequest,
         issued' = [issued EXCEPT ![a] = @ + 1],
         UNCHANGED <<due, running, outcome, served, cut, left>>,
         IdleRequest(a, issued[a] + 1)
  PROVE  IInv'
<1> DEFINE r == issued[a] + 1
<1>1. TypeOK /\ ObjectInv(a)
  BY DEF IInv
<1>2. /\ a \in DataTable /\ RequestQueue[a] = <<>>
      /\ idleTable' = idleTable \ {a} /\ timers' = timers \ {a}
      /\ UNCHANGED <<DataTable, wcdo, due, running, outcome, served, cut, left>>
      /\ \/ ~HasSocket(a) /\ backlogQueue' = Append(backlogQueue, a) /\ UNCHANGED <<socks, sent>>
         \/ HasSocket(a) /\ Send(wcdo[a].SOCK, a, r) /\ backlogQueue' = backlogQueue
  BY DEF IdleRequest, SendsNothing, HasSocket
<1>3. RequestQueue' = [RequestQueue EXCEPT ![a] = Append(@, r)]
  <2>1. <<r>> = Append(RequestQueue[a], r)
    BY <1>2
  <2>2. QED
    BY <1>1, <2>1 DEF IdleRequest, TypeOK
<1>4. /\ issued' \in [Address -> 0 .. MaxRequest] /\ RequestQueue' \in [Address -> Seq(Request)]
      /\ RequestQueue'[a] # <<>> /\ Numbered(RequestQueue'[a], issued'[a]) /\ Gone(a)' = Gone(a)
      /\ \A b \in Address \ {a} : issued'[b] = issued[b] /\ RequestQueue'[b] = RequestQueue[b]
      /\ r \in Request
  BY <1>3, NewRequest
<1>5. /\ ~Waits(a) /\ ~Connecting(a) /\ ~wcdo[a].FinHeader /\ ~wcdo[a].WaitForClose
      /\ HasSocket(a) => /\ ~SocketOf(a).body /\ SocketOf(a).user = a
                         /\ SocketOf(a).state # "free" /\ wcdo[a].SOCK \in Sock
      /\ r = Gone(a) + 1
  <2>1. r = Gone(a) + 1 /\ (HasSocket(a) <=> wcdo[a].SOCK \in Sock)
    BY <1>2, ObjectFacts
  <2>2. QED
    BY <1>1, <1>2, <2>1 DEF ObjectInv, LinkOf, HeaderOf
<1>6. idleCount' \in Nat
  BY <1>1 DEF IdleRequest, TypeOK
<1>7. CASE ~HasSocket(a)
  <2>1. backlogQueue' = Append(backlogQueue, a) /\ UNCHANGED <<socks, sent>>
    BY <1>2, <1>7
  <2>2. /\ backlogQueue' \in Seq(Address) /\ IsInjective(backlogQueue')
        /\ ToSet(backlogQueue') = ToSet(backlogQueue) \cup {a}
    BY <1>1, <1>5, <2>1, Joined DEF IInv, TypeOK, Waits
  <2>3. TypeOK'
    BY <1>1, <1>2, <1>4, <1>6, <2>1, <2>2 DEF TypeOK
  <2>4. OnlyOf(a)
    <3>1. \A s \in Sock : s # wcdo[a].SOCK
      BY <1>7, WebClientAssumption DEF HasSocket, Sock, NULL
    <3>2. QED
      BY <1>2, <1>4, <2>1, <2>2, <3>1 DEF OnlyOf, Waits
  <2>5. Waits(a)' /\ ~HasSocket(a)' /\ ~Connecting(a)'
    BY <1>2, <1>7, <2>2 DEF Waits, HasSocket, Connecting
  <2>6. QueueOf(a)' /\ LinkOf(a)'
    BY <1>1, <1>2, <1>4, <2>5 DEF QueueOf, LinkOf
  <2>7. HeaderOf(a)' /\ SentOf(a)'
    BY <1>1, <1>2, <1>4, <1>5, <2>1, <2>5 DEF ObjectInv, HeaderOf, SentOf
  <2>8. OutcomeOf(a)' /\ AnswerOf(a)'
    BY <1>1, <1>2, <1>4, <1>5, <2>5 DEF ObjectInv, OutcomeOf, AnswerOf
  <2>9. QED
    BY <2>2, <2>3, <2>4, <2>6, <2>7, <2>8, OnlyKeeps DEF ObjectInv
<1>8. CASE HasSocket(a)
  <2> DEFINE s == wcdo[a].SOCK
  <2>1. s \in Sock /\ socks[s] \in Socket /\ SocketOf(a) = socks[s]
    BY <1>1, <1>5, <1>8 DEF TypeOK, SocketOf
  <2>2. /\ socks' = [socks EXCEPT ![s].asked = Append(@, r)]
        /\ sent' = [sent EXCEPT ![a][r] = @ + 1]
        /\ backlogQueue' = backlogQueue
    BY <1>2, <1>8 DEF Send
  <2>3. /\ socks' \in [Sock -> Socket] /\ socks'[s].state = socks[s].state
        /\ socks'[s].user = socks[s].user /\ socks'[s].body = socks[s].body
        /\ socks'[s].asked = Append(socks[s].asked, r)
        /\ \A k \in Sock \ {s} : socks'[k] = socks[k]
    <3>1. Append(socks[s].asked, r) \in Seq(Request)
      BY <1>4, <2>1, AppendProperties DEF Socket
    <3>2. QED
      BY <1>1, <2>1, <2>2, <3>1 DEF TypeOK, Socket
  <2>4. /\ sent' \in [Address -> [Request -> Nat]] /\ \A b \in Address \ {a} : sent'[b] = sent[b]
        /\ sent'[a] = [sent[a] EXCEPT ![r] = sent[a][r] + 1] /\ sent[a] \in [Request -> Nat]
    BY <1>1, <1>4, <2>2 DEF TypeOK
  <2>5. TypeOK'
    BY <1>1, <1>2, <1>4, <1>6, <2>2, <2>3, <2>4 DEF TypeOK
  <2>6. OnlyOf(a)
    <3>1. \A k \in Sock : /\ k # s => socks'[k] = socks[k]
                          /\ k = s => socks'[k].user = a /\ wcdo'[a].SOCK = k
      BY <1>2, <1>5, <1>8, <2>1, <2>3
    <3>2. QED
      BY <1>2, <1>4, <2>2, <2>4, <3>1 DEF OnlyOf, Waits
  <2>7. /\ ~Waits(a)' /\ HasSocket(a)' /\ ~Connecting(a)' /\ SocketOf(a)' = socks'[s]
    BY <1>2, <1>5, <1>8, <2>1, <2>2, <2>3 DEF Waits, HasSocket, Connecting, SocketOf
  <2>8. QueueOf(a)' /\ LinkOf(a)'
    BY <1>1, <1>2, <1>4, <1>5, <1>8, <2>1, <2>3, <2>7 DEF ObjectInv, QueueOf, LinkOf
  <2>9. HeaderOf(a)'
    BY <1>2, <1>5, <1>8, <2>1, <2>3, <2>7 DEF HeaderOf
  <2>10. SentOf(a)'
    <3>1. \A k \in Request : k > r => sent[a][k] = 0
      BY <1>1, <1>5 DEF ObjectInv, SentOf
    <3>2. sent[a][r] = 0
      BY <1>1, <1>2, <1>4, <1>5 DEF ObjectInv, SentOf
    <3>3. \A k \in Request : k > r => k # r
      BY <1>4 DEF Request
    <3>4. /\ \A k \in Request : k > r => sent'[a][k] = 0
          /\ sent'[a][r] = 1
      BY <1>4, <2>4, <3>1, <3>2, <3>3
    <3>5. QED
      BY <1>4, <1>5, <3>4 DEF SentOf
  <2>11. OutcomeOf(a)'
    BY <1>1, <1>2, <1>4 DEF ObjectInv, OutcomeOf
  <2>12. AnswerOf(a)'
    <3>1. a \notin cut => socks[s].asked = <<>>
      BY <1>1, <1>2, <1>5, <1>8, <2>1 DEF ObjectInv, AnswerOf
    <3>2. socks[s].asked = <<>> => Append(socks[s].asked, r) = <<r>>
      OBVIOUS
    <3>3. QED
      BY <1>1, <1>2, <1>4, <1>5, <2>3, <2>7, <3>1, <3>2 DEF ObjectInv, AnswerOf
  <2>13. QED
    BY <2>2, <2>5, <2>6, <2>8, <2>9, <2>10, <2>11, <2>12, OnlyKeeps DEF ObjectInv, IInv
<1>9. QED
  BY <1>7, <1>8

LEMMA PipelineRequestKeeps ==
  ASSUME IInv, NEW a \in Address, PipelineRequest(a) PROVE IInv'
BY FirstRequestKeeps, LaterRequestKeeps, IdleRequestKeeps DEF PipelineRequest
-----------------------------------------------------------------------------
(* Connections that are made or not. *)

LEMMA OnConnectKeeps ==
  ASSUME IInv, NEW s \in Sock, OnConnect(s) PROVE IInv'
<1>0. PICK a \in Address : a = socks[s].user
  BY SocketFacts DEF OnConnect, Told
<1> DEFINE r == Gone(a) + 1
<1>1. /\ TypeOK /\ socks[s].state = "connecting" /\ due = {}
      /\ UNCHANGED <<DataTable, idleTable, idleCount, RequestQueue, backlogQueue, timers, due,
                     running, issued, outcome, served, cut, left>>
  BY DEF IInv, OnConnect, Told, tables
<1>2. /\ socks[s] \in Socket /\ a \in Address /\ wcdo[a].SOCK = s /\ HasSocket(a)
      /\ SocketOf(a) = socks[s] /\ a \in DataTable /\ ~Waits(a) /\ Connecting(a)
  BY <1>0, <1>1, SocketFacts
<1>3. ObjectInv(a) /\ wcdo[a] \in Object /\ RequestQueue[a] # <<>>
  BY <1>2, ObjectFacts DEF ObjectInv, LinkOf
<1>4. r \in Request /\ Head(RequestQueue[a]) = r /\ Gone(a) \in Nat
  BY <1>2, <1>3, ObjectFacts, WebClientAssumption
<1>5. /\ wcdo' = [wcdo EXCEPT ![a] = [wcdo[a] EXCEPT !.SOCK = s, !.InitialRequestAnswered = FALSE]]
      /\ socks' = [socks EXCEPT ![s] = [socks[s] EXCEPT !.state = "connected", !.asked = <<r>>]]
      /\ sent' = [sent EXCEPT ![a] = [sent[a] EXCEPT ![r] = sent[a][r] + 1]]
  BY <1>0, <1>1, <1>2, <1>3, <1>4 DEF OnConnect, TypeOK
<1>6. /\ wcdo' \in [Address -> Object] /\ \A b \in Address \ {a} : wcdo'[b] = wcdo[b]
      /\ wcdo'[a].SOCK = s /\ wcdo'[a].Closing = wcdo[a].Closing
      /\ wcdo'[a].FinHeader = wcdo[a].FinHeader /\ wcdo'[a].WaitForClose = wcdo[a].WaitForClose
      /\ ~wcdo'[a].InitialRequestAnswered
  BY <1>1, <1>2, <1>3, <1>5 DEF TypeOK, Object
<1>7. /\ socks' \in [Sock -> Socket] /\ \A k \in Sock \ {s} : socks'[k] = socks[k]
      /\ socks'[s].state = "connected" /\ socks'[s].user = a /\ socks'[s].asked = <<r>>
      /\ socks'[s].body = socks[s].body
  <2>1. <<r>> \in Seq(Request)
    BY <1>4
  <2>2. QED
    BY <1>0, <1>1, <1>2, <1>5, <2>1 DEF TypeOK, Socket
<1>8. /\ sent' \in [Address -> [Request -> Nat]] /\ \A b \in Address \ {a} : sent'[b] = sent[b]
      /\ sent'[a] = [sent[a] EXCEPT ![r] = sent[a][r] + 1] /\ sent[a] \in [Request -> Nat]
  <2>1. sent \in [Address -> [Request -> Nat]] /\ sent[a] \in [Request -> Nat]
    BY <1>1 DEF TypeOK
  <2>2. [sent[a] EXCEPT ![r] = sent[a][r] + 1] \in [Request -> Nat]
    BY <1>4, <2>1
  <2>3. QED
    BY <1>5, <2>1, <2>2
<1>9. /\ ~Waits(a)' /\ HasSocket(a)' /\ ~Connecting(a)' /\ SocketOf(a)' = socks'[s]
      /\ Gone(a)' = Gone(a)
  BY <1>1, <1>2, <1>6, <1>7 DEF Waits, HasSocket, Connecting, SocketOf, Gone
<1>10. TypeOK'
  BY <1>1, <1>6, <1>7, <1>8 DEF TypeOK
<1>11. OnlyOf(a)
  <2>1. \A k \in Sock : /\ k # wcdo[a].SOCK => socks'[k] = socks[k]
                        /\ k = wcdo[a].SOCK => socks'[k].user = a /\ wcdo'[a].SOCK = k
    BY <1>2, <1>6, <1>7
  <2>2. QED
    BY <1>1, <1>6, <1>8, <2>1 DEF OnlyOf, Waits
<1> HIDE DEF r
<1>12. QueueOf(a)' /\ LinkOf(a)'
  BY <1>1, <1>2, <1>3, <1>6, <1>7, <1>9 DEF ObjectInv, QueueOf, LinkOf
<1>13. HeaderOf(a)'
  BY <1>1, <1>2, <1>3, <1>6, <1>7, <1>9 DEF ObjectInv, HeaderOf
<1>14. SentOf(a)'
  <2>1. /\ \A k \in Request : k > r => sent[a][k] = 0
        /\ sent[a][r] <= 1 /\ sent[a][r] \in Nat
    BY <1>2, <1>3, <1>4, <1>8 DEF ObjectInv, SentOf, r
  <2>2. \A k \in Request : k > r => k # r
    BY <1>4 DEF Request
  <2>3. /\ \A k \in Request : k > r => sent'[a][k] = 0
        /\ sent'[a][r] <= 2
    BY <1>4, <1>8, <2>1, <2>2
  <2>4. QED
    BY <1>1, <1>3, <1>6, <1>9, <2>3 DEF SentOf, r
<1>15. OutcomeOf(a)'
  BY <1>1, <1>3, <1>9 DEF ObjectInv, OutcomeOf
<1>16. AnswerOf(a)'
  BY <1>1, <1>2, <1>3, <1>6, <1>7, <1>9 DEF ObjectInv, AnswerOf, HeaderOf, r
<1>17. IsInjective(backlogQueue)'
  BY <1>1 DEF IInv
<1>18. QED
  BY <1>2, <1>10, <1>11, <1>12, <1>13, <1>14, <1>15, <1>16, <1>17, OnlyKeeps DEF ObjectInv

(* What is left of an object that is destroyed while nothing points to it:    *)
(* all its requests have ended.                                              *)
LEMMA Destroyed ==
  ASSUME IInv, NEW a \in Address,
         wcdo'[a] = NewObject, RequestQueue'[a] = <<>>, issued'[a] = issued[a],
         outcome'[a] = Ended(outcome, a, ToSet(RequestQueue[a]), "failed")[a],
         sent'[a] = sent[a], served'[a] = served[a], a \in cut' <=> a \in cut,
         ~Waits(a)', a \notin idleTable', a \notin timers', a \notin due'
  PROVE  /\ ObjectInv(a)'
         /\ outcome'[a] \in [Request -> {"none", "answered", "failed", "lost", "twice"}]
<1>1. /\ TypeOK /\ ObjectInv(a) /\ issued[a] \in 0 .. MaxRequest
      /\ ToSet(RequestQueue[a]) = {r \in Request : r > Gone(a) /\ r <= issued[a]}
      /\ RequestQueue[a] = <<>> <=> Gone(a) = issued[a]
      /\ Gone(a) \in 0 .. issued[a]
  BY ObjectFacts DEF IInv
<1>2. MaxRequest \in Nat /\ issued[a] \in Nat /\ Gone(a) \in Nat /\ Gone(a) <= issued[a]
  BY <1>1, WebClientAssumption
<1>3. ~HasSocket(a)' /\ ~Connecting(a)' /\ ~wcdo'[a].FinHeader /\ ~wcdo'[a].WaitForClose
  BY DEF HasSocket, Connecting, NewObject
<1>4. Gone(a)' = issued[a] /\ Numbered(RequestQueue'[a], issued'[a])
  BY <1>2 DEF Gone, Numbered
<1>5. \A r \in Request :
        /\ outcome[a][r] = "none" <=> r > Gone(a)
        /\ outcome[a][r] # "twice"
        /\ outcome[a][r] = "lost" => r > 1 /\ outcome[a][r - 1] = "failed" /\ r - 1 \in Request
        /\ r \in Nat
  BY <1>1, <1>2 DEF ObjectInv, OutcomeOf, Request
<1>6. \A r \in Request : outcome'[a][r] = IF r > Gone(a) /\ r <= issued[a] THEN "failed"
                                         ELSE outcome[a][r]
  BY <1>1, <1>5 DEF TypeOK, Ended
<1>7. outcome'[a] \in [Request -> {"none", "answered", "failed", "lost", "twice"}]
  BY <1>1 DEF TypeOK, Ended
<1>8. QueueOf(a)' /\ LinkOf(a)' /\ HeaderOf(a)'
  BY <1>3, <1>4 DEF QueueOf, LinkOf, HeaderOf
<1>9. SentOf(a)'
  <2>1. \A r \in Request : r \in Nat /\ (r > Gone(a) + 1 => sent[a][r] = 0)
    BY <1>1, <1>2 DEF ObjectInv, SentOf, Request
  <2>2. RequestQueue[a] = <<>> => \A r \in Request : r = Gone(a) + 1 => sent[a][r] = 0
    BY <1>1 DEF ObjectInv, SentOf
  <2>3. ASSUME NEW r \in Request, r > issued[a] PROVE sent[a][r] = 0
    <3>1. CASE Gone(a) = issued[a]
      BY <1>1, <1>2, <2>1, <2>2, <2>3, <3>1
    <3>2. CASE Gone(a) # issued[a]
      BY <1>2, <2>1, <2>3, <3>2
    <3>3. QED
      BY <3>1, <3>2
  <2>4. \A r \in Request : r > issued[a] => sent'[a][r] = 0
    BY <2>3
  <2>5. \A r \in Request : r > issued[a] + 1 \/ r = issued[a] + 1 => r > issued[a]
    BY <1>2, <2>1
  <2>6. QED
    BY <1>3, <1>4, <2>4, <2>5 DEF SentOf
<1>10. OutcomeOf(a)'
  <2>1. \A r \in Request : outcome'[a][r] = "none" <=> r > issued[a]
    BY <1>2, <1>5, <1>6
  <2>2. \A r \in Request : outcome'[a][r] # "twice"
    BY <1>5, <1>6
  <2>3. ASSUME NEW r \in Request, outcome'[a][r] = "lost" PROVE r > 1 /\ outcome'[a][r - 1] = "failed"
    BY <1>5, <1>6, <2>3
  <2>4. QED
    BY <1>4, <2>1, <2>2, <2>3 DEF OutcomeOf
<1>11. AnswerOf(a)'
  BY <1>1, <1>3, <1>6 DEF ObjectInv, AnswerOf
<1>12. QED
  BY <1>7, <1>8, <1>9, <1>10, <1>11 DEF ObjectInv

LEMMA OnConnectFailedKeeps ==
  ASSUME IInv, NEW s \in Sock, OnConnectFailed(s) PROVE IInv'
<1>0. PICK a \in Address : a = socks[s].user
  BY SocketFacts DEF OnConnectFailed
<1>1. /\ TypeOK /\ socks[s].state = "connecting"
      /\ UNCHANGED <<idleCount, backlogQueue, timers, due, running, issued, sent, served, cut, left>>
      /\ DataTable' = DataTable \ {a} /\ idleTable' = idleTable \ {a}
      /\ wcdo' = [wcdo EXCEPT ![a] = NewObject]
      /\ RequestQueue' = [RequestQueue EXCEPT ![a] = <<>>]
      /\ outcome' = Ended(outcome, a, ToSet(RequestQueue[a]), "failed")
      /\ socks' = [socks EXCEPT ![s] = FreeSock]
  BY <1>0 DEF IInv, OnConnectFailed, history
<1>2. /\ a \in Address /\ wcdo[a].SOCK = s /\ ~Waits(a) /\ Connecting(a)
  BY <1>0, <1>1, SocketFacts
<1>3. a \notin timers /\ a \notin due
  BY <1>2 DEF IInv, ObjectInv, LinkOf
<1>4. NewObject \in Object /\ FreeSock \in Socket
  BY WebClientAssumption DEF NewObject, Object, NULL, FreeSock, Socket
<1>5. /\ wcdo' \in [Address -> Object] /\ wcdo'[a] = NewObject
      /\ RequestQueue' \in [Address -> Seq(Request)] /\ RequestQueue'[a] = <<>>
      /\ \A b \in Address \ {a} : wcdo'[b] = wcdo[b] /\ RequestQueue'[b] = RequestQueue[b]
  BY <1>1, <1>2, <1>4 DEF TypeOK
<1>6. /\ socks' \in [Sock -> Socket] /\ socks'[s].state = "free"
      /\ \A k \in Sock \ {s} : socks'[k] = socks[k]
  BY <1>1, <1>4 DEF TypeOK, FreeSock
<1>7. /\ outcome'[a] = Ended(outcome, a, ToSet(RequestQueue[a]), "failed")[a]
      /\ \A b \in Address \ {a} : outcome'[b] = outcome[b]
      /\ DOMAIN outcome' = Address /\ outcome' = [b \in Address |-> outcome'[b]]
  BY <1>1 DEF TypeOK, Ended
<1>8. ~Waits(a)' /\ \A b \in Address : b \in ToSet(backlogQueue') <=> b \in ToSet(backlogQueue)
  BY <1>1, <1>2 DEF Waits
<1>9. /\ ObjectInv(a)'
      /\ outcome'[a] \in [Request -> {"none", "answered", "failed", "lost", "twice"}]
  BY <1>1, <1>2, <1>3, <1>5, <1>7, <1>8, Destroyed
<1>10. outcome' \in [Address -> [Request -> {"none", "answered", "failed", "lost", "twice"}]]
  BY <1>1, <1>7, <1>9 DEF TypeOK
<1>11. TypeOK'
  BY <1>1, <1>5, <1>6, <1>10 DEF TypeOK
<1>12. OnlyOf(a)
  BY <1>1, <1>2, <1>5, <1>6, <1>7, <1>8 DEF OnlyOf, Waits
<1>13. IsInjective(backlogQueue)'
  BY <1>1 DEF IInv
<1>14. QED
  BY <1>2, <1>9, <1>11, <1>12, <1>13, OnlyKeeps
-----------------------------------------------------------------------------
(* Answers. *)

(* The server answers the oldest request it has got.  If nothing was cut off  *)
(* this is the request under way, and the only one it has got.               *)
LEMMA AnswersFacts ==
  ASSUME IInv, NEW s \in Sock, Answers(s), NEW a \in Address, a = socks[s].user
  PROVE  /\ socks[s].state = "connected" /\ due = {} /\ ~socks[s].body
         /\ UNCHANGED <<tables, backlogQueue, due, running, issued, cut, left>>
         /\ served' \in [Address -> SUBSET Request] /\ served[a] \subseteq served'[a]
         /\ \A b \in Address \ {a} : served'[b] = served[b]
         /\ AfterHead(s) \in Socket /\ AfterHead(s).state = "connected"
         /\ AfterHead(s).user = a /\ ~AfterHead(s).body
         /\ a \notin cut => /\ RequestQueue[a] # <<>> /\ ~wcdo[a].FinHeader
                            /\ AfterHead(s).asked = <<>> /\ Gone(a) + 1 \in served'[a]
<1>1. /\ TypeOK /\ socks[s].state = "connected" /\ due = {} /\ ~socks[s].body
      /\ socks[s].asked # <<>>
      /\ served' = [served EXCEPT ![a] = served[a] \cup {Head(socks[s].asked)}]
      /\ UNCHANGED <<tables, backlogQueue, due, running, issued, cut, left>>
  BY DEF IInv, Answers, Told
<1>2. /\ socks[s] \in Socket /\ HasSocket(a) /\ SocketOf(a) = socks[s] /\ ~Connecting(a)
      /\ ObjectInv(a)
  BY <1>1, SocketFacts DEF IInv
<1>3. Head(socks[s].asked) \in Request /\ Tail(socks[s].asked) \in Seq(Request)
  BY <1>1, <1>2, HeadTailProperties DEF Socket
<1>4. /\ served' \in [Address -> SUBSET Request] /\ served'[a] = served[a] \cup {Head(socks[s].asked)}
      /\ \A b \in Address \ {a} : served'[b] = served[b]
  BY <1>1, <1>3 DEF TypeOK
<1>5. /\ AfterHead(s) \in Socket /\ AfterHead(s).state = "connected" /\ AfterHead(s).user = a
      /\ ~AfterHead(s).body /\ AfterHead(s).asked = Tail(socks[s].asked)
  BY <1>1, <1>2, <1>3 DEF AfterHead, Socket
<1>6. ASSUME a \notin cut
      PROVE  /\ RequestQueue[a] # <<>> /\ ~wcdo[a].FinHeader
             /\ AfterHead(s).asked = <<>> /\ Gone(a) + 1 \in served'[a]
  <2>1. RequestQueue[a] # <<>> /\ ~wcdo[a].FinHeader /\ socks[s].asked = <<Gone(a) + 1>>
    BY <1>1, <1>2, <1>6 DEF ObjectInv, AnswerOf
  <2>2. Head(<<Gone(a) + 1>>) = Gone(a) + 1 /\ Tail(<<Gone(a) + 1>>) = <<>>
    OBVIOUS
  <2>3. QED
    BY <1>4, <1>5, <2>1, <2>2
<1>7. QED
  BY <1>1, <1>4, <1>5, <1>6

(* An answer that ends no request is only met by an object whose answer was   *)
(* cut off.                                                                 *)
LEMMA DroppedKeeps ==
  ASSUME IInv, NEW s \in Sock, Answers(s),
         RequestQueue[socks[s].user] = <<>> \/ wcdo[socks[s].user].FinHeader,
         socks' = [socks EXCEPT ![s] = AfterHead(s)],
         UNCHANGED <<wcdo, RequestQueue, timers, outcome, sent>>
  PROVE  IInv'
<1>1. PICK a \in Address : a = socks[s].user
  BY SocketFacts DEF Answers, Told
<1>2. /\ TypeOK /\ socks[s].state = "connected" /\ ~socks[s].body
      /\ UNCHANGED <<DataTable, idleTable, idleCount, wcdo, RequestQueue, backlogQueue, timers, due,
                     running, issued, outcome, sent, cut, left>>
      /\ served' \in [Address -> SUBSET Request]
      /\ \A b \in Address \ {a} : served'[b] = served[b]
      /\ AfterHead(s) \in Socket /\ AfterHead(s).state = "connected"
      /\ AfterHead(s).user = a /\ ~AfterHead(s).body
      /\ a \in cut
  BY <1>1, AnswersFacts DEF IInv, tables
<1>3. /\ wcdo[a].SOCK = s /\ HasSocket(a) /\ SocketOf(a) = socks[s] /\ ~Connecting(a)
      /\ ObjectInv(a) /\ ~Waits(a)
  BY <1>1, <1>2, SocketFacts DEF IInv
<1>4. /\ socks' \in [Sock -> Socket] /\ socks'[s] = AfterHead(s)
      /\ \A k \in Sock \ {s} : socks'[k] = socks[k]
  BY <1>2 DEF TypeOK
<1>5. TypeOK'
  BY <1>2, <1>4 DEF TypeOK
<1>6. OnlyOf(a)
  BY <1>2, <1>3, <1>4 DEF OnlyOf, Waits
<1>7. /\ ~Waits(a)' /\ HasSocket(a)' /\ ~Connecting(a)' /\ SocketOf(a)' = AfterHead(s)
      /\ Gone(a)' = Gone(a)
  BY <1>2, <1>3, <1>4 DEF Waits, HasSocket, Connecting, SocketOf, Gone
<1>8. QueueOf(a)' /\ LinkOf(a)' /\ HeaderOf(a)'
  BY <1>2, <1>3, <1>7 DEF ObjectInv, QueueOf, LinkOf, HeaderOf
<1>9. SentOf(a)'
  BY <1>2, <1>3, <1>7 DEF ObjectInv, SentOf
<1>10. OutcomeOf(a)'
  BY <1>2, <1>3, <1>7 DEF ObjectInv, OutcomeOf
<1>11. AnswerOf(a)'
  BY <1>2 DEF AnswerOf
<1>12. IsInjective(backlogQueue)'
  BY <1>2 DEF IInv
<1>13. QED
  BY <1>5, <1>6, <1>8, <1>9, <1>10, <1>11, <1>12, OnlyKeeps DEF ObjectInv

LEMMA OnDataWholeKeeps ==
  ASSUME IInv, NEW s \in Sock, OnDataWhole(s) PROVE IInv'
<1>1. PICK a \in Address : a = socks[s].user
  BY SocketFacts DEF OnDataWhole, Answers, Told
<1>2. Answers(s) /\ RequestQueue[a] # <<>> /\ FinishedResponse(s, a, AfterHead(s))
  BY <1>1 DEF OnDataWhole
<1>3. QED
  BY <1>1, <1>2, AnswersFacts, FinishedResponseKeeps

LEMMA OnDataMisreadKeeps ==
  ASSUME IInv, NEW s \in Sock, OnDataMisread(s) PROVE IInv'
<1>1. PICK a \in Address : a = socks[s].user
  BY SocketFacts DEF OnDataMisread, Answers, Told
<1>2. Answers(s) /\ RequestQueue[a] # <<>> /\ wcdo[a].FinHeader
  BY <1>1 DEF OnDataMisread
<1>3. a \in cut
  BY <1>1, <1>2, AnswersFacts
<1>4. socks[s] \in Socket
  BY DEF IInv, TypeOK
<1>5. CASE /\ socks' = [socks EXCEPT ![s] = AfterHead(s)]
           /\ UNCHANGED <<wcdo, RequestQueue, timers, outcome, sent>>
  BY <1>1, <1>2, <1>5, DroppedKeeps
<1>6. CASE FinishedResponse(s, a, AfterHead(s))
  BY <1>1, <1>2, <1>3, <1>6, AnswersFacts, FinishedResponseKeeps
<1>7. CASE FinishedResponse(s, a, socks[s])
  BY <1>1, <1>2, <1>3, <1>4, <1>7, AnswersFacts, FinishedResponseKeeps
<1>8. QED
  BY <1>1, <1>5, <1>6, <1>7 DEF OnDataMisread

LEMMA OnDataBodyKeeps ==
  ASSUME IInv, NEW s \in Sock, OnDataBody(s) PROVE IInv'
<1>1. PICK a \in Address : a = socks[s].user
  BY SocketFacts DEF OnDataBody, Told
<1>2. /\ TypeOK /\ socks[s].state = "connected" /\ due = {} /\ socks[s].body
      /\ FinishedResponse(s, a, [socks[s] EXCEPT !.body = FALSE])
      /\ UNCHANGED <<tables, backlogQueue, due, running, issued, served, cut, left>>
  BY <1>1 DEF OnDataBody, Told, IInv
<1>3. /\ HasSocket(a) /\ SocketOf(a) = socks[s] /\ ~Connecting(a) /\ ObjectInv(a)
      /\ socks[s] \in Socket
  BY <1>1, <1>2, SocketFacts DEF IInv
<1>4. wcdo[a].FinHeader /\ RequestQueue[a] # <<>>
  BY <1>2, <1>3 DEF ObjectInv, HeaderOf
<1> DEFINE rest == [socks[s] EXCEPT !.body = FALSE]
<1>5. rest \in Socket /\ rest.state = "connected" /\ rest.user = a /\ ~rest.body
  BY <1>1, <1>2, <1>3 DEF Socket
<1>6. a \notin cut => rest.asked = <<>> /\ Gone(a) + 1 \in served[a]
  BY <1>3, <1>4 DEF ObjectInv, AnswerOf, Socket
<1>7. served' \in [Address -> SUBSET Request] /\ served'[a] = served[a]
  BY <1>2 DEF TypeOK
<1> HIDE DEF rest
<1>8. QED
  BY <1>1, <1>2, <1>4, <1>5, <1>6, <1>7, FinishedResponseKeeps DEF rest

LEMMA OnDataHeaderKeeps ==
  ASSUME IInv, NEW s \in Sock, OnDataHeader(s) PROVE IInv'
<1>1. PICK a \in Address : a = socks[s].user
  BY SocketFacts DEF OnDataHeader, Answers, Told
<1>2. PICK close \in BOOLEAN :
        /\ wcdo' = [wcdo EXCEPT ![a] = [wcdo[a] EXCEPT !.FinHeader = TRUE, !.WaitForClose = close]]
        /\ socks' = [socks EXCEPT ![s] = [AfterHead(s) EXCEPT !.body = ~close]]
  BY <1>1 DEF OnDataHeader, IInv, TypeOK
<1>3. /\ TypeOK /\ Answers(s) /\ RequestQueue[a] # <<>> /\ ~wcdo[a].FinHeader
      /\ UNCHANGED <<RequestQueue, timers, outcome, sent>>
  BY <1>1 DEF OnDataHeader, IInv
<1>4. /\ socks[s].state = "connected"
      /\ UNCHANGED <<DataTable, idleTable, idleCount, backlogQueue, due, running, issued, cut, left>>
      /\ served' \in [Address -> SUBSET Request] /\ served[a] \subseteq served'[a]
      /\ \A b \in Address \ {a} : served'[b] = served[b]
      /\ AfterHead(s) \in Socket /\ AfterHead(s).state = "connected"
      /\ AfterHead(s).user = a
      /\ a \notin cut => AfterHead(s).asked = <<>> /\ Gone(a) + 1 \in served'[a]
  BY <1>1, <1>3, AnswersFacts DEF tables
<1>5. /\ wcdo[a].SOCK = s /\ HasSocket(a) /\ SocketOf(a) = socks[s] /\ ~Connecting(a)
      /\ ObjectInv(a) /\ ~Waits(a) /\ wcdo[a] \in Object /\ a \in DataTable
  BY <1>1, <1>4, SocketFacts, ObjectFacts
<1>6. /\ wcdo' \in [Address -> Object] /\ \A b \in Address \ {a} : wcdo'[b] = wcdo[b]
      /\ wcdo'[a].SOCK = s /\ wcdo'[a].Closing = wcdo[a].Closing
      /\ wcdo'[a].InitialRequestAnswered = wcdo[a].InitialRequestAnswered
      /\ wcdo'[a].FinHeader /\ wcdo'[a].WaitForClose = close
  BY <1>2, <1>3, <1>5 DEF TypeOK, Object
<1>7. /\ socks' \in [Sock -> Socket] /\ \A k \in Sock \ {s} : socks'[k] = socks[k]
      /\ socks'[s].state = "connected" /\ socks'[s].user = a /\ socks'[s].body = ~close
      /\ socks'[s].asked = AfterHead(s).asked
  BY <1>2, <1>3, <1>4 DEF TypeOK, Socket
<1>8. TypeOK'
  BY <1>3, <1>4, <1>6, <1>7 DEF TypeOK
<1>9. OnlyOf(a)
  <2>1. \A k \in Sock : /\ k # wcdo[a].SOCK => socks'[k] = socks[k]
                        /\ k = wcdo[a].SOCK => socks'[k].user = a /\ wcdo'[a].SOCK = k
    BY <1>5, <1>6, <1>7
  <2>2. QED
    BY <1>3, <1>4, <1>6, <2>1 DEF OnlyOf, Waits
<1>10. /\ ~Waits(a)' /\ HasSocket(a)' /\ ~Connecting(a)' /\ SocketOf(a)' = socks'[s]
       /\ Gone(a)' = Gone(a)
  BY <1>3, <1>4, <1>5, <1>6, <1>7 DEF Waits, HasSocket, Connecting, SocketOf, Gone
<1>11. QueueOf(a)' /\ LinkOf(a)'
  BY <1>3, <1>4, <1>5, <1>6, <1>7, <1>10 DEF ObjectInv, QueueOf, LinkOf
<1>12. HeaderOf(a)'
  BY <1>3, <1>6, <1>7, <1>10 DEF HeaderOf
<1>13. SentOf(a)'
  BY <1>3, <1>5, <1>6, <1>10 DEF ObjectInv, SentOf
<1>14. OutcomeOf(a)'
  BY <1>3, <1>5, <1>10 DEF ObjectInv, OutcomeOf
<1>15. AnswerOf(a)'
  BY <1>3, <1>4, <1>5, <1>6, <1>7, <1>10 DEF ObjectInv, AnswerOf
<1>16. IsInjective(backlogQueue)'
  BY <1>4 DEF IInv
<1>17. QED
  BY <1>8, <1>9, <1>11, <1>12, <1>13, <1>14, <1>15, <1>16, OnlyKeeps DEF ObjectInv
-----------------------------------------------------------------------------
(* A connection ends. *)

(* What every end of a connection does: the socket is free, the object has    *)
(* none, and the rest depends on what was left to do.                        *)
LEMMA DisconnectedFacts ==
  ASSUME IInv, NEW s \in Sock, OnDisconnect(s), NEW a \in Address, a = socks[s].user
  PROVE  /\ TypeOK /\ ObjectInv(a) /\ HasSocket(a) /\ ~Connecting(a) /\ SocketOf(a) = socks[s]
         /\ ~Waits(a) /\ a \in DataTable /\ a \notin idleTable /\ wcdo[a] \in Object
         /\ UNCHANGED <<DataTable, idleTable, idleCount, timers, due, running, issued, sent, served, left>>
         /\ socks' \in [Sock -> Socket]
         /\ \A k \in Sock : /\ k # wcdo[a].SOCK => socks'[k] = socks[k]
                            /\ k = wcdo[a].SOCK => socks'[k].state = "free"
<1>1. /\ TypeOK /\ socks[s].state = "connected" /\ socks' = [socks EXCEPT ![s] = FreeSock]
      /\ UNCHANGED <<DataTable, idleTable, idleCount, timers, due, running, issued, sent, served, left>>
  BY DEF IInv, OnDisconnect, tables
<1>2. /\ HasSocket(a) /\ ~Connecting(a) /\ SocketOf(a) = socks[s]
      /\ wcdo[a].SOCK = s /\ ~Waits(a) /\ a \in DataTable /\ ObjectInv(a) /\ wcdo[a] \in Object
  BY <1>1, SocketFacts, ObjectFacts
<1>3. a \notin idleTable
  BY <1>2 DEF ObjectInv, LinkOf
<1>4. FreeSock \in Socket /\ FreeSock.state = "free"
  BY DEF FreeSock, Socket
<1>5. /\ socks' \in [Sock -> Socket]
      /\ \A k \in Sock : /\ k # wcdo[a].SOCK => socks'[k] = socks[k]
                         /\ k = wcdo[a].SOCK => socks'[k].state = "free"
  BY <1>1, <1>2, <1>4 DEF TypeOK
<1>6. QED
  BY <1>1, <1>2, <1>3, <1>5

LEMMA DisconnectedIdleKeeps ==
  ASSUME IInv, NEW s \in Sock, OnDisconnect(s), NEW a \in Address, a = socks[s].user,
         DisconnectedIdle(a)
  PROVE  IInv'
<1>1. /\ ~wcdo[a].WaitForClose /\ (wcdo[a].Closing \/ RequestQueue[a] = <<>>)
      /\ wcdo' = [wcdo EXCEPT ![a] = [wcdo[a] EXCEPT !.SOCK = NULL]]
      /\ UNCHANGED <<RequestQueue, backlogQueue, outcome, cut>>
  BY DEF DisconnectedIdle, IInv, TypeOK
<1>2. /\ TypeOK /\ ObjectInv(a) /\ HasSocket(a) /\ ~Connecting(a)
      /\ ~Waits(a) /\ a \in DataTable /\ a \notin idleTable
      /\ UNCHANGED <<DataTable, idleTable, idleCount, timers, due, running, issued, sent, served, left>>
      /\ socks' \in [Sock -> Socket]
      /\ \A k \in Sock : /\ k # wcdo[a].SOCK => socks'[k] = socks[k]
                         /\ k = wcdo[a].SOCK => socks'[k].state = "free"
  BY DisconnectedFacts
<1>3. /\ wcdo' \in [Address -> Object] /\ \A b \in Address \ {a} : wcdo'[b] = wcdo[b]
      /\ wcdo'[a].SOCK = NULL /\ wcdo'[a].Closing = wcdo[a].Closing
      /\ wcdo'[a].FinHeader = wcdo[a].FinHeader /\ wcdo'[a].WaitForClose = wcdo[a].WaitForClose
  <2>1. wcdo[a] \in Object /\ NULL \in 0 .. PoolSize
    BY DisconnectedFacts, WebClientAssumption DEF NULL
  <2>2. QED
    BY <1>1, <1>2, <2>1 DEF TypeOK, Object
<1>4. TypeOK'
  BY <1>1, <1>2, <1>3 DEF TypeOK
<1>5. OnlyOf(a)
  BY <1>1, <1>2, <1>3 DEF OnlyOf, Waits
<1>6. ~Waits(a)' /\ ~HasSocket(a)' /\ ~Connecting(a)' /\ Gone(a)' = Gone(a)
  BY <1>1, <1>2, <1>3 DEF Waits, HasSocket, Connecting, Gone
<1>7. QueueOf(a)' /\ LinkOf(a)'
  BY <1>1, <1>2, <1>3, <1>6 DEF ObjectInv, QueueOf, LinkOf
<1>8. HeaderOf(a)' /\ SentOf(a)'
  BY <1>1, <1>2, <1>3, <1>6 DEF ObjectInv, HeaderOf, SentOf
<1>9. OutcomeOf(a)' /\ AnswerOf(a)'
  BY <1>1, <1>2, <1>3, <1>6 DEF ObjectInv, OutcomeOf, AnswerOf
<1>10. IsInjective(backlogQueue)'
  BY <1>1 DEF IInv
<1>11. QED
  BY <1>4, <1>5, <1>7, <1>8, <1>9, <1>10, OnlyKeeps DEF ObjectInv

LEMMA DisconnectedRetryKeeps ==
  ASSUME IInv, NEW s \in Sock, OnDisconnect(s), NEW a \in Address, a = socks[s].user,
         DisconnectedRetry(a)
  PROVE  IInv'
<1>1. /\ ~wcdo[a].WaitForClose /\ ~wcdo[a].Closing /\ RequestQueue[a] # <<>>
      /\ wcdo[a].InitialRequestAnswered
      /\ backlogQueue' = Append(backlogQueue, a)
      /\ wcdo' = [wcdo EXCEPT ![a] = [wcdo[a] EXCEPT !.SOCK = NULL]]
      /\ cut' = IF wcdo[a].FinHeader THEN cut \cup {a} ELSE cut
      /\ UNCHANGED <<RequestQueue, outcome>>
  BY DEF DisconnectedRetry, IInv, TypeOK
<1>2. /\ TypeOK /\ ObjectInv(a) /\ HasSocket(a) /\ ~Connecting(a)
      /\ ~Waits(a) /\ a \in DataTable /\ a \notin idleTable
      /\ UNCHANGED <<DataTable, idleTable, idleCount, timers, due, running, issued, sent, served, left>>
      /\ socks' \in [Sock -> Socket]
      /\ \A k \in Sock : /\ k # wcdo[a].SOCK => socks'[k] = socks[k]
                         /\ k = wcdo[a].SOCK => socks'[k].state = "free"
  BY DisconnectedFacts
<1>3. /\ wcdo' \in [Address -> Object] /\ \A b \in Address \ {a} : wcdo'[b] = wcdo[b]
      /\ wcdo'[a].SOCK = NULL /\ wcdo'[a].Closing = wcdo[a].Closing
      /\ wcdo'[a].FinHeader = wcdo[a].FinHeader /\ wcdo'[a].WaitForClose = wcdo[a].WaitForClose
  <2>1. wcdo[a] \in Object /\ NULL \in 0 .. PoolSize
    BY DisconnectedFacts, WebClientAssumption DEF NULL
  <2>2. QED
    BY <1>1, <1>2, <2>1 DEF TypeOK, Object
<1>4. /\ backlogQueue' \in Seq(Address) /\ IsInjective(backlogQueue')
      /\ ToSet(backlogQueue') = ToSet(backlogQueue) \cup {a}
  BY <1>1, <1>2, Joined DEF IInv, TypeOK, Waits
<1>5. cut \subseteq cut' /\ cut' \subseteq cut \cup {a} /\ (wcdo[a].FinHeader => a \in cut')
  BY <1>1
<1>6. TypeOK'
  BY <1>1, <1>2, <1>3, <1>4 DEF TypeOK
<1>7. OnlyOf(a)
  BY <1>1, <1>2, <1>3, <1>4, <1>5 DEF OnlyOf, Waits
<1>8. Waits(a)' /\ ~HasSocket(a)' /\ ~Connecting(a)' /\ Gone(a)' = Gone(a)
  BY <1>1, <1>2, <1>3, <1>4 DEF Waits, HasSocket, Connecting, Gone
<1>9. QueueOf(a)' /\ LinkOf(a)'
  BY <1>1, <1>2, <1>3, <1>8 DEF ObjectInv, QueueOf, LinkOf
<1>10. HeaderOf(a)' /\ SentOf(a)'
  BY <1>1, <1>2, <1>3, <1>5, <1>8 DEF ObjectInv, HeaderOf, SentOf
<1>11. OutcomeOf(a)' /\ AnswerOf(a)'
  BY <1>1, <1>2, <1>3, <1>5, <1>8 DEF ObjectInv, OutcomeOf, AnswerOf
<1>12. QED
  BY <1>4, <1>6, <1>7, <1>9, <1>10, <1>11, OnlyKeeps DEF ObjectInv

(* One request less in the queue: what was not sent is as it was.             *)
LEMMA SentLater ==
  ASSUME IInv, NEW a \in Address, RequestQueue[a] # <<>>, sent'[a] = sent[a],
         Gone(a)' > Gone(a), Gone(a)' \in Nat
  PROVE  SentOf(a)'
<1>1. \A r \in Request : r > Gone(a) + 1 => sent[a][r] = 0
  BY DEF IInv, ObjectInv, SentOf
<1>2. Gone(a) \in Nat /\ \A r \in Request : r \in Nat
  BY ObjectFacts, WebClientAssumption DEF Request
<1>3. \A r \in Request : r > Gone(a)' + 1 \/ r = Gone(a)' + 1 => r > Gone(a) + 1
  BY <1>2
<1>4. \A r \in Request : r > Gone(a)' + 1 \/ r = Gone(a)' + 1 => sent'[a][r] = 0
  BY <1>1, <1>3
<1>5. QED
  BY <1>4 DEF SentOf

(* ILibWebClient_ResetWCDO, and the object has no socket any more.            *)
LEMMA WithoutSocket ==
  ASSUME NEW w \in Object
  PROVE  LET v == [Reset(w) EXCEPT !.SOCK = NULL]
         IN  /\ v \in Object /\ v.SOCK = NULL /\ v.Closing = w.Closing
             /\ ~v.FinHeader /\ ~v.WaitForClose /\ v.InitialRequestAnswered
<1>1. NULL \in 0 .. PoolSize
  BY WebClientAssumption DEF NULL
<1>2. Reset(w) \in Object /\ Reset(w).Closing = w.Closing /\ ~Reset(w).FinHeader
      /\ ~Reset(w).WaitForClose /\ Reset(w).InitialRequestAnswered
  BY DEF Reset, Object
<1>3. QED
  BY <1>1, <1>2 DEF Object

LEMMA DisconnectedAnsweredKeeps ==
  ASSUME IInv, NEW s \in Sock, OnDisconnect(s), NEW a \in Address, a = socks[s].user,
         DisconnectedAnswered(a)
  PROVE  IInv'
<1> DEFINE q == RequestQueue[a]
           g == Gone(a)
<1>1. /\ TypeOK /\ ObjectInv(a) /\ HasSocket(a) /\ ~Connecting(a)
      /\ ~Waits(a) /\ a \in DataTable /\ a \notin idleTable /\ wcdo[a] \in Object
      /\ UNCHANGED <<DataTable, idleTable, idleCount, timers, due, running, issued, sent, served, left>>
      /\ socks' \in [Sock -> Socket]
      /\ \A k \in Sock : /\ k # wcdo[a].SOCK => socks'[k] = socks[k]
                         /\ k = wcdo[a].SOCK => socks'[k].state = "free"
  BY DisconnectedFacts
<1>2. wcdo[a].WaitForClose /\ wcdo[a].FinHeader /\ q # <<>>
  BY <1>1 DEF DisconnectedAnswered, ObjectInv, HeaderOf
<1>3. /\ q \in Seq(Request) /\ issued[a] \in 0 .. MaxRequest
      /\ Numbered(q, issued[a]) /\ g \in Nat /\ Head(q) = g + 1
  BY <1>2, ObjectFacts, WebClientAssumption
<1>4. /\ outcome' = Ended(outcome, a, {g + 1}, "answered")
      /\ RequestQueue' = [RequestQueue EXCEPT ![a] = Tail(q)]
      /\ backlogQueue' = IF wcdo[a].Closing \/ Tail(q) = <<>> THEN backlogQueue
                         ELSE Append(backlogQueue, a)
      /\ wcdo' = [wcdo EXCEPT ![a] = [Reset(wcdo[a]) EXCEPT !.SOCK = NULL]]
      /\ cut' = cut
  BY <1>1, <1>3 DEF DisconnectedAnswered, TypeOK
<1>5. /\ RequestQueue'[a] = Tail(q) /\ RequestQueue' \in [Address -> Seq(Request)]
      /\ \A b \in Address \ {a} : RequestQueue'[b] = RequestQueue[b]
      /\ Numbered(Tail(q), issued[a]) /\ issued[a] - Len(Tail(q)) = g + 1
  BY <1>1, <1>2, <1>3, <1>4, TailNumbered DEF TypeOK, Gone
<1>6. Gone(a)' = g + 1
  BY <1>1, <1>5 DEF Gone
<1>7. /\ wcdo' \in [Address -> Object] /\ \A b \in Address \ {a} : wcdo'[b] = wcdo[b]
      /\ wcdo'[a].SOCK = NULL /\ wcdo'[a].Closing = wcdo[a].Closing
      /\ ~wcdo'[a].FinHeader /\ ~wcdo'[a].WaitForClose
  <2>1. wcdo'[a] = [Reset(wcdo[a]) EXCEPT !.SOCK = NULL]
    BY <1>1, <1>4 DEF TypeOK
  <2>2. QED
    BY <1>1, <1>4, <2>1, WithoutSocket DEF TypeOK
<1>8. /\ outcome' \in [Address -> [Request -> {"none", "answered", "failed", "lost", "twice"}]]
      /\ \A b \in Address \ {a} : outcome'[b] = outcome[b]
      /\ \A r \in Request : outcome'[a][r] = IF r = g + 1 THEN "answered" ELSE outcome[a][r]
      /\ OutcomeOf(a)'
  BY <1>2, <1>4, <1>6, FirstEnded
<1>9. /\ backlogQueue' \in Seq(Address) /\ IsInjective(backlogQueue')
      /\ ToSet(backlogQueue') = IF wcdo[a].Closing \/ Tail(q) = <<>> THEN ToSet(backlogQueue)
                                ELSE ToSet(backlogQueue) \cup {a}
  BY <1>1, <1>4, Joined DEF IInv, TypeOK, Waits
<1> HIDE DEF q, g
<1>10. TypeOK'
  BY <1>1, <1>4, <1>5, <1>7, <1>8, <1>9 DEF TypeOK
<1>11. OnlyOf(a)
  <2>1. \A b \in Address \ {a} : b \in ToSet(backlogQueue') <=> b \in ToSet(backlogQueue)
    BY <1>9
  <2>2. QED
    BY <1>1, <1>4, <1>5, <1>7, <1>8, <2>1 DEF OnlyOf, Waits
<1>12. /\ Waits(a)' <=> ~wcdo[a].Closing /\ Tail(q) # <<>>
       /\ ~HasSocket(a)' /\ ~Connecting(a)'
  BY <1>1, <1>7, <1>9 DEF Waits, HasSocket, Connecting
<1>13. QueueOf(a)'
  BY <1>1, <1>5, <1>12 DEF QueueOf
<1>14. LinkOf(a)'
  BY <1>1, <1>2, <1>5, <1>12 DEF ObjectInv, LinkOf, q
<1>15. HeaderOf(a)'
  BY <1>7, <1>12 DEF HeaderOf
<1>16. SentOf(a)'
  BY <1>1, <1>2, <1>3, <1>6, SentLater DEF q, g
<1>17. AnswerOf(a)'
  <2>1. ASSUME a \notin cut, NEW r \in Request, outcome'[a][r] = "answered" PROVE r \in served[a]
    BY <1>1, <1>2, <1>8, <2>1 DEF ObjectInv, AnswerOf, g
  <2>2. QED
    BY <1>1, <1>4, <1>7, <1>12, <2>1 DEF AnswerOf
<1>18. QED
  BY <1>8, <1>9, <1>10, <1>11, <1>13, <1>14, <1>15, <1>16, <1>17, OnlyKeeps DEF ObjectInv

LEMMA DisconnectedFailedKeeps ==
  ASSUME IInv, NEW s \in Sock, OnDisconnect(s), NEW a \in Address, a = socks[s].user,
         DisconnectedFailed(a)
  PROVE  IInv'
<1> DEFINE q == RequestQueue[a]
           g == Gone(a)
           n == Len(q)
           others == SubSeq(q, 3, Len(q))
<1>1. /\ TypeOK /\ ObjectInv(a) /\ HasSocket(a) /\ ~Connecting(a)
      /\ ~Waits(a) /\ a \in DataTable /\ a \notin idleTable /\ wcdo[a] \in Object
      /\ UNCHANGED <<DataTable, idleTable, idleCount, timers, due, running, issued, sent, served, left>>
      /\ socks' \in [Sock -> Socket]
      /\ \A k \in Sock : /\ k # wcdo[a].SOCK => socks'[k] = socks[k]
                         /\ k = wcdo[a].SOCK => socks'[k].state = "free"
  BY DisconnectedFacts
<1>2. /\ ~wcdo[a].Closing /\ q # <<>>
      /\ RequestQueue' = [RequestQueue EXCEPT ![a] = others]
      /\ backlogQueue' = IF others = <<>> THEN backlogQueue ELSE Append(backlogQueue, a)
      /\ wcdo' = [wcdo EXCEPT ![a] = [Reset(wcdo[a]) EXCEPT !.SOCK = NULL]]
      /\ cut' = cut
  BY <1>1 DEF DisconnectedFailed, TypeOK
<1>3. /\ q \in Seq(Request) /\ issued[a] \in 0 .. MaxRequest /\ Numbered(q, issued[a])
      /\ g \in Nat /\ g + 1 \in Request /\ q[1] = g + 1
  <2>1. /\ q \in Seq(Request) /\ issued[a] \in 0 .. MaxRequest /\ Numbered(q, issued[a])
        /\ g \in Nat /\ g + 1 \in Request /\ Head(q) = g + 1
    BY <1>2, ObjectFacts, WebClientAssumption
  <2>2. q[1] = Head(q)
    BY <1>2, <2>1, QueueFacts
  <2>3. QED
    BY <2>1, <2>2
<1>4. n \in Nat \ {0} /\ issued[a] \in Nat /\ g = issued[a] - n
  BY <1>2, <1>3, EmptySeq, LenProperties, WebClientAssumption DEF Gone
<1>5. n # 1 => q[2] = g + 2 /\ g + 2 \in Request
  <2> HIDE DEF g, n
  <2>1. ASSUME n # 1 PROVE 2 \in 1 .. n /\ issued[a] - n + 2 = g + 2
    BY <1>4, <2>1
  <2> USE DEF n
  <2>2. ASSUME n # 1 PROVE q[2] = issued[a] - n + 2
    BY <2>1, <2>2, <1>3 DEF Numbered
  <2>3. ASSUME n # 1 PROVE q[2] \in Request
    BY <2>1, <2>3, <1>3, ElementOfSeq
  <2>4. QED
    BY <2>1, <2>2, <2>3
<1>6. /\ others \in Seq(Request) /\ Numbered(others, issued[a])
      /\ Len(others) = IF n <= 2 THEN 0 ELSE n - 2
  BY <1>3, RestNumbered
<1> DEFINE gone == IF n = 1 THEN g + 1 ELSE g + 2
<1>7. issued[a] - Len(others) = gone
  <2> HIDE DEF n, others, g
  <2>1. CASE n = 1
    BY <1>4, <1>6, <2>1
  <2>2. CASE n = 2
    BY <1>4, <1>6, <2>2
  <2>3. CASE n > 2
    <3>1. Len(others) = n - 2 /\ n # 1
      BY <1>4, <1>6, <2>3
    <3>2. issued[a] - (n - 2) = (issued[a] - n) + 2
      BY <1>4
    <3>3. issued[a] - Len(others) = g + 2
      BY <1>4, <3>1, <3>2
    <3>4. QED
      BY <3>1, <3>3
  <2>4. QED
    BY <1>4, <2>1, <2>2, <2>3
<1> HIDE DEF n, others, q, g
<1>8. /\ RequestQueue' \in [Address -> Seq(Request)] /\ RequestQueue'[a] = others
      /\ \A b \in Address \ {a} : RequestQueue'[b] = RequestQueue[b]
  BY <1>1, <1>2, <1>6 DEF TypeOK
<1>9. Gone(a)' = gone
  BY <1>1, <1>7, <1>8 DEF Gone
<1>10. /\ wcdo' \in [Address -> Object] /\ \A b \in Address \ {a} : wcdo'[b] = wcdo[b]
       /\ wcdo'[a].SOCK = NULL /\ wcdo'[a].Closing = wcdo[a].Closing
       /\ ~wcdo'[a].FinHeader /\ ~wcdo'[a].WaitForClose
  <2>1. wcdo'[a] = [Reset(wcdo[a]) EXCEPT !.SOCK = NULL]
    BY <1>1, <1>2 DEF TypeOK
  <2>2. QED
    BY <1>1, <1>2, <2>1, WithoutSocket DEF TypeOK
<1>11. /\ backlogQueue' \in Seq(Address) /\ IsInjective(backlogQueue')
       /\ ToSet(backlogQueue') = IF others = <<>> THEN ToSet(backlogQueue)
                                 ELSE ToSet(backlogQueue) \cup {a}
  BY <1>1, <1>2, Joined DEF IInv, TypeOK, Waits
<1>12. \A r \in Request : /\ r \in Nat /\ (outcome[a][r] = "none" <=> r > g)
                          /\ outcome[a][r] # "twice"
                          /\ outcome[a][r] = "lost" => /\ r > 1 /\ outcome[a][r - 1] = "failed"
                                                       /\ r - 1 \in Request
  BY <1>1, WebClientAssumption DEF ObjectInv, OutcomeOf, Request, g
<1>13. /\ outcome' \in [Address -> [Request -> {"none", "answered", "failed", "lost", "twice"}]]
       /\ \A b \in Address \ {a} : outcome'[b] = outcome[b]
       /\ \A r \in Request : outcome'[a][r] = IF r = g + 1 THEN "failed"
                                              ELSE IF n # 1 /\ r = g + 2 THEN "lost"
                                              ELSE outcome[a][r]
  <2> DEFINE failed == Ended(outcome, a, {g + 1}, "failed")
  <2>1. outcome[a][g + 1] = "none" /\ (n # 1 => outcome[a][g + 2] = "none")
    <3>1. g + 1 > g /\ g + 2 > g
      BY <1>3
    <3>2. QED
      BY <1>3, <1>5, <1>12, <3>1
  <2>2. outcome' = IF n = 1 THEN failed ELSE Ended(failed, a, {g + 2}, "lost")
    BY <1>3, <1>5 DEF DisconnectedFailed, q, n
  <2>3. /\ failed \in [Address -> [Request -> {"none", "answered", "failed", "lost", "twice"}]]
        /\ \A b \in Address \ {a} : failed[b] = outcome[b]
        /\ \A r \in Request : failed[a][r] = IF r = g + 1 THEN "failed" ELSE outcome[a][r]
    BY <1>1, <1>3, <2>1 DEF TypeOK, Ended
  <2> HIDE DEF failed
  <2>4. CASE n = 1
    BY <2>2, <2>3, <2>4
  <2>5. CASE n # 1
    <3>1. g + 2 # g + 1 /\ g + 2 \in Request
      BY <1>3, <1>5, <2>5
    <3>2. failed[a][g + 2] = "none"
      BY <2>1, <2>3, <2>5, <3>1
    <3>3. outcome' = Ended(failed, a, {g + 2}, "lost")
      BY <2>2, <2>5
    <3>4. /\ outcome' \in [Address -> [Request -> {"none", "answered", "failed", "lost", "twice"}]]
          /\ \A b \in Address \ {a} : outcome'[b] = failed[b]
          /\ \A r \in Request : outcome'[a][r] = IF r = g + 2 THEN "lost" ELSE failed[a][r]
      BY <2>3, <3>2, <3>3 DEF Ended
    <3>5. QED
      BY <2>3, <2>5, <3>1, <3>4
  <2>6. QED
    BY <2>4, <2>5
<1>14. TypeOK'
  BY <1>1, <1>2, <1>8, <1>10, <1>11, <1>13 DEF TypeOK
<1>15. OnlyOf(a)
  <2>1. \A b \in Address \ {a} : b \in ToSet(backlogQueue') <=> b \in ToSet(backlogQueue)
    BY <1>11
  <2>2. QED
    BY <1>1, <1>2, <1>8, <1>10, <1>13, <2>1 DEF OnlyOf, Waits
<1>16. /\ Waits(a)' <=> others # <<>>
       /\ ~HasSocket(a)' /\ ~Connecting(a)'
  BY <1>1, <1>10, <1>11 DEF Waits, HasSocket, Connecting
<1>17. QueueOf(a)'
  BY <1>1, <1>6, <1>8, <1>16 DEF QueueOf
<1>18. LinkOf(a)'
  BY <1>1, <1>2, <1>8, <1>16 DEF ObjectInv, LinkOf, q
<1>19. HeaderOf(a)'
  BY <1>10, <1>16 DEF HeaderOf
<1>20. gone \in Nat /\ gone > g
  BY <1>3
<1>21. SentOf(a)'
  BY <1>1, <1>2, <1>9, <1>20, SentLater DEF q, g
<1>22. OutcomeOf(a)'
  <2>1. ASSUME NEW r \in Request PROVE outcome'[a][r] = "none" <=> r > gone
    <3>1. CASE r = g + 1
      BY <1>3, <1>13, <3>1
    <3>2. CASE r # g + 1 /\ n # 1 /\ r = g + 2
      BY <1>3, <1>13, <3>2
    <3>3. CASE r # g + 1 /\ ~(n # 1 /\ r = g + 2)
      <4>1. outcome'[a][r] = outcome[a][r]
        BY <1>13, <3>3
      <4>2. r > g <=> r > gone
        BY <1>3, <1>12, <3>3
      <4>3. QED
        BY <1>12, <4>1, <4>2
    <3>4. QED
      BY <3>1, <3>2, <3>3
  <2>2. ASSUME NEW r \in Request PROVE outcome'[a][r] # "twice"
    BY <1>12, <1>13
  <2>3. ASSUME NEW r \in Request, outcome'[a][r] = "lost" PROVE r > 1 /\ outcome'[a][r - 1] = "failed"
    <3>1. CASE r = g + 2 /\ n # 1
      <4>1. r - 1 = g + 1 /\ r > 1
        BY <1>3, <3>1
      <4>2. QED
        BY <1>3, <1>13, <4>1
    <3>2. CASE ~(r = g + 2 /\ n # 1)
      <4>1. outcome[a][r] = "lost"
        BY <1>13, <2>3, <3>2
      <4>2. r > 1 /\ outcome[a][r - 1] = "failed" /\ r - 1 \in Request
        BY <1>12, <4>1
      <4>3. ~(r - 1 > g)
        BY <1>12, <4>2
      <4>4. r - 1 # g + 1 /\ r - 1 # g + 2
        BY <1>3, <1>12, <4>3
      <4>5. QED
        BY <1>13, <4>2, <4>4
    <3>3. QED
      BY <3>1, <3>2
  <2>4. QED
    BY <1>9, <2>1, <2>2, <2>3 DEF OutcomeOf
<1>23. AnswerOf(a)'
  <2>1. ASSUME a \notin cut, NEW r \in Request, outcome'[a][r] = "answered" PROVE r \in served[a]
    BY <1>1, <1>13, <2>1 DEF ObjectInv, AnswerOf
  <2>2. QED
    BY <1>1, <1>2, <1>10, <1>16, <2>1 DEF AnswerOf
<1>24. QED
  BY <1>11, <1>14, <1>15, <1>17, <1>18, <1>19, <1>21, <1>22, <1>23, OnlyKeeps DEF ObjectInv

LEMMA OnDisconnectKeeps ==
  ASSUME IInv, NEW s \in Sock, OnDisconnect(s) PROVE IInv'
<1>1. PICK a \in Address : a = socks[s].user
  BY SocketFacts DEF OnDisconnect
<1>2. QED
  BY <1>1, DisconnectedIdleKeeps, DisconnectedAnsweredKeeps, DisconnectedRetryKeeps,
     DisconnectedFailedKeeps DEF OnDisconnect
-----------------------------------------------------------------------------
(* Timers. *)

LEMMA OnDataUnaskedKeeps ==
  ASSUME IInv, NEW s \in Sock, OnDataUnasked(s) PROVE IInv'
BY DroppedKeeps DEF OnDataUnasked

(* Timers that run out, or that had run out and find something to do, leave   *)
(* the rest alone; what has something to do has no timer.                    *)
LEMMA OnlyTimersKeeps ==
  ASSUME IInv, UNCHANGED <<DataTable, idleTable, idleCount, wcdo, RequestQueue, backlogQueue,
                           socks, running, issued, outcome, sent, served, cut, left>>,
         timers' \subseteq timers, due' \subseteq timers \cup due, timers' \cap due' = {},
         \A a \in due' : a \in due \/ RequestQueue[a] = <<>>
  PROVE  IInv'
<1>1. TypeOK' /\ IsInjective(backlogQueue)'
  BY DEF IInv, TypeOK
<1>2. ASSUME NEW a \in Address PROVE ObjectInv(a)'
  <2>1. ObjectInv(a)
    BY DEF IInv
  <2>2. /\ Waits(a)' <=> Waits(a)
        /\ HasSocket(a)' <=> HasSocket(a)
        /\ Connecting(a)' <=> Connecting(a)
        /\ SocketOf(a)' = SocketOf(a) /\ Gone(a)' = Gone(a)
    BY DEF Waits, HasSocket, Connecting, SocketOf, Gone
  <2>3. QueueOf(a)'
    BY <2>1, <2>2 DEF ObjectInv, QueueOf
  <2>4. LinkOf(a)'
    BY <2>1, <2>2 DEF ObjectInv, LinkOf
  <2>5. HeaderOf(a)' /\ SentOf(a)'
    BY <2>1, <2>2 DEF ObjectInv, HeaderOf, SentOf
  <2>6. OutcomeOf(a)' /\ AnswerOf(a)'
    BY <2>1, <2>2 DEF ObjectInv, OutcomeOf, AnswerOf
  <2>7. QED
    BY <2>3, <2>4, <2>5, <2>6 DEF ObjectInv
<1>3. \A s \in Sock : UserOf(s)'
  BY DEF IInv, UserOf
<1>4. QED
  BY <1>1, <1>2, <1>3 DEF IInv

LEMMA TimersDueKeeps ==
  ASSUME IInv, TimersDue PROVE IInv'
<1>1. PICK ready \in SUBSET timers \ {{}} : due' = ready /\ timers' = timers \ ready
  BY DEF TimersDue
<1>2. \A a \in timers : a \in Address /\ RequestQueue[a] = <<>>
  BY DEF IInv, TypeOK, ObjectInv, LinkOf
<1>3. QED
  BY <1>1, <1>2, OnlyTimersKeeps DEF TimersDue, tables, history

LEMMA TimerTooLateKeeps ==
  ASSUME IInv, NEW a \in Address, TimerTooLate(a) PROVE IInv'
<1>1. due' = due \ {a} /\ timers' = timers /\ timers \cap due = {}
  <2>1. \A b \in timers : b \in Address /\ b \notin due
    BY DEF IInv, TypeOK, ObjectInv, LinkOf
  <2>2. QED
    BY <2>1 DEF TimerTooLate, Fires
<1>2. QED
  BY <1>1, OnlyTimersKeeps DEF TimerTooLate, Fires, tables

LEMMA TimerIdlesKeeps ==
  ASSUME IInv, NEW a \in Address, TimerIdles(a) PROVE IInv'
<1> DEFINE v == [wcdo[a] EXCEPT !.SOCK = NULL, !.Closing = wcdo[a].Closing \/ wcdo[a].SOCK # NULL]
<1>1. /\ TypeOK /\ ObjectInv(a) /\ wcdo[a] \in Object /\ a \in due /\ RequestQueue[a] = <<>>
      /\ due' = due \ {a} /\ idleTable' = idleTable \cup {a} /\ idleCount' = idleCount + 1
      /\ wcdo' = [wcdo EXCEPT ![a] = v]
      /\ socks' = IF ~HasSocket(a) THEN socks ELSE [socks EXCEPT ![wcdo[a].SOCK] = FreeSock]
      /\ UNCHANGED <<DataTable, RequestQueue, backlogQueue, timers, running, issued, outcome,
                     sent, served, cut, left>>
  BY ObjectFacts DEF IInv, TypeOK, TimerIdles, Fires, HasSocket
<1>2. /\ a \in DataTable /\ ~Waits(a) /\ a \notin timers /\ ~wcdo[a].FinHeader
      /\ ~wcdo[a].WaitForClose
  BY <1>1 DEF ObjectInv, QueueOf, LinkOf, HeaderOf
<1>3. /\ wcdo' \in [Address -> Object] /\ \A b \in Address \ {a} : wcdo'[b] = wcdo[b]
      /\ wcdo'[a].SOCK = NULL /\ ~wcdo'[a].FinHeader /\ ~wcdo'[a].WaitForClose
  <2>1. NULL \in 0 .. PoolSize
    BY WebClientAssumption DEF NULL
  <2>2. v \in Object /\ v.SOCK = NULL /\ ~v.FinHeader /\ ~v.WaitForClose
    BY <1>1, <1>2, <2>1 DEF Object
  <2>3. QED
    BY <1>1, <2>2 DEF TypeOK
<1>4. /\ socks' \in [Sock -> Socket]
      /\ \A k \in Sock : /\ k # wcdo[a].SOCK => socks'[k] = socks[k]
                         /\ k = wcdo[a].SOCK => socks'[k].state = "free"
  <2>1. FreeSock \in Socket /\ FreeSock.state = "free"
    BY DEF FreeSock, Socket
  <2>2. ~HasSocket(a) => \A k \in Sock : k # wcdo[a].SOCK
    BY WebClientAssumption DEF HasSocket, Sock, NULL
  <2>3. QED
    BY <1>1, <2>1, <2>2 DEF TypeOK
<1> HIDE DEF v
<1>5. TypeOK'
  <2>1. idleCount' \in Nat
    BY <1>1 DEF TypeOK
  <2>2. QED
    BY <1>1, <1>3, <1>4, <2>1 DEF TypeOK
<1>6. OnlyOf(a)
  BY <1>1, <1>3, <1>4 DEF OnlyOf, Waits
<1>7. ~Waits(a)' /\ ~HasSocket(a)' /\ ~Connecting(a)' /\ Gone(a)' = Gone(a)
  BY <1>1, <1>2, <1>3 DEF Waits, HasSocket, Connecting, Gone
<1>8. QueueOf(a)' /\ LinkOf(a)' /\ HeaderOf(a)'
  BY <1>1, <1>2, <1>3, <1>7 DEF ObjectInv, QueueOf, LinkOf, HeaderOf
<1>9. SentOf(a)'
  BY <1>1, <1>7 DEF ObjectInv, SentOf
<1>10. OutcomeOf(a)' /\ AnswerOf(a)'
  BY <1>1, <1>3, <1>7 DEF ObjectInv, OutcomeOf, AnswerOf
<1>11. IsInjective(backlogQueue)'
  BY <1>1 DEF IInv
<1>12. QED
  BY <1>5, <1>6, <1>8, <1>9, <1>10, <1>11, OnlyKeeps DEF ObjectInv

(* An idle object has no socket, so that only its requests are to be ended    *)
(* when it is destroyed; the object of the timer keeps the socket it has.     *)
LEMMA TimerEvictsKeeps ==
  ASSUME IInv, NEW a \in Address, TimerEvicts(a) PROVE IInv'
<1> DEFINE v == [wcdo[a] EXCEPT !.Closing = wcdo[a].Closing \/ HasSocket(a)]
<1>1. PICK b \in idleTable :
        /\ idleTable' = idleTable \ {b} /\ DataTable' = DataTable \ {b}
        /\ wcdo' = [wcdo EXCEPT ![b] = NewObject, ![a].Closing = @ \/ wcdo[a].SOCK # NULL]
        /\ outcome' = Ended(outcome, b, ToSet(RequestQueue[b]), "failed")
        /\ RequestQueue' = [RequestQueue EXCEPT ![b] = <<>>]
  BY DEF TimerEvicts
<1>2. /\ TypeOK /\ ObjectInv(a) /\ wcdo[a] \in Object /\ a \in due /\ RequestQueue[a] = <<>>
      /\ due' = due \ {a} /\ idleCount' = idleCount - 1 /\ idleCount > MaxIdle
      /\ left' = IF HasSocket(a) THEN left \cup {a} ELSE left
      /\ UNCHANGED <<backlogQueue, timers, socks, running, issued, sent, served, cut>>
  BY ObjectFacts DEF IInv, TimerEvicts, Fires, HasSocket
<1>3. /\ b \in Address /\ ObjectInv(b) /\ a # b /\ ~HasSocket(b) /\ ~Waits(b)
      /\ b \notin timers /\ b \notin due
  BY <1>2 DEF IInv, TypeOK, ObjectInv, LinkOf
<1>4. NewObject \in Object /\ v \in Object /\ idleCount' \in Nat
  <2>1. NewObject \in Object /\ v \in Object
    <3>1. NewObject \in Object
      BY WebClientAssumption DEF NewObject, Object, NULL
    <3>2. (wcdo[a].Closing \/ HasSocket(a)) \in BOOLEAN
      BY <1>2 DEF HasSocket, Object
    <3>3. v \in Object
      BY <1>2, <3>2 DEF Object
    <3>4. QED
      BY <3>1, <3>3
  <2>2. idleCount \in Nat /\ MaxIdle \in Nat
    BY <1>2, WebClientAssumption DEF TypeOK
  <2>3. QED
    BY <1>2, <2>1, <2>2
<1>5. /\ wcdo' \in [Address -> Object] /\ wcdo'[a] = v /\ wcdo'[b] = NewObject
      /\ \A c \in Address \ {a, b} : wcdo'[c] = wcdo[c]
  BY <1>1, <1>2, <1>3, <1>4 DEF TypeOK, HasSocket
<1>6. /\ v.SOCK = wcdo[a].SOCK /\ v.FinHeader = wcdo[a].FinHeader
      /\ v.WaitForClose = wcdo[a].WaitForClose
      /\ v.InitialRequestAnswered = wcdo[a].InitialRequestAnswered
      /\ v.Closing <=> wcdo[a].Closing \/ HasSocket(a)
  BY <1>2 DEF Object
<1>7. /\ RequestQueue' \in [Address -> Seq(Request)] /\ RequestQueue'[b] = <<>>
      /\ \A c \in Address \ {b} : RequestQueue'[c] = RequestQueue[c]
  BY <1>1, <1>2, <1>3 DEF TypeOK
<1>8. /\ outcome'[b] = Ended(outcome, b, ToSet(RequestQueue[b]), "failed")[b]
      /\ \A c \in Address \ {b} : outcome'[c] = outcome[c]
      /\ DOMAIN outcome' = Address /\ outcome' = [c \in Address |-> outcome'[c]]
  BY <1>1, <1>2, <1>3 DEF TypeOK, Ended
<1> HIDE DEF v
<1>9. \A c \in Address : Waits(c)' <=> Waits(c)
  BY <1>2 DEF Waits
<1>10. /\ ObjectInv(b)'
       /\ outcome'[b] \in [Request -> {"none", "answered", "failed", "lost", "twice"}]
  <2>1. b \notin idleTable' /\ b \notin timers' /\ b \notin due' /\ ~Waits(b)'
    BY <1>1, <1>2, <1>3, <1>9
  <2>2. QED
    BY <1>2, <1>3, <1>5, <1>7, <1>8, <2>1, Destroyed
<1>11. ObjectInv(a)'
  <2>1. /\ HasSocket(a)' <=> HasSocket(a)
        /\ Connecting(a)' <=> Connecting(a)
        /\ HasSocket(a) => SocketOf(a)' = SocketOf(a)
        /\ Gone(a)' = Gone(a) /\ RequestQueue'[a] = RequestQueue[a] /\ outcome'[a] = outcome[a]
    BY <1>2, <1>3, <1>5, <1>6, <1>7, <1>8 DEF HasSocket, Connecting, SocketOf, Gone
  <2>2. a \in DataTable /\ a \in DataTable' /\ ~Waits(a) /\ a \notin idleTable' /\ a \notin timers'
    BY <1>1, <1>2, <1>3 DEF ObjectInv, QueueOf, LinkOf
  <2>3. QueueOf(a)' /\ LinkOf(a)'
    BY <1>2, <1>5, <1>6, <1>9, <2>1, <2>2 DEF ObjectInv, QueueOf, LinkOf
  <2>4. HeaderOf(a)' /\ SentOf(a)'
    BY <1>2, <1>5, <1>6, <1>9, <2>1 DEF ObjectInv, HeaderOf, SentOf
  <2>5. OutcomeOf(a)' /\ AnswerOf(a)'
    BY <1>2, <1>5, <1>6, <2>1 DEF ObjectInv, OutcomeOf, AnswerOf
  <2>6. QED
    BY <2>3, <2>4, <2>5 DEF ObjectInv
<1>12. ASSUME NEW c \in Address \ {a, b} PROVE ObjectInv(c)'
  <2>1. Same(c)
    BY <1>1, <1>2, <1>5, <1>7, <1>8, <1>9 DEF Same, HasSocket, SocketOf
  <2>2. QED
    BY <2>1, SameKeeps DEF IInv
<1>13. TypeOK'
  <2>1. outcome' \in [Address -> [Request -> {"none", "answered", "failed", "lost", "twice"}]]
    BY <1>2, <1>8, <1>10 DEF TypeOK
  <2>2. QED
    BY <1>1, <1>2, <1>4, <1>5, <1>7, <2>1 DEF TypeOK
<1>14. ASSUME NEW s \in Sock PROVE UserOf(s)'
  <2>1. CASE socks[s].state = "free"
    BY <1>2, <2>1 DEF UserOf
  <2>2. CASE socks[s].state # "free"
    <3>1. PICK c \in Address : c = socks[s].user
      BY <2>2, SocketFacts
    <3>2. wcdo[c].SOCK = s /\ HasSocket(c)
      BY <2>2, <3>1, SocketFacts
    <3>3. wcdo'[c].SOCK = s
      BY <1>3, <1>5, <1>6, <3>2
    <3>4. QED
      BY <1>2, <3>1, <3>3 DEF UserOf
  <2>3. QED
    BY <2>1, <2>2
<1>15. IsInjective(backlogQueue)'
  BY <1>2 DEF IInv
<1>16. QED
  BY <1>10, <1>11, <1>12, <1>13, <1>14, <1>15 DEF IInv
-----------------------------------------------------------------------------
(* The web client is destroyed. *)
LEMMA DestroyKeeps ==
  ASSUME IInv, Destroy PROVE IInv'
<1>1. /\ TypeOK /\ due = {} /\ due' = {} /\ running' = FALSE
      /\ DataTable' = {} /\ idleTable' = {} /\ idleCount' = 0
      /\ wcdo' = [a \in Address |-> NewObject] /\ RequestQueue' = [a \in Address |-> <<>>]
      /\ backlogQueue' = <<>> /\ timers' = {} /\ socks' = [s \in Sock |-> FreeSock]
      /\ UNCHANGED <<issued, sent, served, cut, left>>
      /\ outcome' = [a \in Address |-> outcome'[a]]
      /\ \A a \in Address :
           /\ outcome'[a] = [r \in Request |-> outcome'[a][r]]
           /\ \A r \in Request :
                outcome'[a][r] = IF r \notin ToSet(RequestQueue[a]) THEN outcome[a][r]
                                 ELSE IF outcome[a][r] # "none" THEN "twice"
                                 ELSE IF wcdo[a].WaitForClose /\ r = Head(RequestQueue[a])
                                      THEN "answered" ELSE "failed"
  BY DEF IInv, Destroy, history
<1>2. NewObject \in Object /\ FreeSock \in Socket
  BY WebClientAssumption DEF NewObject, Object, NULL, FreeSock, Socket
<1>3. IsInjective(backlogQueue)' /\ \A a \in Address : ~Waits(a)'
  BY <1>1 DEF IsInjective, Waits, ToSet
<1>4. ASSUME NEW a \in Address
      PROVE  /\ ObjectInv(a)'
             /\ outcome'[a] \in [Request -> {"none", "answered", "failed", "lost", "twice"}]
  <2>1. /\ ObjectInv(a) /\ issued[a] \in 0 .. MaxRequest
        /\ ToSet(RequestQueue[a]) = {r \in Request : r > Gone(a) /\ r <= issued[a]}
        /\ RequestQueue[a] = <<>> <=> Gone(a) = issued[a]
        /\ RequestQueue[a] # <<>> => Head(RequestQueue[a]) = Gone(a) + 1
        /\ Gone(a) \in 0 .. issued[a]
    BY ObjectFacts
  <2>2. MaxRequest \in Nat /\ issued[a] \in Nat /\ Gone(a) \in Nat /\ Gone(a) <= issued[a]
    BY <2>1, WebClientAssumption
  <2>3. ~HasSocket(a)' /\ ~Connecting(a)' /\ ~wcdo'[a].FinHeader /\ ~wcdo'[a].WaitForClose
    BY <1>1 DEF HasSocket, Connecting, NewObject
  <2>4. Gone(a)' = issued[a] /\ Numbered(RequestQueue'[a], issued'[a])
    BY <1>1, <2>2 DEF Gone, Numbered
  <2>5. \A r \in Request :
          /\ outcome[a][r] = "none" <=> r > Gone(a)
          /\ outcome[a][r] # "twice"
          /\ outcome[a][r] = "lost" => r > 1 /\ outcome[a][r - 1] = "failed" /\ r - 1 \in Request
          /\ r \in Nat
    BY <2>1, <2>2 DEF ObjectInv, OutcomeOf, Request
  <2>6. \A r \in Request :
          outcome'[a][r] = IF r > Gone(a) /\ r <= issued[a]
                           THEN IF wcdo[a].WaitForClose /\ r = Gone(a) + 1 THEN "answered"
                                ELSE "failed"
                           ELSE outcome[a][r]
    <3>1. \A r \in Request : r \in ToSet(RequestQueue[a]) => RequestQueue[a] # <<>>
      BY DEF ToSet
    <3>2. QED
      BY <1>1, <2>1, <2>5, <3>1
  <2>7. outcome'[a] \in [Request -> {"none", "answered", "failed", "lost", "twice"}]
    <3>1. \A r \in Request : outcome[a][r] \in {"none", "answered", "failed", "lost", "twice"}
      BY <1>1 DEF TypeOK
    <3>2. \A r \in Request : outcome'[a][r] \in {"none", "answered", "failed", "lost", "twice"}
      BY <2>6, <3>1
    <3>3. outcome'[a] = [r \in Request |-> outcome'[a][r]]
      BY <1>1
    <3>4. QED
      BY <3>2, <3>3
  <2>8. QueueOf(a)' /\ LinkOf(a)' /\ HeaderOf(a)'
    BY <1>1, <1>3, <2>3, <2>4 DEF QueueOf, LinkOf, HeaderOf
  <2>9. SentOf(a)'
    <3>1. \A r \in Request : r \in Nat /\ (r > Gone(a) + 1 => sent[a][r] = 0)
      BY <2>1, <2>2 DEF ObjectInv, SentOf, Request
    <3>2. RequestQueue[a] = <<>> => \A r \in Request : r = Gone(a) + 1 => sent[a][r] = 0
      BY <2>1 DEF ObjectInv, SentOf
    <3>3. ASSUME NEW r \in Request, r > issued[a] PROVE sent[a][r] = 0
      <4>1. CASE Gone(a) = issued[a]
        BY <2>1, <2>2, <3>1, <3>2, <3>3, <4>1
      <4>2. CASE Gone(a) # issued[a]
        BY <2>2, <3>1, <3>3, <4>2
      <4>3. QED
        BY <4>1, <4>2
    <3>4. \A r \in Request : r > issued[a] + 1 \/ r = issued[a] + 1 => r > issued[a]
      BY <2>2, <3>1
    <3>5. \A r \in Request : r > issued[a] => sent'[a][r] = 0
      BY <1>1, <3>3
    <3>6. QED
      BY <1>3, <2>3, <2>4, <3>4, <3>5 DEF SentOf
  <2>10. OutcomeOf(a)'
    <3>1. \A r \in Request : outcome'[a][r] = "none" <=> r > issued[a]
      BY <2>2, <2>5, <2>6
    <3>2. \A r \in Request : outcome'[a][r] # "twice"
      BY <2>5, <2>6
    <3>3. ASSUME NEW r \in Request, outcome'[a][r] = "lost" PROVE r > 1 /\ outcome'[a][r - 1] = "failed"
      <4>1. outcome[a][r] = "lost" /\ ~(r > Gone(a) /\ r <= issued[a])
        BY <2>6, <3>3
      <4>2. r > 1 /\ r - 1 \in Request /\ outcome[a][r - 1] = "failed" /\ r \in Nat
        BY <2>5, <4>1
      <4>3. ~(r - 1 > Gone(a))
        BY <2>5, <4>2
      <4>4. QED
        BY <2>6, <4>2, <4>3
    <3>4. QED
      BY <2>4, <3>1, <3>2, <3>3 DEF OutcomeOf
  <2>11. AnswerOf(a)'
    <3>1. ASSUME a \notin cut, NEW r \in Request, outcome'[a][r] = "answered" PROVE r \in served[a]
      <4>1. CASE r > Gone(a) /\ r <= issued[a]
        <5>1. wcdo[a].WaitForClose /\ r = Gone(a) + 1
          BY <2>6, <3>1, <4>1
        <5>2. QED
          BY <2>1, <3>1, <5>1 DEF ObjectInv, HeaderOf, AnswerOf
      <4>2. CASE ~(r > Gone(a) /\ r <= issued[a])
        BY <2>1, <2>6, <3>1, <4>2 DEF ObjectInv, AnswerOf
      <4>3. QED
        BY <4>1, <4>2
    <3>2. QED
      BY <1>1, <2>3, <3>1 DEF AnswerOf
  <2>12. QED
    BY <2>7, <2>8, <2>9, <2>10, <2>11 DEF ObjectInv
<1>5. TypeOK'
  <2>1. outcome' \in [Address -> [Request -> {"none", "answered", "failed", "lost", "twice"}]]
    BY <1>1, <1>4
  <2>2. wcdo' \in [Address -> Object] /\ socks' \in [Sock -> Socket]
    BY <1>1, <1>2
  <2>3. RequestQueue' \in [Address -> Seq(Request)] /\ backlogQueue' \in Seq(Address)
    BY <1>1
  <2>4. QED
    BY <1>1, <2>1, <2>2, <2>3 DEF TypeOK
<1>6. \A s \in Sock : UserOf(s)'
  BY <1>1 DEF UserOf, FreeSock
<1>7. QED
  BY <1>3, <1>4, <1>5, <1>6 DEF IInv
-----------------------------------------------------------------------------
(* Sockets for those that wait. *)

(* The first n leave the queue.                                              *)
LEMMA Served ==
  ASSUME NEW q \in Seq(Address), IsInjective(q), NEW n \in 1 .. Len(q)
  PROVE  LET rest == SubSeq(q, n + 1, Len(q))
         IN  /\ rest \in Seq(Address) /\ IsInjective(rest)
             /\ \A a \in Address :
                  a \in ToSet(rest) <=> a \in ToSet(q) /\ \A i \in 1 .. n : q[i] # a
<1> DEFINE rest == SubSeq(q, n + 1, Len(q))
           m == Len(q)
<1>1. m \in Nat /\ DOMAIN q = 1 .. m /\ n \in Nat /\ n <= m
  BY LenProperties
<1>2. \A i \in n + 1 .. m : q[i] \in Address
  BY <1>1, ElementOfSeq
<1>3. /\ rest \in Seq(Address)
      /\ Len(rest) = IF n + 1 <= m THEN m - (n + 1) + 1 ELSE 0
      /\ \A i \in 1 .. m - (n + 1) + 1 : rest[i] = q[(n + 1) + i - 1]
  BY <1>1, <1>2, SubSeqProperties
<1> HIDE DEF rest, m
<1>4. Len(rest) = m - n
  BY <1>1, <1>3
<1>5. m - (n + 1) + 1 = m - n
  BY <1>1
<1>6. DOMAIN rest = 1 .. m - n
  BY <1>3, <1>4, LenProperties
<1>7. \A i \in 1 .. m - n : rest[i] = q[n + i] /\ n + i \in 1 .. m /\ n + i > n
  <2>1. ASSUME NEW i \in 1 .. m - n PROVE (n + 1) + i - 1 = n + i /\ n + i \in 1 .. m /\ n + i > n
    BY <1>1
  <2>2. QED
    BY <1>3, <1>5, <2>1
<1>8. \A i, j \in 1 .. m : q[i] = q[j] => i = j
  BY <1>1 DEF IsInjective
<1>9. IsInjective(rest)
  <2>1. ASSUME NEW i \in 1 .. m - n, NEW j \in 1 .. m - n, rest[i] = rest[j] PROVE i = j
    <3>1. n + i = n + j
      BY <1>7, <1>8, <2>1
    <3>2. QED
      BY <1>1, <3>1
  <2>2. QED
    BY <1>6, <2>1 DEF IsInjective
<1>10. ASSUME NEW a \in Address
       PROVE  a \in ToSet(rest) <=> a \in ToSet(q) /\ \A i \in 1 .. n : q[i] # a
  <2>1. ASSUME a \in ToSet(rest) PROVE a \in ToSet(q) /\ \A i \in 1 .. n : q[i] # a
    <3>1. PICK i \in 1 .. m - n : rest[i] = a
      BY <1>6, <2>1 DEF ToSet
    <3>2. n + i \in 1 .. m /\ q[n + i] = a /\ n + i > n
      BY <1>7, <3>1
    <3>3. ASSUME NEW j \in 1 .. n, q[j] = a PROVE FALSE
      <4>1. j \in 1 .. m /\ j # n + i
        BY <1>1, <3>2
      <4>2. QED
        BY <1>8, <3>2, <3>3, <4>1
    <3>4. QED
      BY <1>1, <3>2, <3>3 DEF ToSet
  <2>2. ASSUME a \in ToSet(q), \A i \in 1 .. n : q[i] # a PROVE a \in ToSet(rest)
    <3>1. PICK j \in 1 .. m : q[j] = a
      BY <1>1, <2>2 DEF ToSet
    <3>2. j \notin 1 .. n
      BY <2>2, <3>1
    <3>3. j - n \in 1 .. m - n /\ n + (j - n) = j
      BY <1>1, <3>2
    <3>4. rest[j - n] = a
      BY <1>7, <3>1, <3>3
    <3>5. QED
      BY <1>6, <3>3, <3>4 DEF ToSet
  <2>3. QED
    BY <2>1, <2>2
<1>11. QED
  BY <1>3, <1>9, <1>10 DEF rest, m

(* An object that gets a socket begins to connect; the socket was free, so    *)
(* that it had no user.                                                     *)
LEMMA ConnectKeeps ==
  ASSUME NEW a \in Address, NEW s \in Sock, ObjectInv(a), Waits(a), wcdo[a] \in Object,
         due = {}, ~Waits(a)',
         wcdo'[a] = WithSocket(wcdo[a], s), socks'[s] = ConnectTo(a),
         UNCHANGED <<DataTable, idleTable, RequestQueue, timers, due, issued, outcome, sent,
                     served, cut, left>>
  PROVE  ObjectInv(a)' /\ wcdo'[a] \in Object /\ socks'[s] \in Socket
<1>1. s \in 0 .. PoolSize /\ s # NULL
  BY WebClientAssumption DEF Sock, NULL
<1>2. /\ wcdo'[a] \in Object /\ wcdo'[a].SOCK = s /\ ~wcdo'[a].Closing
      /\ wcdo'[a].FinHeader = wcdo[a].FinHeader /\ wcdo'[a].WaitForClose = wcdo[a].WaitForClose
  BY <1>1 DEF WithSocket, Object
<1>3. /\ socks'[s] \in Socket /\ socks'[s].state = "connecting" /\ socks'[s].user = a
      /\ ~socks'[s].body
  <2>1. FreeSock \in Socket /\ ~FreeSock.body
    BY DEF FreeSock, Socket
  <2>2. QED
    BY <2>1 DEF ConnectTo, Socket
<1>4. /\ a \in DataTable /\ RequestQueue[a] # <<>> /\ ~HasSocket(a) /\ a \notin idleTable
      /\ a \notin timers /\ ~wcdo[a].WaitForClose /\ (wcdo[a].FinHeader => a \in cut)
  BY DEF ObjectInv, QueueOf, LinkOf, HeaderOf
<1>5. HasSocket(a)' /\ SocketOf(a)' = socks'[s] /\ Connecting(a)' /\ Gone(a)' = Gone(a)
  BY <1>1, <1>2, <1>3 DEF HasSocket, SocketOf, Connecting, Gone
<1>6. QueueOf(a)' /\ LinkOf(a)'
  BY <1>2, <1>3, <1>4, <1>5 DEF ObjectInv, QueueOf, LinkOf
<1>7. HeaderOf(a)' /\ SentOf(a)'
  BY <1>2, <1>3, <1>4, <1>5 DEF ObjectInv, HeaderOf, SentOf
<1>8. OutcomeOf(a)' /\ AnswerOf(a)'
  BY <1>2, <1>4, <1>5 DEF ObjectInv, OutcomeOf, AnswerOf
<1>9. QED
  BY <1>2, <1>3, <1>6, <1>7, <1>8 DEF ObjectInv

LEMMA PreProcessKeeps ==
  ASSUME IInv, PreProcess PROVE IInv'
<1>1. PICK n \in 1 .. Len(backlogQueue) : \E f \in FreeSockets(n) : GiveSockets(n, f)
  BY DEF PreProcess
<1>2. PICK f \in FreeSockets(n) : GiveSockets(n, f)
  BY <1>1
<1>3. /\ TypeOK /\ due = {} /\ IsInjective(backlogQueue)
      /\ UNCHANGED <<DataTable, idleTable, idleCount, RequestQueue, timers, due, running, issued,
                     outcome, sent, served, cut, left>>
  BY DEF IInv, PreProcess, tables, history
<1>4. /\ backlogQueue \in Seq(Address) /\ Len(backlogQueue) \in Nat /\ n \in Nat
      /\ n <= Len(backlogQueue) /\ DOMAIN backlogQueue = 1 .. Len(backlogQueue)
  BY <1>3, LenProperties DEF TypeOK
<1>5. \A i \in 1 .. n : /\ i \in DOMAIN backlogQueue /\ backlogQueue[i] \in Address
                        /\ Waits(backlogQueue[i])
  <2>1. \A i \in 1 .. n : i \in 1 .. Len(backlogQueue)
    BY <1>4
  <2>2. QED
    BY <1>4, <2>1, ElementOfSeq DEF Waits, ToSet
<1>6. \A i, j \in 1 .. n : backlogQueue[i] = backlogQueue[j] => i = j
  BY <1>3, <1>5 DEF IsInjective
<1>7. \A i \in 1 .. n : f[i] \in Sock /\ socks[f[i]].state = "free"
  BY DEF FreeSockets, Free
<1>8. ASSUME NEW i \in 1 .. n, NEW j \in 1 .. n, f[i] = f[j] PROVE i = j
  <2>1. f[i] \in Nat /\ i \in Nat /\ j \in Nat
    BY <1>7, WebClientAssumption DEF Sock
  <2>2. (i < j => f[i] < f[j]) /\ (j < i => f[j] < f[i])
    BY DEF FreeSockets
  <2>3. QED
    BY <1>8, <2>1, <2>2
<1>9. ASSUME NEW i \in 1 .. n
      PROVE  /\ wcdo'[backlogQueue[i]] = WithSocket(wcdo[backlogQueue[i]], f[i])
             /\ socks'[f[i]] = ConnectTo(backlogQueue[i])
  <2>1. Place(backlogQueue, n, backlogQueue[i]) = i
    BY <1>6 DEF Place
  <2>2. Place(f, n, f[i]) = i
    BY <1>8 DEF Place
  <2>3. QED
    BY <1>2, <1>5, <1>7, <2>1, <2>2 DEF GiveSockets
<1>10. /\ backlogQueue' \in Seq(Address) /\ IsInjective(backlogQueue')
       /\ \A a \in Address : Waits(a)' <=> Waits(a) /\ \A i \in 1 .. n : backlogQueue[i] # a
  BY <1>2, <1>3, <1>4, Served DEF GiveSockets, Waits
<1>11. ASSUME NEW a \in Address, NEW i \in 1 .. n, backlogQueue[i] = a
       PROVE  ObjectInv(a)' /\ wcdo'[a] \in Object /\ socks'[f[i]] \in Socket
  <2>1. ObjectInv(a) /\ wcdo[a] \in Object /\ Waits(a) /\ ~Waits(a)'
    BY <1>5, <1>10, <1>11 DEF IInv, TypeOK
  <2>2. QED
    BY <1>3, <1>7, <1>9, <1>11, <2>1, ConnectKeeps
<1>12. ASSUME NEW a \in Address, \A i \in 1 .. n : backlogQueue[i] # a
       PROVE  ObjectInv(a)' /\ wcdo'[a] = wcdo[a]
  <2>1. wcdo'[a] = wcdo[a] /\ ObjectInv(a) /\ (Waits(a)' <=> Waits(a))
    BY <1>2, <1>10, <1>12 DEF GiveSockets, IInv
  <2>2. ASSUME HasSocket(a) PROVE SocketOf(a)' = SocketOf(a)
    <3>1. wcdo[a].SOCK \in Sock /\ socks[wcdo[a].SOCK].state # "free"
      BY <2>1, <2>2, ObjectFacts DEF ObjectInv, LinkOf, SocketOf
    <3>2. \A i \in 1 .. n : f[i] # wcdo[a].SOCK
      BY <1>7, <3>1
    <3>3. socks'[wcdo[a].SOCK] = socks[wcdo[a].SOCK]
      BY <1>2, <3>1, <3>2 DEF GiveSockets
    <3>4. QED
      BY <2>1, <3>3 DEF SocketOf
  <2>3. Same(a)
    BY <1>3, <2>1, <2>2 DEF Same
  <2>4. QED
    BY <2>1, <2>3, SameKeeps
<1>13. ASSUME NEW s \in Sock PROVE UserOf(s)' /\ socks'[s] \in Socket
  <2>1. CASE \E i \in 1 .. n : f[i] = s
    <3>1. PICK i \in 1 .. n : f[i] = s
      BY <2>1
    <3>2. socks'[s] \in Socket
      BY <1>5, <1>11, <3>1
    <3>3. PICK a \in Address : a = backlogQueue[i]
      BY <1>5
    <3>4. wcdo'[a] = WithSocket(wcdo[a], s) /\ wcdo[a] \in Object
      BY <1>3, <1>9, <3>1, <3>3 DEF TypeOK
    <3>5. wcdo'[a].SOCK = s
      BY <3>4 DEF WithSocket, Object
    <3>6. socks'[s].user = a
      <4>1. ConnectTo(a).user = a
        BY DEF ConnectTo, FreeSock
      <4>2. QED
        BY <1>9, <3>1, <3>3, <4>1
    <3>7. QED
      BY <3>2, <3>5, <3>6 DEF UserOf
  <2>2. CASE ~\E i \in 1 .. n : f[i] = s
    <3>1. socks'[s] = socks[s] /\ socks[s] \in Socket
      BY <1>2, <1>3, <2>2 DEF GiveSockets, TypeOK
    <3>2. CASE socks[s].state = "free"
      BY <3>1, <3>2 DEF UserOf
    <3>3. CASE socks[s].state # "free"
      <4>1. PICK a \in Address : a = socks[s].user
        BY <3>3, SocketFacts
      <4>2. wcdo[a].SOCK = s /\ ~Waits(a)
        BY <3>3, <4>1, SocketFacts
      <4>3. wcdo'[a] = wcdo[a]
        BY <1>5, <1>12, <4>2
      <4>4. QED
        BY <3>1, <4>1, <4>2, <4>3 DEF UserOf
    <3>4. QED
      BY <3>2, <3>3
  <2>3. QED
    BY <2>1, <2>2
<1>14. TypeOK'
  <2>1. \A a \in Address : wcdo'[a] \in Object
    BY <1>3, <1>11, <1>12 DEF TypeOK
  <2>2. wcdo' \in [Address -> Object] /\ socks' \in [Sock -> Socket]
    BY <1>2, <1>13, <2>1 DEF GiveSockets
  <2>3. QED
    BY <1>3, <1>10, <2>2 DEF TypeOK
<1>15. \A a \in Address : ObjectInv(a)'
  BY <1>11, <1>12
<1>16. QED
  BY <1>10, <1>13, <1>14, <1>15 DEF IInv
-----------------------------------------------------------------------------
LEMMA InitInv == ASSUME Init PROVE IInv
<1>1. NewObject \in Object /\ FreeSock \in Socket /\ MaxRequest \in Nat
  BY WebClientAssumption DEF NewObject, Object, NULL, FreeSock, Socket
<1>2. /\ DataTable = {} /\ idleTable = {} /\ timers = {} /\ due = {} /\ cut = {} /\ left = {}
      /\ wcdo = [a \in Address |-> NewObject] /\ RequestQueue = [a \in Address |-> <<>>]
      /\ backlogQueue = <<>> /\ idleCount = 0 /\ running = TRUE
      /\ socks = [s \in Sock |-> FreeSock]
      /\ issued = [a \in Address |-> 0] /\ sent = [a \in Address |-> [r \in Request |-> 0]]
      /\ outcome = [a \in Address |-> [r \in Request |-> "none"]]
      /\ served = [a \in Address |-> {}]
  BY DEF Init
<1>3. TypeOK
  BY <1>1, <1>2 DEF TypeOK
<1>4. IsInjective(backlogQueue)
  BY <1>2 DEF IsInjective
<1>5. ASSUME NEW a \in Address PROVE ObjectInv(a)
  <2>1. ~Waits(a) /\ ~HasSocket(a) /\ ~Connecting(a)
    BY <1>2 DEF Waits, ToSet, HasSocket, Connecting, NewObject
  <2>2. Numbered(RequestQueue[a], issued[a]) /\ Gone(a) = 0
    BY <1>2 DEF Numbered, Gone
  <2>3. ~wcdo[a].FinHeader /\ ~wcdo[a].WaitForClose
    BY <1>2 DEF NewObject
  <2>4. QueueOf(a) /\ LinkOf(a) /\ HeaderOf(a)
    BY <1>2, <2>1, <2>2, <2>3 DEF QueueOf, LinkOf, HeaderOf
  <2>5. SentOf(a)
    BY <1>2, <2>1 DEF SentOf
  <2>6. \A r \in Request : r > 0
    BY DEF Request
  <2>7. OutcomeOf(a) /\ AnswerOf(a)
    BY <1>2, <2>1, <2>2, <2>3, <2>6 DEF OutcomeOf, AnswerOf
  <2>8. QED
    BY <2>4, <2>5, <2>7 DEF ObjectInv
<1>6. \A s \in Sock : UserOf(s)
  BY <1>2 DEF UserOf, FreeSock
<1>7. QED
  BY <1>3, <1>4, <1>5, <1>6 DEF IInv

LEMMA StutterKeeps == ASSUME IInv, UNCHANGED vars PROVE IInv'
<1>1. UNCHANGED <<DataTable, idleTable, idleCount, wcdo, RequestQueue, backlogQueue, socks,
                  running, issued, outcome, sent, served, cut, left, timers, due>>
  BY DEF vars, tables, history
<1>2. timers \cap due = {}
  <2>1. \A a \in timers : a \in Address /\ a \notin due
    BY DEF IInv, TypeOK, ObjectInv, LinkOf
  <2>2. QED
    BY <2>1
<1>3. QED
  BY <1>1, <1>2, OnlyTimersKeeps

LEMMA NextKeeps == ASSUME IInv, [Next]_vars PROVE IInv'
<1>1. ASSUME NEW a \in Address, PipelineRequest(a) PROVE IInv'
  BY <1>1, PipelineRequestKeeps
<1>2. ASSUME NEW a \in Address, TimerSink(a) PROVE IInv'
  BY <1>2, TimerTooLateKeeps, TimerIdlesKeeps, TimerEvictsKeeps DEF TimerSink
<1>3. ASSUME NEW s \in Sock, OnConnect(s) \/ OnConnectFailed(s) \/ OnDisconnect(s) PROVE IInv'
  BY <1>3, OnConnectKeeps, OnConnectFailedKeeps, OnDisconnectKeeps
<1>4. ASSUME NEW s \in Sock, OnDataUnasked(s) \/ OnDataWhole(s) \/ OnDataHeader(s) PROVE IInv'
  BY <1>4, OnDataUnaskedKeeps, OnDataWholeKeeps, OnDataHeaderKeeps
<1>5. ASSUME NEW s \in Sock, OnDataMisread(s) \/ OnDataBody(s) PROVE IInv'
  BY <1>5, OnDataMisreadKeeps, OnDataBodyKeeps
<1>6. CASE PreProcess \/ TimersDue \/ Destroy
  BY <1>6, PreProcessKeeps, TimersDueKeeps, DestroyKeeps
<1>7. CASE UNCHANGED vars
  BY <1>7, StutterKeeps
<1>8. QED
  BY <1>1, <1>2, <1>3, <1>4, <1>5, <1>6, <1>7 DEF Next

(* What the steps of the web client keep, whatever the network does and when  *)
(* timers run out: see IInv (code: all of ILibWebClient.c that is modelled).  *)
THEOREM Inductive == Spec => []IInv
BY InitInv, NextKeeps, PTL DEF Spec

(* The variables always have their types (code: the fields of                *)
(* ILibWebClientDataObject and of the client).                              *)
THEOREM TypeCorrect == Spec => []TypeOK
<1>1. IInv => TypeOK
  BY DEF IInv
<1>2. QED
  BY <1>1, Inductive, PTL

(* Every request ends once and has ended when it is not in the queue, and     *)
(* only one that stood behind a failed one is lost, for any number of         *)
(* addresses, sockets and requests (code: every call of OnResponse with done  *)
(* and every ILibQueue_DeQueue).                                            *)
THEOREM RequestsAccounted == Spec => []Accounted
<1>1. ASSUME IInv PROVE Accounted
  <2>1. SUFFICES ASSUME NEW a \in Address
                 PROVE  /\ \A r \in Request :
                             outcome[a][r] = "none"
                               <=> r \notin Issued(a) \/ r \in ToSet(RequestQueue[a])
                        /\ \A r \in Issued(a) :
                             /\ outcome[a][r] # "twice"
                             /\ outcome[a][r] = "lost" => outcome[a][r - 1] = "failed"
    BY DEF Accounted, LostBehind
  <2>2. /\ OutcomeOf(a) /\ issued[a] \in 0 .. MaxRequest /\ Gone(a) \in 0 .. issued[a]
        /\ ToSet(RequestQueue[a]) = {r \in Request : r > Gone(a) /\ r <= issued[a]}
    BY <1>1, ObjectFacts DEF ObjectInv
  <2>3. /\ issued[a] \in Nat /\ Gone(a) \in Nat /\ Gone(a) <= issued[a]
        /\ issued[a] <= MaxRequest /\ MaxRequest \in Nat
    BY <2>2, WebClientAssumption
  <2>4. \A r \in Request : r \notin Issued(a) \/ r \in ToSet(RequestQueue[a]) <=> r > Gone(a)
    BY <2>2, <2>3 DEF Issued, Request
  <2>5. \A r \in Issued(a) : r \in Request
    BY <2>3 DEF Issued, Request
  <2>6. QED
    BY <2>2, <2>4, <2>5 DEF OutcomeOf
<1>2. QED
  BY <1>1, Inductive, PTL

(* The requests to an address end in the order they were made in, none is     *)
(* sent before its turn, and none more than twice (code: PipelineRequestEx2,  *)
(* FinishedResponse, OnConnect and OnDisconnectSink).                       *)
THEOREM RequestsInTurn == Spec => []InTurn
<1>1. ASSUME IInv PROVE InTurn
  <2>1. SUFFICES ASSUME NEW a \in Address, RequestQueue[a] # <<>>
                 PROVE  /\ RequestQueue[a] = [i \in 1 .. Len(RequestQueue[a])
                                                |-> issued[a] - Len(RequestQueue[a]) + i]
                        /\ \A r \in ToSet(RequestQueue[a]) :
                             sent[a][r] > 0 => r = Head(RequestQueue[a]) /\ sent[a][r] <= 2
    BY DEF InTurn
  <2>2. /\ SentOf(a) /\ RequestQueue[a] \in Seq(Request) /\ Numbered(RequestQueue[a], issued[a])
        /\ Head(RequestQueue[a]) = Gone(a) + 1 /\ Gone(a) + 1 \in Request
        /\ Gone(a) \in 0 .. issued[a]
        /\ ToSet(RequestQueue[a]) = {r \in Request : r > Gone(a) /\ r <= issued[a]}
    BY <1>1, <2>1, ObjectFacts DEF ObjectInv
  <2>3. RequestQueue[a] = [i \in 1 .. Len(RequestQueue[a]) |-> RequestQueue[a][i]]
    BY <2>2, LenProperties
  <2>4. RequestQueue[a] = [i \in 1 .. Len(RequestQueue[a])
                             |-> issued[a] - Len(RequestQueue[a]) + i]
    BY <2>2, <2>3 DEF Numbered
  <2>5. ASSUME NEW r \in ToSet(RequestQueue[a]), sent[a][r] > 0
        PROVE  r = Head(RequestQueue[a]) /\ sent[a][r] <= 2
    <3>1. r \in Request /\ r > Gone(a) /\ Gone(a) \in Nat
      BY <2>2
    <3>2. ~(r > Gone(a) + 1)
      BY <2>2, <2>5, <3>1 DEF SentOf
    <3>3. r = Gone(a) + 1
      BY <3>1, <3>2 DEF Request
    <3>4. QED
      BY <2>2, <3>1, <3>3 DEF SentOf
  <2>6. QED
    BY <2>4, <2>5
<1>2. QED
  BY <1>1, Inductive, PTL

(* No answer is taken for that to another request, unless the object met the  *)
(* rest of an answer on a new connection (code: FinHeader and header, which   *)
(* the retry of OnDisconnectSink does not reset).                            *)
THEOREM AnswersOwn == Spec => []OwnAnswer
<1>1. IInv => OwnAnswer
  BY DEF IInv, ObjectInv, AnswerOf, OwnAnswer
<1>2. QED
  BY <1>1, Inductive, PTL

(* An object with requests has a socket or waits for one, and nothing points  *)
(* to one that was freed (code: wcdo->SOCK, backlogQueue, idleTable and the   *)
(* timers, and ILibWebClient_DestroyWebClientDataObject).                    *)
THEOREM ObjectsCarried == Spec => []Carried
<1>1. ASSUME IInv PROVE Carried
  <2>1. IsInjective(backlogQueue)
    BY <1>1 DEF IInv
  <2>2. ASSUME NEW a \in Address PROVE ObjectInv(a) /\ wcdo[a] \in Object
    BY <1>1 DEF IInv, TypeOK
  <2>3. ToSet(backlogQueue) \cup idleTable \cup timers \cup due \subseteq DataTable
    <3>1. \A a \in ToSet(backlogQueue) : a \in Address
      <4>1. backlogQueue \in Seq(Address)
        BY <1>1 DEF IInv, TypeOK
      <4>2. \A i \in DOMAIN backlogQueue : backlogQueue[i] \in Address
        BY <4>1
      <4>3. QED
        BY <4>2 DEF ToSet
    <3>2. \A a \in idleTable \cup timers \cup due : a \in Address
      BY <1>1 DEF IInv, TypeOK
    <3>3. \A a \in Address : Waits(a) \/ a \in idleTable \cup timers \cup due => a \in DataTable
      BY <2>2 DEF ObjectInv, QueueOf
    <3>4. QED
      BY <3>1, <3>2, <3>3 DEF Waits
  <2>4. \A a \in DataTable :
          LET waits == a \in ToSet(backlogQueue)
          IN /\ RequestQueue[a] # <<>> => waits \/ wcdo[a].SOCK # NULL \/ a \in left
             /\ waits => RequestQueue[a] # <<>> /\ wcdo[a].SOCK = NULL
             /\ a \in idleTable => RequestQueue[a] = <<>> /\ wcdo[a].SOCK = NULL
             /\ wcdo[a].SOCK # NULL => socks[wcdo[a].SOCK].user = a
    <3>1. \A a \in DataTable : a \in Address
      BY <1>1 DEF IInv, TypeOK
    <3>2. QED
      BY <2>2, <3>1 DEF ObjectInv, LinkOf, Waits, HasSocket, SocketOf
  <2>5. \A s \in Sock : socks[s].state # "free" =>
          socks[s].user \in DataTable /\ wcdo[socks[s].user].SOCK = s
    BY <1>1, SocketFacts
  <2>6. QED
    BY <2>1, <2>3, <2>4, <2>5 DEF Carried
<1>2. QED
  BY <1>1, Inductive, PTL
=============================================================================

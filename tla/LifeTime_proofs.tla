--------------------------- MODULE LifeTime_proofs ---------------------------
(* Proofs about LifeTime, for any threads, timers, data, delays and times, and *)
(* about Chain, with the threads of LifeTime for its own.                     *)
EXTENDS LifeTime, SequenceTheorems, FiniteSetTheorems, TLAPS

-----------------------------------------------------------------------------
(* The lists. *)

(* A function on the first n numbers is a sequence.                          *)
LEMMA FunctionSeq ==
  ASSUME NEW S, NEW n \in Nat, NEW f \in [1 .. n -> S] PROVE f \in Seq(S) /\ Len(f) = n
<1>1. f \in Seq(S)
  BY SeqDef
<1>2. 1 .. Len(f) = 1 .. n /\ Len(f) \in Nat
  BY <1>1, LenProperties
<1>3. QED
  BY <1>1, <1>2

(* What is kept of a list are the timers asked for, each as often as before   *)
(* and in the order they had.                                                *)
LEMMA KeptOf ==
  ASSUME NEW list \in Seq(Timer), NEW S, NEW q \in Kept(list, S)
  PROVE  /\ q \in Seq(Timer) /\ ToSet(q) = ToSet(list) \cap S
         /\ \A i, j \in DOMAIN q : i < j =>
              \E a, b \in DOMAIN list : a < b /\ q[i] = list[a] /\ q[j] = list[b]
<1> DEFINE at == {i \in DOMAIN list : list[i] \in S}
           n == Cardinality(at)
<1>1. DOMAIN list = 1 .. Len(list) /\ Len(list) \in Nat /\ \A i \in DOMAIN list : list[i] \in Timer
  BY LenProperties, ElementOfSeq
<1>2. IsFiniteSet(at) /\ n \in Nat
  <2>1. IsFiniteSet(1 .. Len(list))
    BY <1>1, FS_Interval
  <2>2. at \subseteq 1 .. Len(list)
    BY <1>1
  <2> HIDE DEF at
  <2>3. QED
    BY <2>1, <2>2, FS_Subset, FS_CardinalityType
<1>3. PICK f \in [1 .. n -> at] : /\ \A i, j \in 1 .. n : i < j => f[i] < f[j]
                                  /\ q = [i \in 1 .. n |-> list[f[i]]]
  BY DEF Kept
<1>4. \A i \in 1 .. n : f[i] \in at /\ f[i] \in DOMAIN list /\ f[i] \in Nat
  BY <1>1
<1> HIDE DEF n
<1>5. \A i, j \in 1 .. n : f[i] = f[j] => i = j
  BY <1>2, <1>3, <1>4
<1>6. f \in Surjection(1 .. n, at)
  <2>1. f \in Injection(1 .. n, at)
    BY <1>3, <1>5 DEF Injection, IsInjective
  <2>2. Cardinality(1 .. n) = n
    BY <1>2, FS_Interval
  <2> HIDE DEF at
  <2>3. QED
    BY <1>2, <2>1, <2>2, FS_Injection DEF n
<1>7. q \in [1 .. n -> Timer] /\ \A i \in 1 .. n : q[i] = list[f[i]]
  BY <1>1, <1>3, <1>4
<1>8. q \in Seq(Timer) /\ DOMAIN q = 1 .. n
  BY <1>2, <1>7, FunctionSeq
<1>9. ToSet(q) = ToSet(list) \cap S
  <2>1. ASSUME NEW t \in ToSet(q) PROVE t \in ToSet(list) \cap S
    BY <1>4, <1>7, <1>8 DEF ToSet
  <2>2. ASSUME NEW t \in ToSet(list) \cap S PROVE t \in ToSet(q)
    <3>1. PICK a \in at : list[a] = t
      BY DEF ToSet
    <3>2. PICK i \in 1 .. n : f[i] = a
      BY <1>6, <3>1 DEF Surjection
    <3>3. QED
      BY <1>7, <1>8, <3>1, <3>2 DEF ToSet
  <2>3. QED
    BY <2>1, <2>2
<1>10. QED
  BY <1>3, <1>4, <1>7, <1>8, <1>9

(* In order of what node array n says of the expirations.                    *)
SortedBy(list, n) ==
  \A i, j \in 1 .. Len(list) : i < j => n[list[i]].ExpirationTick <= n[list[j]].ExpirationTick

(* What is kept of a list without repetition has none.                        *)
LEMMA KeptOnce ==
  ASSUME NEW list \in Seq(Timer), NEW S, NEW q \in Kept(list, S), IsInjective(list)
  PROVE  IsInjective(q)
<1>1. /\ q \in Seq(Timer) /\ DOMAIN q = 1 .. Len(q) /\ DOMAIN list = 1 .. Len(list)
      /\ Len(list) \in Nat /\ Len(q) \in Nat
      /\ \A i, j \in DOMAIN q : i < j =>
           \E a, b \in DOMAIN list : a < b /\ q[i] = list[a] /\ q[j] = list[b]
  BY KeptOf, LenProperties
<1>2. \A i, j \in DOMAIN q : i < j => q[i] # q[j]
  BY <1>1 DEF IsInjective
<1>3. QED
  BY <1>1, <1>2 DEF IsInjective

(* What is kept of a list in order is in order, also when other nodes change.  *)
LEMMA KeptSorted ==
  ASSUME NEW list \in Seq(Timer), NEW S, NEW q \in Kept(list, S),
         NEW n, SortedBy(list, n), NEW m, \A t \in ToSet(q) : m[t] = n[t]
  PROVE  SortedBy(q, m)
<1>1. /\ DOMAIN q = 1 .. Len(q) /\ DOMAIN list = 1 .. Len(list)
      /\ \A i, j \in DOMAIN q : i < j =>
           \E a, b \in DOMAIN list : a < b /\ q[i] = list[a] /\ q[j] = list[b]
  BY KeptOf, LenProperties
<1>2. \A i \in DOMAIN q : m[q[i]] = n[q[i]]
  BY DEF ToSet
<1>3. QED
  BY <1>1, <1>2 DEF SortedBy

(* The elements of a concatenation.                                          *)
LEMMA Joined ==
  ASSUME NEW S, NEW p \in Seq(S), NEW q \in Seq(S), NEW pq, pq = p \o q
  PROVE  /\ pq \in Seq(S) /\ Len(pq) = Len(p) + Len(q)
         /\ \A u \in 1 .. Len(p) + Len(q) : pq[u] = IF u <= Len(p) THEN p[u] ELSE q[u - Len(p)]
BY ConcatProperties

(* List q is list with t after the first k.                                   *)
WithNew(list, k, t, q) ==
  /\ q \in Seq(Timer) /\ Len(q) = Len(list) + 1
  /\ \A i \in 1 .. Len(list) + 1 :
       q[i] = IF i <= k THEN list[i] ELSE IF i = k + 1 THEN t ELSE list[i - 1]

(* The elements of a list with a new one.                                    *)
LEMMA Inserted ==
  ASSUME NEW list \in Seq(Timer), NEW k \in 0 .. Len(list), NEW t \in Timer,
         NEW q, NEW e, e = k + 1, q = InsertAt(list, e, t)
  PROVE  WithNew(list, k, t, q)
<1> DEFINE a == SubSeq(list, 1, k)
           z == SubSeq(list, k + 1, Len(list))
<1>1. Len(list) \in Nat /\ k \in Nat /\ k <= Len(list) /\ \A i \in 1 .. Len(list) : list[i] \in Timer
  OBVIOUS
<1>2. a \in Seq(Timer) /\ Len(a) = k /\ \A i \in 1 .. k : a[i] = list[i]
  BY <1>1, SubSeqProperties
<1>3. /\ z \in Seq(Timer) /\ Len(z) = Len(list) - k
      /\ \A i \in 1 .. Len(list) - k : z[i] = list[k + i]
  BY <1>1, SubSeqProperties
<1>4. q = (a \o <<t>>) \o z
  <2>1. \A i \in Nat : InsertAt(list, i, t) = (SubSeq(list, 1, i - 1) \o <<t>>) \o SubSeq(list, i, Len(list))
    BY DEF InsertAt
  <2>2. e \in Nat /\ e - 1 = k
    BY <1>1
  <2>3. q = (SubSeq(list, 1, e - 1) \o <<t>>) \o SubSeq(list, e, Len(list))
    BY <2>1, <2>2
  <2>4. QED
    BY <2>2, <2>3
<1> HIDE DEF a, z
<1> DEFINE b == a \o <<t>>
<1>5. /\ b \in Seq(Timer) /\ Len(b) = k + 1
      /\ \A i \in 1 .. k + 1 : b[i] = IF i <= k THEN list[i] ELSE t
  <2>1. b = Append(a, t)
    BY <1>2
  <2>2. b \in Seq(Timer) /\ Len(b) = k + 1
    BY <1>1, <1>2, <2>1
  <2>3. ASSUME NEW i \in 1 .. k + 1 PROVE b[i] = IF i <= k THEN list[i] ELSE t
    <3>1. b[i] = IF i <= k THEN a[i] ELSE t
      BY <1>1, <1>2, <2>1, <2>3
    <3>2. QED
      BY <1>1, <1>2, <3>1, <2>3
  <2>4. QED
    BY <2>2, <2>3
<1>6. q = b \o z
  BY <1>4
<1> HIDE DEF b
<1>7. q \in Seq(Timer) /\ Len(q) = Len(list) + 1
  <2>1. q \in Seq(Timer) /\ Len(q) = Len(b) + Len(z)
    BY <1>3, <1>5, <1>6, ConcatProperties
  <2>2. QED
    BY <1>1, <1>3, <1>5, <2>1
<1>8. \A i \in 1 .. Len(list) + 1 : q[i] = IF i <= k + 1 THEN b[i] ELSE z[i - (k + 1)]
  <2>1. \A i \in 1 .. Len(b) + Len(z) : q[i] = IF i <= Len(b) THEN b[i] ELSE z[i - Len(b)]
    <3> b \in Seq(Timer) /\ z \in Seq(Timer)
      BY <1>3, <1>5
    <3> QED
      BY <1>6, Joined
  <2>2. Len(b) + Len(z) = Len(list) + 1 /\ Len(b) = k + 1
    BY <1>1, <1>3, <1>5
  <2>3. QED
    BY <2>1, <2>2
<1>9. ASSUME NEW i \in 1 .. Len(list) + 1
      PROVE  q[i] = IF i <= k THEN list[i] ELSE IF i = k + 1 THEN t ELSE list[i - 1]
  <2>1. CASE i <= k + 1
    BY <1>1, <1>5, <1>8, <2>1
  <2>2. CASE ~(i <= k + 1)
    <3> DEFINE j == i - (k + 1)
    <3>1. j \in 1 .. Len(list) - k /\ k + j = i - 1
      BY <1>1, <2>2
    <3>2. q[i] = z[j]
      BY <1>8, <2>2
    <3> HIDE DEF j
    <3>3. q[i] = list[i - 1]
      BY <1>3, <3>1, <3>2
    <3>4. QED
      BY <1>1, <2>2, <3>3
  <2>3. QED
    BY <2>1, <2>2
<1>10. QED
  BY <1>7, <1>9 DEF WithNew

(* ... which leaves every other timer before or after it.                     *)
LEMMA Places ==
  ASSUME NEW list \in Seq(Timer), NEW k \in 0 .. Len(list), NEW t \in Timer, NEW q,
         WithNew(list, k, t, q)
  PROVE  /\ DOMAIN list = 1 .. Len(list) /\ DOMAIN q = 1 .. Len(list) + 1 /\ Len(list) \in Nat
         /\ \A i \in 1 .. k : i \in DOMAIN q /\ i \in DOMAIN list /\ q[i] = list[i]
         /\ k + 1 \in DOMAIN q /\ q[k + 1] = t
         /\ \A i \in k + 1 .. Len(list) :
              i + 1 \in DOMAIN q /\ i \in DOMAIN list /\ q[i + 1] = list[i]
<1>1. /\ DOMAIN list = 1 .. Len(list) /\ Len(list) \in Nat /\ k \in Nat /\ k <= Len(list)
      /\ DOMAIN q = 1 .. Len(list) + 1
  BY LenProperties DEF WithNew
<1>2. \A i \in 1 .. Len(list) + 1 :
        q[i] = IF i <= k THEN list[i] ELSE IF i = k + 1 THEN t ELSE list[i - 1]
  BY DEF WithNew
<1>3. ASSUME NEW i \in 1 .. k PROVE i \in DOMAIN q /\ i \in DOMAIN list /\ q[i] = list[i]
  BY <1>1, <1>2
<1>4. k + 1 \in DOMAIN q /\ q[k + 1] = t
  BY <1>1, <1>2
<1>5. ASSUME NEW i \in k + 1 .. Len(list)
      PROVE  i + 1 \in DOMAIN q /\ i \in DOMAIN list /\ q[i + 1] = list[i]
  <2>1. i + 1 \in 1 .. Len(list) + 1 /\ ~(i + 1 <= k) /\ i + 1 # k + 1 /\ i + 1 - 1 = i /\ i \in 1 .. Len(list)
    BY <1>1
  <2>2. QED
    BY <1>1, <1>2, <2>1
<1>6. QED
  BY <1>1, <1>3, <1>4, <1>5

(* Where a place of the new list comes from.                                  *)
LEMMA Origin ==
  ASSUME NEW list \in Seq(Timer), NEW k \in 0 .. Len(list), NEW t \in Timer, NEW q,
         WithNew(list, k, t, q), NEW i \in DOMAIN q
  PROVE  \/ i \in 1 .. k /\ q[i] = list[i] /\ i \in DOMAIN list
         \/ i = k + 1 /\ q[i] = t
         \/ /\ i - 1 \in k + 1 .. Len(list) /\ q[i] = list[i - 1] /\ i - 1 \in DOMAIN list
            /\ i > k + 1
<1>1. /\ DOMAIN q = 1 .. Len(list) + 1 /\ Len(list) \in Nat
      /\ \A j \in 1 .. k : j \in DOMAIN q /\ j \in DOMAIN list /\ q[j] = list[j]
      /\ k + 1 \in DOMAIN q /\ q[k + 1] = t
      /\ \A j \in k + 1 .. Len(list) :
           j + 1 \in DOMAIN q /\ j \in DOMAIN list /\ q[j + 1] = list[j]
  BY Places
<1>2. CASE i \in 1 .. k
  BY <1>1, <1>2
<1>3. CASE i = k + 1
  BY <1>1, <1>3
<1>4. CASE i > k + 1
  <2>1. i - 1 \in k + 1 .. Len(list) /\ i - 1 + 1 = i
    BY <1>1, <1>4
  <2>2. QED
    BY <1>1, <1>4, <2>1
<1>5. i \in 1 .. k \/ i = k + 1 \/ i > k + 1
  BY <1>1
<1>6. QED
  BY <1>2, <1>3, <1>4, <1>5

(* A new timer is in the list once, with what was there.                      *)
LEMMA NewOnce ==
  ASSUME NEW list \in Seq(Timer), NEW k \in 0 .. Len(list), NEW t \in Timer, NEW q,
         WithNew(list, k, t, q), IsInjective(list), t \notin ToSet(list)
  PROVE  IsInjective(q) /\ ToSet(q) = ToSet(list) \cup {t} /\ q # <<>>
<1>1. /\ DOMAIN list = 1 .. Len(list) /\ DOMAIN q = 1 .. Len(list) + 1 /\ Len(list) \in Nat
      /\ \A i \in 1 .. k : i \in DOMAIN q /\ i \in DOMAIN list /\ q[i] = list[i]
      /\ k + 1 \in DOMAIN q /\ q[k + 1] = t
      /\ \A i \in k + 1 .. Len(list) :
           i + 1 \in DOMAIN q /\ i \in DOMAIN list /\ q[i + 1] = list[i]
  BY Places
<1>2. \A i \in DOMAIN list : list[i] # t
  BY DEF ToSet
<1>3. \A i, j \in DOMAIN list : list[i] = list[j] => i = j
  BY DEF IsInjective
<1>4. ASSUME NEW i \in DOMAIN q, NEW j \in DOMAIN q, q[i] = q[j] PROVE i = j
  <2>1. \/ i \in 1 .. k /\ q[i] = list[i] /\ i \in DOMAIN list
        \/ i = k + 1 /\ q[i] = t
        \/ /\ i - 1 \in k + 1 .. Len(list) /\ q[i] = list[i - 1] /\ i - 1 \in DOMAIN list
           /\ i > k + 1
    BY Origin
  <2>2. \/ j \in 1 .. k /\ q[j] = list[j] /\ j \in DOMAIN list
        \/ j = k + 1 /\ q[j] = t
        \/ /\ j - 1 \in k + 1 .. Len(list) /\ q[j] = list[j - 1] /\ j - 1 \in DOMAIN list
           /\ j > k + 1
    BY Origin
  <2>3. i \in Int /\ j \in Int /\ k \in Int
    BY <1>1
  <2>4. CASE i \in 1 .. k /\ q[i] = list[i] /\ i \in DOMAIN list
    BY <1>2, <1>3, <1>4, <2>2, <2>3, <2>4
  <2>5. CASE i = k + 1 /\ q[i] = t
    BY <1>2, <1>4, <2>2, <2>3, <2>5
  <2>6. CASE i - 1 \in k + 1 .. Len(list) /\ q[i] = list[i - 1] /\ i - 1 \in DOMAIN list /\ i > k + 1
    BY <1>2, <1>3, <1>4, <2>2, <2>3, <2>6
  <2>7. QED
    BY <2>1, <2>4, <2>5, <2>6
<1>5. IsInjective(q)
  BY <1>4 DEF IsInjective
<1>6. ASSUME NEW u \in ToSet(q) PROVE u \in ToSet(list) \cup {t}
  <2>1. PICK i \in DOMAIN q : u = q[i]
    BY DEF ToSet
  <2>2. u = t \/ \E a \in DOMAIN list : u = list[a]
    BY <2>1, Origin
  <2>3. QED
    BY <2>2 DEF ToSet
<1>7. ASSUME NEW u \in ToSet(list) PROVE u \in ToSet(q)
  <2>1. PICK a \in DOMAIN list : u = list[a]
    BY DEF ToSet
  <2>2. a \in 1 .. k \/ a \in k + 1 .. Len(list)
    BY <1>1
  <2>3. \E i \in DOMAIN q : u = q[i]
    BY <1>1, <2>1, <2>2
  <2>4. QED
    BY <2>3 DEF ToSet
<1>8. t \in ToSet(q)
  <2>1. \E i \in DOMAIN q : t = q[i]
    BY <1>1
  <2>2. QED
    BY <2>1 DEF ToSet
<1>9. q # <<>>
  BY <1>8 DEF ToSet
<1>10. QED
  BY <1>5, <1>6, <1>7, <1>8, <1>9

(* A new timer goes where it belongs.                                         *)
LEMMA NewInOrder ==
  ASSUME NEW list \in Seq(Timer), NEW k \in 0 .. Len(list), NEW t \in Timer, NEW q,
         WithNew(list, k, t, q), NEW n, SortedBy(list, n),
         \A u \in Timer : n[u].ExpirationTick \in Int,
         \A i \in 1 .. k : n[list[i]].ExpirationTick < n[t].ExpirationTick,
         k < Len(list) => n[t].ExpirationTick <= n[list[k + 1]].ExpirationTick
  PROVE  SortedBy(q, n)
<1> DEFINE x(u) == n[u].ExpirationTick
<1>1. /\ DOMAIN list = 1 .. Len(list) /\ DOMAIN q = 1 .. Len(list) + 1 /\ Len(list) \in Nat
      /\ Len(q) = Len(list) + 1
  BY Places DEF WithNew
<1>2. \A i \in DOMAIN list : x(list[i]) \in Int
  BY ElementOfSeq, <1>1
<1>3. x(t) \in Int
  OBVIOUS
<1>4. \A i, j \in DOMAIN list : i < j => x(list[i]) <= x(list[j])
  BY <1>1 DEF SortedBy
<1>5. \A i \in 1 .. k : x(list[i]) < x(t)
  OBVIOUS
<1>6. ASSUME NEW i \in k + 1 .. Len(list) PROVE x(t) <= x(list[i])
  <2>1. k + 1 \in DOMAIN list /\ i \in DOMAIN list /\ (i = k + 1 \/ k + 1 < i)
    BY <1>1
  <2>2. x(t) <= x(list[k + 1])
    BY <1>1, <2>1
  <2> HIDE DEF x
  <2>3. x(list[k + 1]) <= x(list[i])
    <3>1. CASE i = k + 1
      BY <1>2, <2>1, <3>1
    <3>2. CASE k + 1 < i
      BY <1>4, <2>1, <3>2
    <3>3. QED
      BY <2>1, <3>1, <3>2
  <2>4. QED
    BY <1>2, <1>3, <2>1, <2>2, <2>3
<1>7. ASSUME NEW i \in DOMAIN q, NEW j \in DOMAIN q, i < j PROVE x(q[i]) <= x(q[j])
  <2>1. \/ i \in 1 .. k /\ q[i] = list[i] /\ i \in DOMAIN list
        \/ i = k + 1 /\ q[i] = t
        \/ /\ i - 1 \in k + 1 .. Len(list) /\ q[i] = list[i - 1] /\ i - 1 \in DOMAIN list
           /\ i > k + 1
    BY Origin
  <2>2. \/ j \in 1 .. k /\ q[j] = list[j] /\ j \in DOMAIN list
        \/ j = k + 1 /\ q[j] = t
        \/ /\ j - 1 \in k + 1 .. Len(list) /\ q[j] = list[j - 1] /\ j - 1 \in DOMAIN list
           /\ j > k + 1
    BY Origin
  <2>3. i \in Int /\ j \in Int /\ k \in Int
    BY <1>1
  <2> HIDE DEF x
  <2>4. CASE i \in 1 .. k /\ q[i] = list[i] /\ i \in DOMAIN list
    <3>1. x(q[i]) < x(t) /\ x(q[i]) \in Int
      BY <1>2, <1>5, <2>4
    <3>2. CASE j \in 1 .. k /\ q[j] = list[j] /\ j \in DOMAIN list
      BY <1>4, <1>7, <2>4, <3>2
    <3>3. CASE j = k + 1 /\ q[j] = t
      BY <1>3, <3>1, <3>3
    <3>4. CASE j - 1 \in k + 1 .. Len(list) /\ q[j] = list[j - 1] /\ j - 1 \in DOMAIN list /\ j > k + 1
      <4>1. x(t) <= x(q[j]) /\ x(q[j]) \in Int
        BY <1>2, <1>6, <3>4
      <4>2. QED
        BY <1>3, <3>1, <4>1
    <3>5. QED
      BY <2>2, <3>2, <3>3, <3>4
  <2>5. CASE i = k + 1 /\ q[i] = t
    <3>1. j - 1 \in k + 1 .. Len(list) /\ q[j] = list[j - 1]
      BY <1>7, <2>2, <2>3, <2>5
    <3>2. QED
      BY <1>6, <2>5, <3>1
  <2>6. CASE i - 1 \in k + 1 .. Len(list) /\ q[i] = list[i - 1] /\ i - 1 \in DOMAIN list /\ i > k + 1
    <3>1. q[j] = list[j - 1] /\ j - 1 \in DOMAIN list /\ i - 1 < j - 1
      BY <1>7, <2>2, <2>3, <2>6
    <3>2. QED
      BY <1>4, <2>6, <3>1
  <2>7. QED
    BY <2>1, <2>4, <2>5, <2>6
<1>8. QED
  BY <1>1, <1>7 DEF SortedBy
-----------------------------------------------------------------------------
(* The inductive invariant. *)

(* A timer that was added and is not done is in one place of one queue.       *)
QueueInv ==
  /\ IsInjective(ObjectList) /\ IsInjective(EventQueue)
  /\ ToSet(ObjectList) \cap ToSet(EventQueue) = {}
  /\ \A t \in Timer : outcome[t] = "pending" <=> t \in ToSet(ObjectList) \cup ToSet(EventQueue)

(* A timer that is being added is one thread's own, and in no queue before    *)
(* the Insert.                                                                *)
AddInv ==
  /\ \A c \in Caller : op[c] = "idle" <=> adding[c] = None
  /\ \A c \in Caller : op[c] = "insert" => outcome[adding[c]] = "unused" /\ caller[c] = "idle"
  /\ \A c, o \in Caller : adding[c] # None /\ adding[c] = adding[o] => c = o

(* Timers are taken out of the list in the PreSelect only, and those that     *)
(* were are overdue.                                                          *)
CheckInv ==
  /\ check # "idle" => pc = "presel"
  /\ check \in {"idle", "scan"} => EventQueue = <<>>
  /\ CurrentTick <= now
  /\ \A t \in ToSet(EventQueue) : Exp(t) < CurrentTick

(* Some thread has put the first timer into the list and has yet to unblock   *)
(* the chain.                                                                 *)
FirstAdded == \E c \in Caller : op[c] = "trigger" /\ caller[c] = "force"

(* Between the scan and the end of a Check the next trigger is known, or the   *)
(* first timer of the list came after the scan.                               *)
TriggerInv ==
  ObjectList # <<>> /\ ~posted /\ check \in {"fire", "callback"} => NextTriggerTick # -1

(* ... so the coming select has a time limit,                                 *)
WaitInv == ObjectList # <<>> /\ ~posted /\ pc \in {"arm", "select"} => blocktime < Forever

(* ... or cannot block before the links have been asked again.                *)
PostInv ==
  posted /\ ~FirstAdded =>
    \/ Terminate = "closed" /\ pc # "reopen"
    \/ pc \in {"reopen", "postsel", "loop", "destroy", "freed"}
    \/ pc = "presel" /\ check \in {"idle", "scan"}

SleepInv == TriggerInv /\ WaitInv /\ PostInv

LInv == TypeOK /\ QueueInv /\ InOrder /\ AddInv /\ CheckInv /\ SleepInv

-----------------------------------------------------------------------------
(* Type correctness. *)

(* The expiration of a timer is a time.                                      *)
LEMMA ExpType ==
  ASSUME TypeOK, NEW t \in Timer PROVE Exp(t) \in 0 .. MaxTime
BY DEF TypeOK, Exp

(* The earliest timer of a list.                                              *)
LEMMA EarliestType ==
  ASSUME TypeOK, NEW list \in Seq(Timer), list # <<>>, SortedBy(list, node)
  PROVE  /\ list[1] \in ToSet(list) /\ \A t \in ToSet(list) : Exp(list[1]) <= Exp(t)
         /\ (CHOOSE e \in {Exp(t) : t \in ToSet(list)} : \A t \in ToSet(list) : e <= Exp(t))
              \in 0 .. MaxTime
<1>1. /\ DOMAIN list = 1 .. Len(list) /\ Len(list) \in Nat /\ Len(list) # 0
      /\ \A i \in DOMAIN list : list[i] \in Timer
  BY LenProperties, ElementOfSeq
<1>2. 1 \in DOMAIN list
  BY <1>1
<1>3. list[1] \in ToSet(list)
  BY <1>2 DEF ToSet
<1>4. ASSUME NEW t \in ToSet(list) PROVE t \in Timer /\ Exp(list[1]) <= Exp(t)
  <2>1. PICK i \in DOMAIN list : t = list[i]
    BY DEF ToSet
  <2>2. Exp(list[1]) \in Int /\ Exp(t) \in Int
    BY <1>1, <1>2, <2>1, ExpType
  <2>3. CASE i = 1
    BY <1>1, <2>1, <2>2, <2>3
  <2>4. CASE 1 < i
    BY <1>1, <1>2, <2>1, <2>4 DEF SortedBy, Exp
  <2>5. QED
    BY <1>1, <2>3, <2>4
<1> DEFINE E == {Exp(t) : t \in ToSet(list)}
<1>5. \A e \in E : e \in 0 .. MaxTime
  BY <1>4, ExpType
<1>6. \E e \in E : \A t \in ToSet(list) : e <= Exp(t)
  BY <1>3, <1>4
<1> HIDE DEF E
<1>7. (CHOOSE e \in E : \A t \in ToSet(list) : e <= Exp(t)) \in E
  BY <1>6
<1>8. QED
  BY <1>3, <1>4, <1>5, <1>7 DEF E

(* A new timer goes behind those that expire no later.                       *)
LEMMA InsertType ==
  ASSUME TypeOK, NEW c \in Caller, NEW t \in Timer, t = adding[c], Insert(c)
  PROVE  \E k \in 0 .. Len(ObjectList) :
           /\ k \in Ahead(ObjectList, Exp(t)) /\ WithNew(ObjectList, k, t, ObjectList')
<1>1. PICK k \in Ahead(ObjectList, Exp(t)) : ObjectList' = InsertAt(ObjectList, k + 1, t)
  BY DEF Insert
<1>2. k \in 0 .. Len(ObjectList) /\ ObjectList \in Seq(Timer)
  BY DEF Ahead, TypeOK
<1>3. WithNew(ObjectList, k, t, ObjectList')
  BY <1>1, <1>2, Inserted
<1>4. QED
  BY <1>1, <1>2, <1>3

(* What Done does to the nodes.                                               *)
LEMMA DoneType ==
  ASSUME TypeOK, NEW ts, NEW end \in {"fired", "destroyed"}, Done(ts, end)
  PROVE  /\ node' \in [Timer -> [ExpirationTick : 0 .. MaxTime, data : Data \cup {None}]]
         /\ outcome' \in [Timer -> {"unused", "pending", "fired", "destroyed"}]
         /\ \A t \in Timer : /\ outcome'[t] = IF t \in ts THEN end ELSE outcome[t]
                             /\ t \notin ts => node'[t] = node[t]
<1>1. 0 \in 0 .. MaxTime
  BY LifeTimeAssumption
<1>2. NoNode \in [ExpirationTick : 0 .. MaxTime, data : Data \cup {None}]
  BY <1>1 DEF NoNode
<1>3. QED
  BY <1>2 DEF Done, TypeOK

(* The variables of the thread chain.                                         *)
LEMMA ChainType ==
  ASSUME TypeOK, Next PROVE C!TypeOK'
<1>1. /\ pc \in C!Location /\ TerminateFlag \in BOOLEAN /\ Terminate \in {"open", "closed"}
      /\ watched \in BOOLEAN /\ caller \in [Caller -> {"idle", "force"}] /\ posted \in BOOLEAN
  BY DEF TypeOK, C!TypeOK
<1>2. CASE UNCHANGED chainVars
  BY <1>1, <1>2 DEF chainVars, C!TypeOK
<1>3. CASE SkipCheck(Forever)
  BY <1>1, <1>3 DEF SkipCheck, C!TypeOK, C!Location
<1>4. CASE Scan
  BY <1>1, <1>4 DEF Scan, C!TypeOK
<1>5. CASE EndCheck
  BY <1>1, <1>5 DEF EndCheck, C!TypeOK, C!Location
<1>6. CASE Arm
  <2>1. watched' \in BOOLEAN
    BY <1>6, Zenon DEF Arm, C!Arm
  <2>2. QED
    BY <1>1, <1>6, <2>1 DEF Arm, C!Arm, C!Goto, C!TypeOK, C!Location
<1>7. CASE SelectTimesOut \/ OtherSocket
  BY <1>1, <1>7 DEF SelectTimesOut, OtherSocket, C!SelectReturns, C!Goto, C!TypeOK, C!Location
<1>8. CASE SelectWoken
  BY <1>1, <1>8 DEF SelectWoken, C!SelectWoken, C!Goto, C!TypeOK, C!Location
<1>9. CASE Loop
  BY <1>1, <1>9 DEF Loop, C!LoopTest, C!Rearm, C!Reopen, C!Goto, C!TypeOK, C!Location
<1>10. CASE PostSelect
  BY <1>1, <1>10 DEF PostSelect, C!PostSelect, C!Goto, C!TypeOK, C!Location
<1>11. CASE Destroy
  BY <1>1, <1>11 DEF Destroy, C!DestroyChain, C!Goto, C!TypeOK, C!Location
<1>12. CASE \E c \in Caller : Insert(c)
  BY <1>1, <1>12 DEF Insert, C!TypeOK
<1>13. CASE \E c \in Caller : ForceUnBlockChain(c)
  BY <1>1, <1>13 DEF ForceUnBlockChain, C!ForceUnBlockChain, C!TypeOK
<1>14. CASE \E c \in Thread : StopChain(c)
  BY <1>1, <1>14 DEF StopChain, C!StopChain, C!TypeOK, Caller
<1>15. QED
  <2>1. CASE ChainThreadStep
    <3>1. BeginCheck(Forever) \/ Fire \/ CallbackReturns => UNCHANGED chainVars
      BY DEF BeginCheck, Fire, CallbackReturns
    <3>2. QED
      BY <1>2, <1>3, <1>4, <1>5, <1>6, <1>7, <1>8, <1>9, <1>10, <1>11, <2>1, <3>1
      DEF ChainThreadStep, Check
  <2>2. CASE OtherSocket
    BY <1>7, <2>2
  <2>3. CASE Tick
    BY <1>2, <2>3 DEF Tick
  <2>4. CASE \E c \in Caller : Continue(c)
    <3>1. \A c \in Caller : LowerTrigger(c) => UNCHANGED chainVars
      BY DEF LowerTrigger
    <3>2. QED
      BY <1>2, <1>12, <1>13, <2>4, <3>1 DEF Continue
  <2>5. CASE \E c \in Caller, t \in Timer, d \in Data, ms \in Delay : AddEx(c, t, d, ms)
    BY <1>2, <2>5 DEF AddEx
  <2>6. CASE \E c \in Caller, d \in Data : RemoveTimer(c, d)
    BY <1>2, <2>6 DEF RemoveTimer
  <2>7. QED
    BY <1>14, <2>1, <2>2, <2>3, <2>4, <2>5, <2>6 DEF Next

TimerType ==
  /\ check \in {"idle", "scan", "fire", "callback"}
  /\ now \in 0 .. MaxTime
  /\ ObjectList \in Seq(Timer)
  /\ Reserved \subseteq Data
  /\ NextTriggerTick \in -1 .. MaxTime
  /\ EventQueue \in Seq(Timer)
  /\ CurrentTick \in 0 .. MaxTime
  /\ blocktime \in 0 .. Forever
  /\ deadline \in 0 .. Forever + MaxTime
  /\ node \in [Timer -> [ExpirationTick : 0 .. MaxTime, data : Data \cup {None}]]
  /\ adding \in [Caller -> Timer \cup {None}]
  /\ op \in [Caller -> {"idle", "insert", "trigger"}]
  /\ outcome \in [Timer -> {"unused", "pending", "fired", "destroyed"}]

(* What is kept of the list is a list of timers.                             *)
LEMMA KeptQueue ==
  ASSUME TypeOK, NEW S, NEW q, q \in Kept(ObjectList, S) PROVE q \in Seq(Timer)
BY KeptOf DEF TypeOK

(* The steps of a Check.                                                      *)
LEMMA CheckType ==
  ASSUME TypeOK, InOrder, Check(Forever) \/ Scan \/ Fire \/ CallbackReturns \/ EndCheck
  PROVE  TimerType'
<1>1. TimerType /\ MaxTime \in Nat /\ Forever \in Nat /\ Second \in Nat \ {0} /\ Forever > MaxTime + Second
  BY LifeTimeAssumption DEF TypeOK, TimerType
<1>2. CASE SkipCheck(Forever)
  <2>1. blocktime' \in 0 .. Forever /\ CurrentTick' \in 0 .. MaxTime
    <3>1. NextTriggerTick > now /\ blocktime' = NextTriggerTick - now /\ CurrentTick' = now
      BY <1>2 DEF SkipCheck, NothingDue
    <3>2. NextTriggerTick \in -1 .. MaxTime /\ now \in 0 .. MaxTime
      BY <1>1 DEF TimerType
    <3>3. QED
      BY <1>1, <3>1, <3>2
  <2>2. UNCHANGED <<check, EventQueue, deadline, now, listVars, opVars, history>>
    BY <1>2 DEF SkipCheck
  <2>3. QED
    BY <1>1, <2>1, <2>2 DEF TimerType, listVars, opVars, history
<1>3. CASE BeginCheck(Forever)
  BY <1>1, <1>3 DEF TimerType, BeginCheck, opVars, history
<1>4. CASE Scan
  <2>1. ObjectList' \in Seq(Timer) /\ EventQueue' \in Seq(Timer)
    BY <1>4, KeptQueue DEF Scan
  <2>2. NextTriggerTick' \in -1 .. MaxTime
    <3>1. CASE ObjectList' = <<>>
      BY <1>1, <1>4, <3>1 DEF Scan
    <3>2. CASE ObjectList' # <<>>
      <4>1. SortedBy(ObjectList', node)
        <5>1. ObjectList \in Seq(Timer) /\ SortedBy(ObjectList, node)
          BY <1>1 DEF TimerType, InOrder, Sorted, SortedBy, Exp
        <5>2. \E S : ObjectList' \in Kept(ObjectList, S)
          BY <1>4 DEF Scan
        <5>3. QED
          BY <5>1, <5>2, KeptSorted
      <4>2. NextTriggerTick' = CHOOSE e \in {Exp(t) : t \in ToSet(ObjectList')} :
                                 \A t \in ToSet(ObjectList') : e <= Exp(t)
        BY <1>4, <3>2 DEF Scan
      <4>3. NextTriggerTick' \in 0 .. MaxTime
        BY <2>1, <3>2, <4>1, <4>2, EarliestType
      <4>4. QED
        BY <1>1, <4>3
    <3>3. QED
      BY <3>1, <3>2
  <2>3. /\ Reserved' = {} /\ check' = "fire"
        /\ UNCHANGED <<CurrentTick, blocktime, deadline, now, node, opVars, history>>
    BY <1>4 DEF Scan
  <2>4. QED
    BY <1>1, <2>1, <2>2, <2>3 DEF TimerType, opVars, history
<1>5. CASE Fire
  <2>1. EventQueue' \in Seq(Timer)
    BY <1>1, <1>5 DEF Fire, TimerType
  <2>2. /\ node' \in [Timer -> [ExpirationTick : 0 .. MaxTime, data : Data \cup {None}]]
        /\ outcome' \in [Timer -> {"unused", "pending", "fired", "destroyed"}]
    BY <1>5, DoneType DEF Fire
  <2>3. Reserved' \subseteq Data /\ check' \in {"idle", "scan", "fire", "callback"}
    BY <1>1, <1>5 DEF Fire, TimerType
  <2>4. UNCHANGED <<CurrentTick, blocktime, deadline, now, ObjectList, NextTriggerTick, opVars>>
    BY <1>5 DEF Fire
  <2>5. QED
    BY <1>1, <2>1, <2>2, <2>3, <2>4 DEF TimerType, opVars
<1>6. CASE CallbackReturns
  BY <1>1, <1>6 DEF TimerType, CallbackReturns, listVars, opVars, history
<1>7. CASE EndCheck
  <2>1. blocktime' \in 0 .. Forever
    <3>1. /\ NextTriggerTick \in -1 .. MaxTime /\ CurrentTick \in 0 .. MaxTime
          /\ blocktime \in 0 .. Forever
      BY <1>1 DEF TimerType
    <3>2. LET delta == NextTriggerTick - CurrentTick
          IN blocktime' = IF NextTriggerTick # -1 /\ blocktime > delta
                          THEN IF delta < Second THEN Second ELSE delta
                          ELSE blocktime
      BY <1>7 DEF EndCheck
    <3>3. QED
      BY <1>1, <3>1, <3>2
  <2>2. check' = "idle" /\ UNCHANGED <<EventQueue, CurrentTick, deadline, now, listVars, opVars, history>>
    BY <1>7 DEF EndCheck
  <2>3. QED
    BY <1>1, <2>1, <2>2 DEF TimerType, listVars, opVars, history
<1>8. QED
  BY <1>2, <1>3, <1>4, <1>5, <1>6, <1>7 DEF Check

(* The other steps.                                                           *)
LEMMA TimerStep ==
  ASSUME TypeOK, InOrder, AddInv, Next PROVE TimerType'
<1>1. TimerType /\ MaxTime \in Nat /\ Forever \in Nat
  BY LifeTimeAssumption DEF TypeOK, TimerType
<1>2. CASE UNCHANGED timerVars
  BY <1>1, <1>2 DEF TimerType, timerVars, checkVars, listVars, opVars, history
<1>3. CASE Arm
  <2>1. /\ deadline' = now + blocktime
        /\ UNCHANGED <<check, EventQueue, CurrentTick, blocktime, now, listVars, opVars, history>>
    BY <1>3 DEF Arm
  <2>2. deadline' \in 0 .. Forever + MaxTime
    BY <1>1, <2>1 DEF TimerType
  <2>3. QED
    BY <1>1, <2>1, <2>2 DEF TimerType, listVars, opVars, history
<1>4. CASE SelectEnds
  BY <1>1, <1>4 DEF TimerType, SelectEnds, listVars, opVars, history
<1>5. CASE Destroy
  <2>1. /\ node' \in [Timer -> [ExpirationTick : 0 .. MaxTime, data : Data \cup {None}]]
        /\ outcome' \in [Timer -> {"unused", "pending", "fired", "destroyed"}]
    BY <1>5, DoneType DEF Destroy
  <2>2. ObjectList' = <<>> /\ UNCHANGED <<checkVars, now, Reserved, NextTriggerTick, opVars>>
    BY <1>5 DEF Destroy
  <2>3. <<>> \in Seq(Timer)
    OBVIOUS
  <2>4. QED
    BY <1>1, <2>1, <2>2, <2>3 DEF TimerType, checkVars, opVars
<1>6. CASE Tick
  BY <1>1, <1>6 DEF TimerType, Tick, checkVars, listVars, opVars, history
<1>7. ASSUME NEW c \in Caller, Insert(c) PROVE TimerType'
  <2>1. adding[c] \in Timer
    BY <1>1, <1>7 DEF AddInv, Insert, TimerType
  <2>2. ObjectList' \in Seq(Timer)
    BY <1>7, <2>1, InsertType DEF WithNew
  <2>3. /\ outcome' = [outcome EXCEPT ![adding[c]] = "pending"]
        /\ op' = [op EXCEPT ![c] = "trigger"]
        /\ UNCHANGED <<checkVars, now, Reserved, NextTriggerTick, node, adding>>
    BY <1>7 DEF Insert
  <2>4. QED
    BY <1>1, <2>2, <2>3 DEF TimerType, checkVars
<1>8. ASSUME NEW c \in Caller, LowerTrigger(c) PROVE TimerType'
  <2>1. adding[c] \in Timer
    BY <1>1, <1>8 DEF AddInv, LowerTrigger, TimerType
  <2>2. NextTriggerTick' \in -1 .. MaxTime
    <3>1. Exp(adding[c]) \in 0 .. MaxTime
      BY <2>1, ExpType
    <3>2. QED
      BY <1>1, <1>8, <3>1 DEF LowerTrigger, TimerType
  <2>3. QED
    BY <1>1, <1>8, <2>2 DEF TimerType, LowerTrigger, checkVars, history
<1>9. ASSUME NEW c \in Caller, NEW t \in Timer, NEW d \in Data, NEW ms \in Delay, AddEx(c, t, d, ms)
      PROVE  TimerType'
  <2>1. now + ms \in 0 .. MaxTime
    BY <1>1, <1>9, LifeTimeAssumption DEF AddEx, TimerType
  <2>2. node' = [node EXCEPT ![t] = [ExpirationTick |-> now + ms, data |-> d]]
    BY <1>9 DEF AddEx
  <2>3. node' \in [Timer -> [ExpirationTick : 0 .. MaxTime, data : Data \cup {None}]]
    BY <1>1, <2>1, <2>2 DEF TimerType
  <2>4. /\ adding' = [adding EXCEPT ![c] = t] /\ op' = [op EXCEPT ![c] = "insert"]
        /\ UNCHANGED <<checkVars, now, ObjectList, Reserved, NextTriggerTick, history>>
    BY <1>9 DEF AddEx
  <2>5. QED
    BY <1>1, <2>3, <2>4 DEF TimerType, checkVars, history
<1>10. ASSUME NEW c \in Caller, NEW d \in Data, RemoveTimer(c, d) PROVE TimerType'
  <2> DEFINE removed == {t \in ToSet(ObjectList) : node[t].data = d}
  <2>1. /\ ObjectList' \in Kept(ObjectList, Timer \ removed) /\ Done(removed, "destroyed")
        /\ Reserved' \subseteq Reserved \cup {d}
        /\ UNCHANGED <<checkVars, now, NextTriggerTick, opVars>>
    BY <1>10 DEF RemoveTimer
  <2> HIDE DEF removed
  <2>2. ObjectList' \in Seq(Timer)
    BY <2>1, KeptQueue
  <2>3. /\ node' \in [Timer -> [ExpirationTick : 0 .. MaxTime, data : Data \cup {None}]]
        /\ outcome' \in [Timer -> {"unused", "pending", "fired", "destroyed"}]
    BY <2>1, DoneType
  <2>4. QED
    BY <1>1, <2>1, <2>2, <2>3 DEF TimerType, checkVars, opVars
<1>11. QED
  <2>1. CASE ChainThreadStep
    BY <1>2, <1>3, <1>4, <1>5, <2>1, CheckType
    DEF ChainThreadStep, SelectTimesOut, SelectWoken, Loop, PostSelect
  <2>2. CASE OtherSocket
    BY <1>4, <2>2 DEF OtherSocket
  <2>3. CASE \E c \in Caller : Continue(c)
    BY <1>2, <1>7, <1>8, <2>3 DEF Continue, ForceUnBlockChain
  <2>4. CASE \E c \in Thread : StopChain(c)
    BY <1>2, <2>4 DEF StopChain
  <2>5. QED
    BY <1>6, <1>9, <1>10, <2>1, <2>2, <2>3, <2>4 DEF Next

LEMMA TypeStep ==
  ASSUME TypeOK, InOrder, AddInv, Next PROVE TypeOK'
BY ChainType, TimerStep DEF TypeOK, TimerType

-----------------------------------------------------------------------------
(* The queues. *)

(* Only timers of the two queues are taken out of them, and only those and    *)
(* the timer of an AddEx get another node.                                    *)
LEMMA QueuedTimers ==
  ASSUME TypeOK PROVE ToSet(ObjectList) \subseteq Timer /\ ToSet(EventQueue) \subseteq Timer
BY ElementOfSeq DEF TypeOK, ToSet

Queues == QueueInv /\ SortedBy(ObjectList, node) /\ SortedBy(EventQueue, node)

LEMMA InOrderIsSorted == InOrder <=> SortedBy(ObjectList, node) /\ SortedBy(EventQueue, node)
BY DEF InOrder, Sorted, SortedBy, Exp

(* The empty list is sorted and holds nothing.                               *)
LEMMA EmptyList ==
  ASSUME NEW n PROVE IsInjective(<<>>) /\ ToSet(<<>>) = {} /\ SortedBy(<<>>, n)
BY DEF IsInjective, ToSet, SortedBy

(* Another node of a timer that is not in the list does not matter to it.     *)
LEMMA StillSorted ==
  ASSUME NEW list \in Seq(Timer), NEW n, SortedBy(list, n), NEW m,
         \A t \in ToSet(list) : m[t] = n[t]
  PROVE  SortedBy(list, m)
<1>1. \A i \in 1 .. Len(list) : m[list[i]] = n[list[i]]
  BY LenProperties DEF ToSet
<1>2. QED
  BY <1>1 DEF SortedBy

(* The list without its head.                                                 *)
LEMMA TailOf ==
  ASSUME NEW list \in Seq(Timer), list # <<>>, IsInjective(list), NEW n, SortedBy(list, n)
  PROVE  /\ Tail(list) \in Seq(Timer) /\ IsInjective(Tail(list)) /\ SortedBy(Tail(list), n)
         /\ Head(list) \in ToSet(list) /\ ToSet(Tail(list)) = ToSet(list) \ {Head(list)}
<1> DEFINE q == Tail(list)
<1>1. /\ q \in Seq(Timer) /\ Len(list) \in Nat \ {0} /\ Len(q) = Len(list) - 1
      /\ DOMAIN list = 1 .. Len(list) /\ DOMAIN q = 1 .. Len(q)
      /\ Head(list) = list[1] /\ \A i \in 1 .. Len(q) : q[i] = list[i + 1]
  BY HeadTailProperties, LenProperties, EmptySeq
<1> HIDE DEF q
<1>2. \A i \in DOMAIN q : i + 1 \in DOMAIN list /\ q[i] = list[i + 1] /\ i \in Int
  BY <1>1
<1>3. \A i, j \in DOMAIN list : list[i] = list[j] => i = j
  BY DEF IsInjective
<1>4. IsInjective(q)
  BY <1>2, <1>3 DEF IsInjective
<1>5. SortedBy(q, n)
  BY SMTT(30), <1>1, <1>2 DEF SortedBy
<1>6. 1 \in DOMAIN list
  BY <1>1
<1>7. Head(list) \in ToSet(list)
  BY <1>1, <1>6 DEF ToSet
<1>8. ASSUME NEW t \in ToSet(q) PROVE t \in ToSet(list) \ {Head(list)}
  <2>1. PICK i \in DOMAIN q : t = q[i]
    BY DEF ToSet
  <2>2. i + 1 # 1
    BY <1>1, <2>1
  <2>3. t # list[1]
    BY <1>2, <1>3, <1>6, <2>1, <2>2
  <2>4. t \in ToSet(list)
    BY <1>2, <2>1 DEF ToSet
  <2>5. QED
    BY <1>1, <2>3, <2>4
<1>9. ASSUME NEW t \in ToSet(list), t # Head(list) PROVE t \in ToSet(q)
  <2>1. PICK i \in DOMAIN list : t = list[i]
    BY DEF ToSet
  <2>2. i - 1 \in DOMAIN q /\ i - 1 + 1 = i
    BY <1>1, <1>9, <2>1
  <2>3. q[i - 1] = t
    BY <1>2, <2>1, <2>2
  <2>4. QED
    BY <2>2, <2>3 DEF ToSet
<1>10. QED
  BY <1>1, <1>4, <1>5, <1>7, <1>8, <1>9 DEF q

(* Every step keeps the queues sorted, disjoint and without repetition.      *)
LEMMA QueueStep ==
  ASSUME TypeOK, AddInv, CheckInv, Queues, Next PROVE Queues'
<1>1. /\ ObjectList \in Seq(Timer) /\ EventQueue \in Seq(Timer)
      /\ ToSet(ObjectList) \subseteq Timer /\ ToSet(EventQueue) \subseteq Timer
  BY QueuedTimers DEF TypeOK
<1>2. /\ IsInjective(ObjectList) /\ IsInjective(EventQueue)
      /\ ToSet(ObjectList) \cap ToSet(EventQueue) = {}
      /\ \A t \in Timer : outcome[t] = "pending" <=> t \in ToSet(ObjectList) \cup ToSet(EventQueue)
      /\ SortedBy(ObjectList, node) /\ SortedBy(EventQueue, node)
  BY DEF Queues, QueueInv
<1>3. ASSUME UNCHANGED <<ObjectList, EventQueue, node, outcome>> PROVE Queues'
  BY <1>2, <1>3 DEF Queues, QueueInv, SortedBy
<1>4. CASE Scan
  <2> DEFINE due == {t \in Timer : Due(t)}
             late == {t \in Timer : ~Due(t)}
  <2>1. /\ EventQueue' \in Kept(ObjectList, due) /\ ObjectList' \in Kept(ObjectList, late)
        /\ EventQueue = <<>> /\ node' = node /\ outcome' = outcome
    BY <1>4 DEF Scan, CheckInv, InCheck, history
  <2>2. due \cap late = {} /\ due \cup late = Timer
    OBVIOUS
  <2> HIDE DEF due, late
  <2>3. ToSet(EventQueue') = ToSet(ObjectList) \cap due /\ ToSet(ObjectList') = ToSet(ObjectList) \cap late
    BY <1>1, <2>1, KeptOf
  <2>4. IsInjective(EventQueue') /\ IsInjective(ObjectList')
    BY <1>1, <1>2, <2>1, KeptOnce
  <2>5. SortedBy(EventQueue', node') /\ SortedBy(ObjectList', node')
    BY <1>1, <1>2, <2>1, KeptSorted
  <2>6. ToSet(EventQueue) = {}
    BY <2>1, EmptyList
  <2>7. ToSet(ObjectList') \cap ToSet(EventQueue') = {}
    BY <2>2, <2>3
  <2>8. \A t \in Timer : outcome'[t] = "pending" <=> t \in ToSet(ObjectList') \cup ToSet(EventQueue')
    BY <1>2, <2>1, <2>2, <2>3, <2>6
  <2>9. QED
    BY <2>4, <2>5, <2>7, <2>8 DEF Queues, QueueInv
<1>5. CASE Fire
  <2> DEFINE t == Head(EventQueue)
  <2>1. EventQueue # <<>> /\ EventQueue' = Tail(EventQueue) /\ ObjectList' = ObjectList
    BY <1>5 DEF Fire
  <2>2. PICK end \in {"fired", "destroyed"} : Done({t}, end)
    BY <1>5 DEF Fire
  <2>3. /\ IsInjective(EventQueue') /\ SortedBy(EventQueue', node)
        /\ t \in ToSet(EventQueue) /\ ToSet(EventQueue') = ToSet(EventQueue) \ {t}
        /\ EventQueue' \in Seq(Timer)
    BY <1>1, <1>2, <2>1, TailOf
  <2> HIDE DEF t
  <2>4. \A u \in Timer : /\ outcome'[u] = IF u = t THEN end ELSE outcome[u]
                         /\ u # t => node'[u] = node[u]
    BY <2>2, DoneType
  <2>5. SortedBy(EventQueue', node')
    BY <1>1, <2>3, <2>4, StillSorted
  <2>6. SortedBy(ObjectList', node')
    <3>1. \A u \in ToSet(ObjectList) : node'[u] = node[u]
      BY <1>1, <1>2, <2>3, <2>4
    <3>2. SortedBy(ObjectList, node')
      BY <1>1, <1>2, <3>1, StillSorted
    <3>3. QED
      BY <2>1, <3>2
  <2>7. ToSet(ObjectList') = ToSet(ObjectList) /\ IsInjective(ObjectList')
    BY <1>2, <2>1
  <2>8. \A u \in Timer : outcome'[u] = "pending" <=> u \in ToSet(ObjectList') \cup ToSet(EventQueue')
    BY <1>2, <2>3, <2>4, <2>7
  <2>9. ToSet(ObjectList') \cap ToSet(EventQueue') = {}
    BY <1>2, <2>3, <2>7
  <2>10. QED
    BY <2>3, <2>5, <2>6, <2>7, <2>8, <2>9 DEF Queues, QueueInv
<1>6. CASE Destroy
  <2>1. /\ ObjectList' = <<>> /\ Done(ToSet(ObjectList), "destroyed") /\ EventQueue' = EventQueue
        /\ pc = "destroy"
    BY <1>6 DEF Destroy, C!DestroyChain, C!Goto, checkVars
  <2>2. EventQueue = <<>>
    BY <2>1 DEF CheckInv
  <2>3. \A u \in Timer : outcome'[u] = IF u \in ToSet(ObjectList) THEN "destroyed" ELSE outcome[u]
    BY <2>1, DoneType
  <2>4. /\ ToSet(ObjectList') = {} /\ ToSet(EventQueue') = {} /\ ToSet(EventQueue) = {}
        /\ IsInjective(ObjectList') /\ IsInjective(EventQueue')
        /\ SortedBy(ObjectList', node') /\ SortedBy(EventQueue', node')
    BY <2>1, <2>2, EmptyList
  <2>5. \A u \in Timer : outcome'[u] # "pending"
    BY <1>2, <2>3, <2>4
  <2>6. QED
    BY <2>4, <2>5 DEF Queues, QueueInv
<1>7. ASSUME NEW c \in Caller, Insert(c) PROVE Queues'
  <2>1. PICK t \in Timer : t = adding[c] /\ outcome[t] = "unused"
    BY <1>7 DEF AddInv, Insert, TypeOK
  <2>2. PICK k \in 0 .. Len(ObjectList) :
          k \in Ahead(ObjectList, Exp(t)) /\ WithNew(ObjectList, k, t, ObjectList')
    BY <1>7, <2>1, InsertType
  <2>3. t \notin ToSet(ObjectList) /\ t \notin ToSet(EventQueue)
    BY <1>2, <2>1
  <2>4. IsInjective(ObjectList') /\ ToSet(ObjectList') = ToSet(ObjectList) \cup {t}
    BY <1>1, <1>2, <2>2, <2>3, NewOnce
  <2>5. /\ EventQueue' = EventQueue /\ node' = node
        /\ outcome' = [outcome EXCEPT ![t] = "pending"]
    BY <1>7, <2>1 DEF Insert, checkVars
  <2>6. SortedBy(ObjectList', node)
    <3>1. \A u \in Timer : node[u].ExpirationTick \in Int
      BY ExpType, LifeTimeAssumption DEF Exp
    <3>2. /\ \A i \in 1 .. k : node[ObjectList[i]].ExpirationTick < node[t].ExpirationTick
          /\ k < Len(ObjectList) => node[t].ExpirationTick <= node[ObjectList[k + 1]].ExpirationTick
      BY <2>2 DEF Ahead, Exp
    <3>3. QED
      BY <1>1, <1>2, <2>2, <3>1, <3>2, NewInOrder
  <2>7. \A u \in Timer : outcome'[u] = IF u = t THEN "pending" ELSE outcome[u]
    BY <2>5 DEF TypeOK
  <2>8. ToSet(ObjectList') \cap ToSet(EventQueue') = {}
    BY <1>2, <2>3, <2>4, <2>5
  <2>9. \A u \in Timer : outcome'[u] = "pending" <=> u \in ToSet(ObjectList') \cup ToSet(EventQueue')
    BY <1>2, <2>4, <2>5, <2>7
  <2>10. IsInjective(EventQueue') /\ SortedBy(EventQueue', node') /\ SortedBy(ObjectList', node')
    BY <1>2, <2>5, <2>6
  <2>11. QED
    BY <2>4, <2>8, <2>9, <2>10 DEF Queues, QueueInv
<1>8. ASSUME NEW c \in Caller, NEW t \in Timer, NEW d \in Data, NEW ms \in Delay, AddEx(c, t, d, ms)
      PROVE  Queues'
  <2>1. /\ outcome[t] = "unused" /\ UNCHANGED <<ObjectList, EventQueue, outcome>>
        /\ node' = [node EXCEPT ![t] = [ExpirationTick |-> now + ms, data |-> d]]
    BY <1>8 DEF AddEx, checkVars, history
  <2>2. \A u \in ToSet(ObjectList) \cup ToSet(EventQueue) : node'[u] = node[u]
    BY <1>1, <1>2, <2>1 DEF TypeOK
  <2>3. SortedBy(ObjectList, node') /\ SortedBy(EventQueue, node')
    BY <1>1, <1>2, <2>2, StillSorted
  <2>4. QED
    BY <1>2, <2>1, <2>3 DEF Queues, QueueInv
<1>9. ASSUME NEW c \in Caller, NEW d \in Data, RemoveTimer(c, d) PROVE Queues'
  <2> DEFINE removed == {t \in ToSet(ObjectList) : node[t].data = d}
  <2>1. /\ ObjectList' \in Kept(ObjectList, Timer \ removed) /\ Done(removed, "destroyed")
        /\ EventQueue' = EventQueue
    BY <1>9 DEF RemoveTimer, checkVars
  <2>2. removed \subseteq ToSet(ObjectList)
    OBVIOUS
  <2> HIDE DEF removed
  <2>3. ToSet(ObjectList') = ToSet(ObjectList) \ removed /\ IsInjective(ObjectList')
    BY <1>1, <1>2, <2>1, KeptOf, KeptOnce
  <2>4. \A u \in Timer : /\ outcome'[u] = IF u \in removed THEN "destroyed" ELSE outcome[u]
                         /\ u \notin removed => node'[u] = node[u]
    BY <2>1, DoneType
  <2>5. SortedBy(ObjectList', node')
    <3>1. \A u \in ToSet(ObjectList') : node'[u] = node[u]
      BY <1>1, <2>3, <2>4
    <3>2. QED
      BY <1>1, <1>2, <2>1, <3>1, KeptSorted
  <2>6. SortedBy(EventQueue', node')
    <3>1. \A u \in ToSet(EventQueue) : node'[u] = node[u]
      BY <1>1, <1>2, <2>2, <2>4
    <3>2. SortedBy(EventQueue, node')
      BY <1>1, <1>2, <3>1, StillSorted
    <3>3. QED
      BY <2>1, <3>2
  <2>7. ToSet(ObjectList') \cap ToSet(EventQueue') = {}
    BY <1>2, <2>1, <2>3
  <2>8. \A u \in Timer : outcome'[u] = "pending" <=> u \in ToSet(ObjectList') \cup ToSet(EventQueue')
    BY <1>2, <2>1, <2>2, <2>3, <2>4
  <2>9. QED
    BY <1>2, <2>1, <2>3, <2>5, <2>6, <2>7, <2>8 DEF Queues, QueueInv
<1>10. QED
  <2>1. CASE ChainThreadStep
    <3>1. Check(Forever) \/ CallbackReturns \/ EndCheck \/ Arm \/ SelectTimesOut \/ SelectWoken \/ Loop
          \/ PostSelect => UNCHANGED <<ObjectList, EventQueue, node, outcome>>
      BY DEF Check, SkipCheck, BeginCheck, CallbackReturns, EndCheck, Arm, SelectTimesOut, SelectWoken,
             SelectEnds, Loop, PostSelect, timerVars, checkVars, listVars, history
    <3>2. QED
      BY <1>3, <1>4, <1>5, <1>6, <2>1, <3>1 DEF ChainThreadStep
  <2>2. OtherSocket \/ Tick => UNCHANGED <<ObjectList, EventQueue, node, outcome>>
    BY DEF OtherSocket, SelectEnds, Tick, checkVars, listVars, history
  <2>3. \A c \in Caller : LowerTrigger(c) \/ ForceUnBlockChain(c) =>
          UNCHANGED <<ObjectList, EventQueue, node, outcome>>
    BY DEF LowerTrigger, ForceUnBlockChain, timerVars, checkVars, listVars, history
  <2>4. \A c \in Thread : StopChain(c) => UNCHANGED <<ObjectList, EventQueue, node, outcome>>
    BY DEF StopChain, timerVars, checkVars, listVars, history
  <2>5. QED
    BY <1>3, <1>7, <1>8, <1>9, <2>1, <2>2, <2>3, <2>4 DEF Next, Continue

-----------------------------------------------------------------------------
(* The calls. *)

(* A step of no AddEx leaves the timers that are being added alone.           *)
LEMMA AddUntouched ==
  ASSUME TypeOK, AddInv, UNCHANGED opVars,
         \A c \in Caller : op[c] = "insert" => caller'[c] = caller[c],
         \A t \in Timer : outcome[t] = "unused" => outcome'[t] = "unused"
  PROVE  AddInv'
<1>1. adding' = adding /\ op' = op
  BY DEF opVars
<1>2. \A c \in Caller : op[c] = "insert" => adding[c] \in Timer
  BY DEF AddInv, TypeOK
<1>3. QED
  BY <1>1, <1>2 DEF AddInv

(* Every step keeps what is known of the timers being added.                 *)
LEMMA AddStep ==
  ASSUME TypeOK, AddInv, Queues, Next PROVE AddInv'
<1>1. /\ op \in [Caller -> {"idle", "insert", "trigger"}] /\ adding \in [Caller -> Timer \cup {None}]
      /\ outcome \in [Timer -> {"unused", "pending", "fired", "destroyed"}]
      /\ caller \in [Caller -> {"idle", "force"}] /\ None \notin Timer
  BY LifeTimeAssumption DEF TypeOK, C!TypeOK
<1>2. /\ \A c \in Caller : op[c] = "idle" <=> adding[c] = None
      /\ \A c \in Caller : op[c] = "insert" => outcome[adding[c]] = "unused" /\ caller[c] = "idle"
      /\ \A c, o \in Caller : adding[c] # None /\ adding[c] = adding[o] => c = o
  BY DEF AddInv
<1>3. ASSUME UNCHANGED <<opVars, caller, outcome>> PROVE AddInv'
  BY <1>3, AddUntouched
<1>4. ASSUME NEW ts, NEW end, end # "unused", Done(ts, end), \A t \in ts : t \in Timer => outcome[t] # "unused",
             UNCHANGED <<opVars, caller>>
      PROVE  AddInv'
  <2>1. \A t \in Timer : outcome[t] = "unused" => outcome'[t] = "unused"
    BY <1>4 DEF Done
  <2>2. QED
    BY <1>4, <2>1, AddUntouched
<1>5. /\ \A t \in ToSet(ObjectList) : t \in Timer => outcome[t] # "unused"
      /\ \A t \in ToSet(EventQueue) : t \in Timer => outcome[t] # "unused"
  BY DEF Queues, QueueInv
<1>6. CASE Fire
  <2>1. EventQueue \in Seq(Timer) /\ EventQueue # <<>>
    BY <1>6 DEF Fire, TypeOK
  <2>2. Head(EventQueue) \in ToSet(EventQueue)
    BY <2>1, TailOf DEF Queues, QueueInv
  <2>3. \E end \in {"fired", "destroyed"} : Done({Head(EventQueue)}, end)
    BY <1>6 DEF Fire
  <2>4. UNCHANGED <<opVars, caller>>
    BY <1>6 DEF Fire, chainVars
  <2>5. QED
    BY <1>4, <1>5, <2>2, <2>3, <2>4
<1>7. CASE Destroy
  <2>1. Done(ToSet(ObjectList), "destroyed") /\ UNCHANGED <<opVars, caller>>
    BY <1>7 DEF Destroy, C!DestroyChain
  <2>2. QED
    BY <1>4, <1>5, <2>1
<1>8. ASSUME NEW c \in Caller, NEW d \in Data, RemoveTimer(c, d) PROVE AddInv'
  <2>1. /\ Done({t \in ToSet(ObjectList) : node[t].data = d}, "destroyed")
        /\ UNCHANGED <<opVars, caller>>
    BY <1>8 DEF RemoveTimer, chainVars
  <2>2. QED
    BY <1>4, <1>5, <2>1
<1>9. ASSUME NEW c \in Caller, NEW t \in Timer, NEW d \in Data, NEW ms \in Delay, AddEx(c, t, d, ms)
      PROVE  AddInv'
  <2>1. /\ op[c] = "idle" /\ caller[c] = "idle" /\ outcome[t] = "unused"
        /\ \A o \in Caller : adding[o] # t
        /\ adding' = [adding EXCEPT ![c] = t] /\ op' = [op EXCEPT ![c] = "insert"]
        /\ caller' = caller /\ outcome' = outcome
    BY <1>9 DEF AddEx, MayCall, chainVars, history
  <2>2. \A o \in Caller : /\ adding'[o] = IF o = c THEN t ELSE adding[o]
                          /\ op'[o] = IF o = c THEN "insert" ELSE op[o]
    BY <1>1, <2>1
  <2>3. t # None
    BY <1>1
  <2>4. QED
    BY <1>2, <2>1, <2>2, <2>3 DEF AddInv
<1>10. ASSUME NEW c \in Caller, Insert(c) PROVE AddInv'
  <2>1. /\ op[c] = "insert" /\ op' = [op EXCEPT ![c] = "trigger"] /\ adding' = adding
        /\ outcome' = [outcome EXCEPT ![adding[c]] = "pending"]
        /\ \A o \in Caller : o # c => caller'[o] = caller[o]
    BY <1>1, <1>10 DEF Insert
  <2>2. \A o \in Caller : op'[o] = IF o = c THEN "trigger" ELSE op[o]
    BY <1>1, <2>1
  <2>3. ASSUME NEW o \in Caller, op'[o] = "insert"
        PROVE  outcome'[adding[o]] = "unused" /\ caller'[o] = "idle"
    <3>1. o # c /\ op[o] = "insert"
      BY <2>2, <2>3
    <3>2. adding[o] # adding[c] /\ adding[o] \in Timer
      BY <1>1, <1>2, <3>1
    <3>3. QED
      BY <1>1, <1>2, <2>1, <3>1, <3>2
  <2>4. QED
    BY <1>2, <2>1, <2>2, <2>3 DEF AddInv
<1>11. ASSUME NEW c \in Caller, LowerTrigger(c) PROVE AddInv'
  <2>1. /\ op[c] = "trigger" /\ op' = [op EXCEPT ![c] = "idle"] /\ adding' = [adding EXCEPT ![c] = None]
        /\ caller' = caller /\ outcome' = outcome
    BY <1>11 DEF LowerTrigger, chainVars, history
  <2>2. \A o \in Caller : /\ adding'[o] = IF o = c THEN None ELSE adding[o]
                          /\ op'[o] = IF o = c THEN "idle" ELSE op[o]
    BY <1>1, <2>1
  <2>3. QED
    BY <1>2, <2>1, <2>2 DEF AddInv
<1>12. ASSUME NEW c \in Caller, ForceUnBlockChain(c) PROVE AddInv'
  <2>1. /\ UNCHANGED <<opVars, outcome>> /\ caller[c] = "force"
        /\ \A o \in Caller : o # c => caller'[o] = caller[o]
    BY <1>1, <1>12 DEF ForceUnBlockChain, C!ForceUnBlockChain, timerVars, history
  <2>2. \A o \in Caller : op[o] = "insert" => caller'[o] = caller[o]
    BY <1>2, <2>1
  <2>3. QED
    BY <2>1, <2>2, AddUntouched
<1>13. ASSUME NEW c \in Thread, StopChain(c) PROVE AddInv'
  <2>1. /\ UNCHANGED <<opVars, outcome>> /\ c \in Caller /\ op[c] = "idle"
        /\ \A o \in Caller : o # c => caller'[o] = caller[o]
    BY <1>1, <1>13 DEF StopChain, C!StopChain, timerVars, history, Caller
  <2>2. QED
    BY <2>1, AddUntouched
<1>14. QED
  <2>1. CASE ChainThreadStep
    <3>1. Check(Forever) \/ Scan \/ CallbackReturns \/ EndCheck => UNCHANGED <<opVars, caller, outcome>>
      BY DEF Check, SkipCheck, BeginCheck, Scan, CallbackReturns, EndCheck, chainVars, history
    <3>2. Arm \/ SelectTimesOut \/ SelectWoken \/ Loop \/ PostSelect => UNCHANGED <<opVars, caller, outcome>>
      BY DEF Arm, SelectTimesOut, SelectWoken, SelectEnds, Loop, PostSelect, timerVars, history,
             C!Arm, C!SelectReturns, C!SelectWoken, C!LoopTest, C!Rearm, C!Reopen, C!PostSelect
    <3>3. QED
      BY <1>3, <1>6, <1>7, <2>1, <3>1, <3>2 DEF ChainThreadStep
  <2>2. OtherSocket \/ Tick => UNCHANGED <<opVars, caller, outcome>>
    BY DEF OtherSocket, C!SelectReturns, SelectEnds, Tick, chainVars, history
  <2>3. QED
    BY <1>3, <1>8, <1>9, <1>10, <1>11, <1>12, <1>13, <2>1, <2>2 DEF Next, Continue

-----------------------------------------------------------------------------
(* The Check and the sleep. *)

(* Every step keeps what is known of the running Check.                      *)
LEMMA CheckStep ==
  ASSUME TypeOK, CheckInv, Queues, Next PROVE CheckInv'
<1>1. /\ check # "idle" => pc = "presel"
      /\ check \in {"idle", "scan"} => EventQueue = <<>>
      /\ CurrentTick <= now
      /\ \A t \in ToSet(EventQueue) : Exp(t) < CurrentTick
  BY DEF CheckInv
<1>2. now \in Nat /\ CurrentTick \in Nat /\ check \in {"idle", "scan", "fire", "callback"}
  BY LifeTimeAssumption DEF TypeOK
<1>3. /\ ToSet(EventQueue) \subseteq Timer /\ ObjectList \in Seq(Timer) /\ EventQueue \in Seq(Timer)
      /\ ToSet(ObjectList) \subseteq Timer
  BY QueuedTimers DEF TypeOK
<1>4. ASSUME UNCHANGED <<check, EventQueue, CurrentTick, now>>,
             \A t \in ToSet(EventQueue) : node'[t] = node[t], check # "idle" => pc' = pc
      PROVE  CheckInv'
  BY <1>1, <1>4 DEF CheckInv, Exp
<1>5. CASE SkipCheck(Forever)
  <2>1. check = "idle" /\ check' = check /\ CurrentTick' = now /\ now' = now /\ EventQueue' = EventQueue
    BY <1>5 DEF SkipCheck, InCheck
  <2>2. EventQueue' = <<>> /\ ToSet(EventQueue') = {}
    BY <1>1, <2>1, EmptyList
  <2>3. QED
    BY <1>2, <2>1, <2>2 DEF CheckInv
<1>6. CASE BeginCheck(Forever)
  <2>1. /\ check = "idle" /\ pc = "presel" /\ check' = "scan" /\ pc' = pc
        /\ CurrentTick' = now /\ now' = now /\ EventQueue' = EventQueue
    BY <1>6 DEF BeginCheck, InCheck, chainVars
  <2>2. EventQueue' = <<>> /\ ToSet(EventQueue') = {}
    BY <1>1, <2>1, EmptyList
  <2>3. QED
    BY <1>2, <2>1, <2>2 DEF CheckInv
<1>7. CASE Scan
  <2>1. /\ pc = "presel" /\ check' = "fire" /\ UNCHANGED <<pc, CurrentTick, now, node>>
        /\ EventQueue' \in Kept(ObjectList, {t \in Timer : Due(t)})
    BY <1>7 DEF Scan, InCheck
  <2>2. ToSet(EventQueue') \subseteq {t \in Timer : Due(t)}
    BY <1>3, <2>1, KeptOf
  <2>3. QED
    BY <1>1, <2>1, <2>2 DEF CheckInv, Due, Exp
<1>8. CASE Fire
  <2>1. /\ pc = "presel" /\ EventQueue # <<>> /\ EventQueue' = Tail(EventQueue)
        /\ check' \in {"fire", "callback"} /\ UNCHANGED <<pc, CurrentTick, now>>
        /\ \E end \in {"fired", "destroyed"} : Done({Head(EventQueue)}, end)
    BY <1>8 DEF Fire, InCheck, chainVars
  <2>2. ToSet(EventQueue') = ToSet(EventQueue) \ {Head(EventQueue)}
    BY <1>3, <2>1, TailOf DEF Queues, QueueInv
  <2>3. \A t \in ToSet(EventQueue') : node'[t] = node[t]
    BY <1>3, <2>1, <2>2, DoneType
  <2>4. QED
    BY <1>1, <2>1, <2>2, <2>3 DEF CheckInv, Exp
<1>9. CASE CallbackReturns
  BY <1>1, <1>9 DEF CallbackReturns, InCheck, CheckInv, chainVars, listVars, Exp
<1>10. CASE EndCheck
  BY <1>1, <1>10 DEF EndCheck, InCheck, CheckInv, listVars, Exp
<1>11. ASSUME SelectEnds, pc = "select" PROVE CheckInv'
  <2>1. check = "idle"
    BY <1>1, <1>11
  <2>2. check' = check /\ CurrentTick' = 0 /\ EventQueue' = EventQueue /\ now' = now
    BY <1>11 DEF SelectEnds
  <2>3. EventQueue' = <<>> /\ ToSet(EventQueue') = {}
    BY <1>1, <2>1, <2>2, EmptyList
  <2>4. QED
    BY <1>2, <2>1, <2>2, <2>3 DEF CheckInv
<1>12. CASE Tick
  <2>1. /\ now' = now + 1 /\ UNCHANGED <<pc, check, EventQueue, CurrentTick, node>>
    BY <1>12 DEF Tick, chainVars, checkVars, listVars
  <2>2. CurrentTick' <= now'
    BY <1>1, <1>2, <2>1
  <2>3. QED
    BY <1>1, <2>1, <2>2 DEF CheckInv, Exp
<1>13. CASE Destroy
  <2>1. /\ UNCHANGED checkVars /\ now' = now /\ Done(ToSet(ObjectList), "destroyed") /\ pc = "destroy"
    BY <1>13 DEF Destroy, C!DestroyChain, C!Goto
  <2>2. ToSet(ObjectList) \cap ToSet(EventQueue) = {}
    BY DEF Queues, QueueInv
  <2>3. \A t \in ToSet(EventQueue) : node'[t] = node[t]
    BY <1>3, <2>1, <2>2, DoneType
  <2>4. QED
    BY <1>1, <1>4, <2>1, <2>3 DEF checkVars
<1>14. ASSUME NEW c \in Caller, NEW t \in Timer, NEW d \in Data, NEW ms \in Delay, AddEx(c, t, d, ms)
       PROVE  CheckInv'
  <2>1. /\ UNCHANGED <<pc, check, EventQueue, CurrentTick, now>> /\ outcome[t] = "unused"
        /\ node' = [node EXCEPT ![t] = [ExpirationTick |-> now + ms, data |-> d]]
    BY <1>14 DEF AddEx, chainVars, checkVars
  <2>2. t \notin ToSet(EventQueue)
    BY <2>1 DEF Queues, QueueInv
  <2>3. \A u \in ToSet(EventQueue) : node'[u] = node[u]
    BY <1>3, <2>1, <2>2 DEF TypeOK
  <2>4. QED
    BY <1>4, <2>1, <2>3
<1>15. ASSUME NEW c \in Caller, NEW d \in Data, RemoveTimer(c, d) PROVE CheckInv'
  <2> DEFINE removed == {t \in ToSet(ObjectList) : node[t].data = d}
  <2>1. /\ UNCHANGED <<pc, check, EventQueue, CurrentTick, now>> /\ Done(removed, "destroyed")
        /\ removed \subseteq ToSet(ObjectList)
    BY <1>15 DEF RemoveTimer, chainVars, checkVars
  <2> HIDE DEF removed
  <2>2. ToSet(ObjectList) \cap ToSet(EventQueue) = {}
    BY DEF Queues, QueueInv
  <2>3. \A t \in ToSet(EventQueue) : node'[t] = node[t]
    BY <1>3, <2>1, <2>2, DoneType
  <2>4. QED
    BY <1>4, <2>1, <2>3
<1>16. QED
  <2>1. Arm \/ Loop \/ PostSelect => CheckInv'
    <3>1. Arm \/ Loop \/ PostSelect => UNCHANGED <<check, EventQueue, CurrentTick, now, node>>
      BY DEF Arm, Loop, PostSelect, timerVars, checkVars, listVars
    <3>2. Arm \/ Loop \/ PostSelect => pc # "presel"
      BY DEF Arm, Loop, PostSelect, C!Arm, C!LoopTest, C!Rearm, C!Reopen, C!PostSelect, C!Goto
    <3>3. QED
      BY <1>1, <1>4, <3>1, <3>2
  <2>2. SelectTimesOut \/ SelectWoken \/ OtherSocket => CheckInv'
    BY <1>11 DEF SelectTimesOut, SelectWoken, OtherSocket, C!SelectReturns, C!SelectWoken, C!Goto
  <2>3. ASSUME NEW c \in Caller, Continue(c) PROVE CheckInv'
    <3>1. UNCHANGED <<pc, check, EventQueue, CurrentTick, now, node>>
      BY <2>3 DEF Continue, Insert, LowerTrigger, ForceUnBlockChain, C!ForceUnBlockChain,
                  timerVars, chainVars, checkVars, listVars
    <3>2. QED
      BY <1>4, <3>1
  <2>4. ASSUME NEW c \in Thread, StopChain(c) PROVE CheckInv'
    <3>1. UNCHANGED <<pc, check, EventQueue, CurrentTick, now, node>>
      BY <2>4 DEF StopChain, C!StopChain, timerVars, checkVars, listVars
    <3>2. QED
      BY <1>4, <3>1
  <2>5. QED
    BY <1>5, <1>6, <1>7, <1>8, <1>9, <1>10, <1>12, <1>13, <1>14, <1>15, <2>1, <2>2, <2>3, <2>4
    DEF Next, ChainThreadStep, Check

(* A list that does not get its first timer in a step had one before.         *)
LEMMA FirstPosts ==
  ASSUME TypeOK, Next, ObjectList' # <<>>
  PROVE  ObjectList # <<>> \/ posted'
<1>1. \A S, q : q \in Kept(ObjectList, S) /\ q # <<>> => ObjectList # <<>>
  <2>1. ASSUME NEW S, NEW q \in Kept(ObjectList, S), q # <<>> PROVE ObjectList # <<>>
    <3>1. ObjectList \in Seq(Timer)
      BY DEF TypeOK
    <3>2. q \in Seq(Timer) /\ ToSet(q) = ToSet(ObjectList) \cap S
      BY <3>1, KeptOf
    <3>3. q[1] \in ToSet(q)
      <4>1. Len(q) \in Nat /\ Len(q) # 0 /\ DOMAIN q = 1 .. Len(q)
        BY <2>1, <3>2, LenProperties, EmptySeq
      <4>2. 1 \in DOMAIN q
        BY <4>1
      <4>3. QED
        BY <4>2 DEF ToSet
    <3>4. QED
      BY <3>2, <3>3, EmptyList
  <2>2. QED
    BY <2>1
<1>2. CASE Scan
  BY <1>1, <1>2 DEF Scan
<1>3. \A c \in Caller, d \in Data : RemoveTimer(c, d) => ObjectList # <<>>
  BY <1>1 DEF RemoveTimer
<1>4. ~Destroy
  BY DEF Destroy
<1>5. \A c \in Caller : Insert(c) => ObjectList # <<>> \/ posted'
  BY DEF Insert
<1>6. UNCHANGED ObjectList => ObjectList # <<>>
  OBVIOUS
<1>7. QED
  <2>1. CASE ChainThreadStep
    <3>1. Check(Forever) \/ Fire \/ CallbackReturns \/ EndCheck \/ Arm \/ SelectTimesOut \/ SelectWoken
          \/ Loop \/ PostSelect => UNCHANGED ObjectList
      BY DEF Check, SkipCheck, BeginCheck, Fire, CallbackReturns, EndCheck, Arm, SelectTimesOut,
             SelectWoken, SelectEnds, Loop, PostSelect, timerVars, listVars
    <3>2. QED
      BY <1>2, <1>4, <1>6, <2>1, <3>1 DEF ChainThreadStep
  <2>2. OtherSocket \/ Tick => UNCHANGED ObjectList
    BY DEF OtherSocket, SelectEnds, Tick, listVars
  <2>3. \A c \in Caller : LowerTrigger(c) \/ ForceUnBlockChain(c) => UNCHANGED ObjectList
    BY DEF LowerTrigger, ForceUnBlockChain, timerVars, listVars
  <2>4. \A c \in Thread : StopChain(c) => UNCHANGED ObjectList
    BY DEF StopChain, timerVars, listVars
  <2>5. \A c \in Caller, t \in Timer, d \in Data, ms \in Delay : AddEx(c, t, d, ms) => UNCHANGED ObjectList
    BY DEF AddEx
  <2>6. QED
    BY <1>3, <1>5, <1>6, <2>1, <2>2, <2>3, <2>4, <2>5 DEF Next, Continue

(* A request is forgotten in the scan, or in a Check that is skipped.         *)
LEMMA PostedKept ==
  ASSUME Next PROVE posted' = posted \/ posted' \/ Scan \/ SkipCheck(Forever)
<1>1. CASE ChainThreadStep
  BY <1>1 DEF ChainThreadStep, Check, BeginCheck, Fire, CallbackReturns, EndCheck, Arm, SelectTimesOut,
              SelectWoken, Loop, PostSelect, Destroy, C!Arm, C!SelectReturns, C!SelectWoken, C!LoopTest,
              C!Rearm, C!Reopen, C!PostSelect, C!DestroyChain, chainVars
<1>2. CASE OtherSocket \/ Tick
  BY <1>2 DEF OtherSocket, C!SelectReturns, Tick, chainVars
<1>3. CASE \E c \in Caller : Continue(c)
  BY <1>3 DEF Continue, Insert, LowerTrigger, ForceUnBlockChain, C!ForceUnBlockChain, chainVars
<1>4. CASE \E c \in Thread : StopChain(c)
  BY <1>4 DEF StopChain, C!StopChain
<1>5. CASE \E c \in Caller, t \in Timer, d \in Data, ms \in Delay : AddEx(c, t, d, ms)
  BY <1>5 DEF AddEx, chainVars
<1>6. CASE \E c \in Caller, d \in Data : RemoveTimer(c, d)
  BY <1>6 DEF RemoveTimer, chainVars
<1>7. QED
  BY <1>1, <1>2, <1>3, <1>4, <1>5, <1>6 DEF Next

LEMMA TriggerStep ==
  ASSUME TypeOK, TypeOK', InOrder, AddInv, TriggerInv, Next PROVE TriggerInv'
<1> SUFFICES ASSUME ObjectList' # <<>>, ~posted', check' \in {"fire", "callback"}
             PROVE  NextTriggerTick' # -1
  BY DEF TriggerInv
<1>1. ObjectList # <<>>
  BY FirstPosts
<1>2. CASE Scan
  <2>1. ObjectList' \in Seq(Timer) /\ ObjectList \in Seq(Timer) /\ SortedBy(ObjectList, node)
    BY InOrderIsSorted DEF TypeOK
  <2>2. SortedBy(ObjectList', node)
    <3>1. \E S : ObjectList' \in Kept(ObjectList, S)
      BY <1>2 DEF Scan
    <3>2. QED
      BY <2>1, <3>1, KeptSorted
  <2>3. NextTriggerTick' = CHOOSE e \in {Exp(t) : t \in ToSet(ObjectList')} :
                             \A t \in ToSet(ObjectList') : e <= Exp(t)
    BY <1>2 DEF Scan
  <2>4. NextTriggerTick' \in 0 .. MaxTime
    BY <2>1, <2>2, <2>3, EarliestType
  <2>5. QED
    BY <2>4, LifeTimeAssumption
<1>3. ASSUME NEW c \in Caller, LowerTrigger(c) PROVE NextTriggerTick' # -1
  <2>1. ~posted /\ check \in {"fire", "callback"} /\ adding[c] \in Timer
    BY <1>3 DEF LowerTrigger, chainVars, checkVars, AddInv, TypeOK
  <2>2. NextTriggerTick # -1
    BY <1>1, <2>1 DEF TriggerInv
  <2>3. Exp(adding[c]) \in 0 .. MaxTime
    BY <2>1, ExpType
  <2>4. QED
    BY <1>3, <2>2, <2>3, LifeTimeAssumption DEF LowerTrigger
<1>4. ASSUME UNCHANGED <<posted, NextTriggerTick>>, check \in {"fire", "callback"} PROVE NextTriggerTick' # -1
  BY <1>1, <1>4 DEF TriggerInv
<1>5. CASE ChainThreadStep
  <2>1. CASE Fire \/ CallbackReturns
    BY <1>4, <2>1 DEF Fire, CallbackReturns, InCheck, chainVars, listVars
  <2>2. CASE Arm \/ SelectTimesOut \/ SelectWoken \/ Loop \/ PostSelect \/ Destroy
    <3>1. UNCHANGED <<posted, NextTriggerTick, check>>
      BY <2>2 DEF Arm, SelectTimesOut, SelectWoken, SelectEnds, Loop, PostSelect, Destroy, C!Arm,
                  C!SelectReturns, C!SelectWoken, C!LoopTest, C!Rearm, C!Reopen, C!PostSelect,
                  C!DestroyChain, timerVars, checkVars, listVars
    <3>2. QED
      BY <1>4, <3>1
  <2>3. ~(Check(Forever) \/ EndCheck)
    BY DEF Check, SkipCheck, BeginCheck, EndCheck, InCheck
  <2>4. QED
    BY <1>2, <1>5, <2>1, <2>2, <2>3 DEF ChainThreadStep
<1>6. ASSUME NEW c \in Caller, Insert(c) PROVE NextTriggerTick' # -1
  BY <1>1, <1>4, <1>6 DEF Insert, checkVars
<1>7. CASE OtherSocket \/ Tick
  BY <1>4, <1>7 DEF OtherSocket, C!SelectReturns, SelectEnds, Tick, chainVars, checkVars, listVars
<1>8. ASSUME NEW c \in Caller, ForceUnBlockChain(c) PROVE NextTriggerTick' # -1
  BY <1>4, <1>8 DEF ForceUnBlockChain, C!ForceUnBlockChain, timerVars, checkVars, listVars
<1>9. ASSUME NEW c \in Thread, StopChain(c) PROVE NextTriggerTick' # -1
  BY <1>4, <1>9 DEF StopChain, C!StopChain, timerVars, checkVars, listVars
<1>10. CASE \E c \in Caller, t \in Timer, d \in Data, ms \in Delay : AddEx(c, t, d, ms)
  BY <1>4, <1>10 DEF AddEx, chainVars, checkVars
<1>11. CASE \E c \in Caller, d \in Data : RemoveTimer(c, d)
  BY <1>4, <1>11 DEF RemoveTimer, chainVars, checkVars
<1>12. QED
  BY <1>3, <1>5, <1>6, <1>7, <1>8, <1>9, <1>10, <1>11 DEF Next, Continue

LEMMA WaitStep ==
  ASSUME TypeOK, CheckInv, TriggerInv, WaitInv, Next PROVE WaitInv'
<1> SUFFICES ASSUME ObjectList' # <<>>, ~posted', pc' \in {"arm", "select"}
             PROVE  blocktime' < Forever
  BY DEF WaitInv
<1>1. ObjectList # <<>>
  BY FirstPosts
<1>2. /\ NextTriggerTick \in -1 .. MaxTime /\ now \in 0 .. MaxTime /\ CurrentTick \in 0 .. MaxTime
      /\ blocktime \in 0 .. Forever /\ MaxTime \in Nat /\ Second \in Nat /\ Forever \in Nat
      /\ Forever > MaxTime + Second
  BY LifeTimeAssumption DEF TypeOK
<1>3. ASSUME UNCHANGED <<posted, blocktime>>, pc \in {"arm", "select"} PROVE blocktime' < Forever
  BY <1>1, <1>3 DEF WaitInv
<1>4. CASE SkipCheck(Forever)
  <2>1. blocktime' = NextTriggerTick - now
    BY <1>4 DEF SkipCheck
  <2>2. QED
    BY <1>2, <2>1
<1>5. CASE EndCheck
  <2>1. check = "fire" /\ posted' = posted
    BY <1>5 DEF EndCheck, InCheck
  <2>2. NextTriggerTick # -1
    BY <1>1, <2>1 DEF TriggerInv
  <2>3. LET delta == NextTriggerTick - CurrentTick
        IN blocktime' = IF NextTriggerTick # -1 /\ blocktime > delta
                        THEN IF delta < Second THEN Second ELSE delta
                        ELSE blocktime
    BY <1>5 DEF EndCheck
  <2>4. QED
    BY <1>2, <2>2, <2>3
<1>6. CASE Arm
  BY <1>3, <1>6 DEF Arm, C!Arm, C!Goto
<1>7. CASE ChainThreadStep
  <2>1. ~(BeginCheck(Forever) \/ Scan \/ Fire \/ CallbackReturns)
    BY DEF BeginCheck, Scan, Fire, CallbackReturns, InCheck, chainVars
  <2>2. ~(SelectTimesOut \/ SelectWoken \/ Loop \/ PostSelect \/ Destroy)
    BY DEF SelectTimesOut, SelectWoken, Loop, PostSelect, Destroy, C!SelectReturns, C!SelectWoken,
           C!LoopTest, C!Rearm, C!Reopen, C!PostSelect, C!DestroyChain, C!Goto
  <2>3. QED
    BY <1>4, <1>5, <1>6, <1>7, <2>1, <2>2 DEF ChainThreadStep, Check
<1>8. ~OtherSocket
  BY DEF OtherSocket, C!SelectReturns, C!Goto
<1>9. CASE Tick
  BY <1>3, <1>9 DEF Tick, chainVars, checkVars
<1>10. ASSUME NEW c \in Caller, Continue(c) PROVE blocktime' < Forever
  <2>1. CASE Insert(c)
    BY <1>1, <1>3, <2>1 DEF Insert, checkVars
  <2>2. CASE LowerTrigger(c) \/ ForceUnBlockChain(c)
    BY <1>3, <2>2 DEF LowerTrigger, ForceUnBlockChain, C!ForceUnBlockChain, timerVars, chainVars, checkVars
  <2>3. QED
    BY <1>10, <2>1, <2>2 DEF Continue
<1>11. ASSUME NEW c \in Thread, StopChain(c) PROVE blocktime' < Forever
  BY <1>3, <1>11 DEF StopChain, C!StopChain, timerVars, checkVars
<1>12. CASE \E c \in Caller, t \in Timer, d \in Data, ms \in Delay : AddEx(c, t, d, ms)
  BY <1>3, <1>12 DEF AddEx, chainVars, checkVars
<1>13. CASE \E c \in Caller, d \in Data : RemoveTimer(c, d)
  BY <1>3, <1>13 DEF RemoveTimer, chainVars, checkVars
<1>14. QED
  BY <1>7, <1>8, <1>9, <1>10, <1>11, <1>12, <1>13 DEF Next

(* Where the chain thread is while a request is not seen and no wake-up for   *)
(* it is still to come.                                                       *)
Seen == \/ Terminate = "closed" /\ pc # "reopen"
        \/ pc \in {"reopen", "postsel", "loop", "destroy", "freed"}
        \/ pc = "presel" /\ check \in {"idle", "scan"}

LEMMA PostStep ==
  ASSUME TypeOK, CheckInv, AddInv, PostInv, Next PROVE PostInv'
<1> SUFFICES ASSUME posted', ~FirstAdded' PROVE Seen'
  BY DEF PostInv, Seen
<1>1. /\ op \in [Caller -> {"idle", "insert", "trigger"}] /\ caller \in [Caller -> {"idle", "force"}]
      /\ check \in {"idle", "scan", "fire", "callback"} /\ pc \in C!Location
      /\ Terminate \in {"open", "closed"}
  BY DEF TypeOK, C!TypeOK
<1>2. posted /\ ~FirstAdded => Seen
  BY DEF PostInv, Seen
<1>3. ASSUME UNCHANGED <<posted, op, caller>> PROVE posted /\ ~FirstAdded
  BY <1>3 DEF FirstAdded
<1>4. ASSUME UNCHANGED <<posted, op, caller, pc, Terminate, check>> PROVE Seen'
  BY <1>2, <1>3, <1>4 DEF Seen
<1>5. CASE BeginCheck(Forever)
  BY <1>5 DEF BeginCheck, InCheck, chainVars, Seen
<1>6. CASE Fire \/ CallbackReturns
  <2>1. /\ check \in {"fire", "callback"} /\ pc = "presel" /\ UNCHANGED <<posted, op, caller, pc, Terminate>>
    BY <1>6 DEF Fire, CallbackReturns, InCheck, chainVars, opVars
  <2>2. Terminate = "closed"
    BY <1>2, <1>3, <2>1 DEF Seen
  <2>3. QED
    BY <2>1, <2>2 DEF Seen
<1>7. CASE EndCheck
  <2>1. check = "fire" /\ pc = "presel" /\ pc' = "arm" /\ UNCHANGED <<posted, op, caller, Terminate>>
    BY <1>7 DEF EndCheck, InCheck, opVars
  <2>2. Terminate = "closed"
    BY <1>2, <1>3, <2>1 DEF Seen
  <2>3. QED
    BY <2>1, <2>2 DEF Seen
<1>8. CASE Arm
  <2>1. pc = "arm" /\ pc' = "select" /\ UNCHANGED <<posted, op, caller, Terminate>>
    BY <1>8 DEF Arm, C!Arm, C!Goto, opVars
  <2>2. Terminate = "closed"
    BY <1>2, <1>3, <2>1 DEF Seen
  <2>3. QED
    BY <2>1, <2>2 DEF Seen
<1>9. CASE SelectTimesOut \/ SelectWoken \/ OtherSocket
  <2>1. pc = "select" /\ pc' = "rearm" /\ UNCHANGED <<posted, op, caller, Terminate>>
    BY <1>9 DEF SelectTimesOut, SelectWoken, OtherSocket, SelectEnds, C!SelectReturns, C!SelectWoken,
                C!Goto, opVars
  <2>2. Terminate = "closed"
    BY <1>2, <1>3, <2>1 DEF Seen
  <2>3. QED
    BY <2>1, <2>2 DEF Seen
<1>10. CASE Loop
  <2>1. UNCHANGED <<posted, op, caller, check>>
    BY <1>10 DEF Loop, C!LoopTest, C!Rearm, C!Reopen, timerVars, checkVars, opVars
  <2>2. CASE C!LoopTest
    <3>1. pc = "loop" /\ pc' \in {"destroy", "presel"} /\ check' = check
      BY <2>1, <2>2 DEF C!LoopTest, C!Goto
    <3>2. check = "idle"
      BY <3>1 DEF CheckInv
    <3>3. QED
      BY <3>1, <3>2 DEF Seen
  <2>3. CASE C!Rearm
    BY <1>1, <1>2, <1>3, <2>1, <2>3 DEF C!Rearm, C!Goto, Seen
  <2>4. CASE C!Reopen
    BY <2>4 DEF C!Reopen, C!Goto, Seen
  <2>5. QED
    BY <1>10, <2>2, <2>3, <2>4 DEF Loop
<1>11. CASE PostSelect
  BY <1>11 DEF PostSelect, C!PostSelect, C!Goto, Seen
<1>12. CASE Destroy
  BY <1>12 DEF Destroy, C!DestroyChain, C!Goto, Seen
<1>13. CASE Tick
  BY <1>4, <1>13 DEF Tick, chainVars, checkVars, opVars
<1>14. ASSUME NEW c \in Caller, Insert(c) PROVE Seen'
  <2>1. op' = [op EXCEPT ![c] = "trigger"] /\ op[c] = "insert" /\ UNCHANGED <<pc, Terminate, check>>
    BY <1>14 DEF Insert, checkVars
  <2>2. CASE ObjectList = <<>>
    <3>1. caller' = [caller EXCEPT ![c] = "force"]
      BY <1>14, <2>2 DEF Insert
    <3>2. op'[c] = "trigger" /\ caller'[c] = "force"
      BY <1>1, <2>1, <3>1
    <3>3. QED
      BY <3>2 DEF FirstAdded
  <2>3. CASE ObjectList # <<>>
    <3>1. UNCHANGED <<caller, posted>>
      BY <1>14, <2>3 DEF Insert
    <3>2. \A o \in Caller : op[o] = "trigger" => op'[o] = "trigger"
      BY <1>1, <2>1
    <3>3. posted /\ ~FirstAdded
      BY <3>1, <3>2 DEF FirstAdded
    <3>4. QED
      BY <1>2, <2>1, <3>3 DEF Seen
  <2>4. QED
    BY <2>2, <2>3
<1>15. ASSUME NEW c \in Caller, LowerTrigger(c) PROVE Seen'
  <2>1. /\ caller[c] = "idle" /\ op' = [op EXCEPT ![c] = "idle"]
        /\ UNCHANGED <<posted, caller, pc, Terminate, check>>
    BY <1>15 DEF LowerTrigger, chainVars, checkVars
  <2>2. \A o \in Caller : op[o] = "trigger" /\ caller[o] = "force" => op'[o] = "trigger"
    BY <1>1, <2>1
  <2>3. posted /\ ~FirstAdded
    BY <2>1, <2>2 DEF FirstAdded
  <2>4. QED
    BY <1>2, <2>1, <2>3 DEF Seen
<1>16. ASSUME NEW c \in Caller, ForceUnBlockChain(c) PROVE Seen'
  BY <1>16 DEF ForceUnBlockChain, C!ForceUnBlockChain, Seen
<1>17. ASSUME NEW c \in Thread, StopChain(c) PROVE Seen'
  <2>1. /\ op[c] = "idle" /\ c \in Caller /\ caller' = [caller EXCEPT ![c] = "force"]
        /\ UNCHANGED <<posted, op, pc, Terminate, check>>
    BY <1>17 DEF StopChain, C!StopChain, timerVars, checkVars, opVars, Caller
  <2>2. \A o \in Caller : op[o] = "trigger" /\ caller[o] = "force" => caller'[o] = "force"
    BY <1>1, <2>1
  <2>3. posted /\ ~FirstAdded
    BY <2>1, <2>2 DEF FirstAdded
  <2>4. QED
    BY <1>2, <2>1, <2>3 DEF Seen
<1>18. ASSUME NEW c \in Caller, NEW t \in Timer, NEW d \in Data, NEW ms \in Delay, AddEx(c, t, d, ms)
       PROVE  Seen'
  <2>1. /\ op[c] = "idle" /\ op' = [op EXCEPT ![c] = "insert"]
        /\ UNCHANGED <<posted, caller, pc, Terminate, check>>
    BY <1>18 DEF AddEx, MayCall, chainVars, checkVars
  <2>2. \A o \in Caller : op[o] = "trigger" => op'[o] = "trigger"
    BY <1>1, <2>1
  <2>3. posted /\ ~FirstAdded
    BY <2>1, <2>2 DEF FirstAdded
  <2>4. QED
    BY <1>2, <2>1, <2>3 DEF Seen
<1>19. CASE \E c \in Caller, d \in Data : RemoveTimer(c, d)
  BY <1>4, <1>19 DEF RemoveTimer, chainVars, checkVars, opVars
<1>20. ~(Scan \/ SkipCheck(Forever))
  BY DEF Scan, SkipCheck
<1>21. QED
  BY <1>5, <1>6, <1>7, <1>8, <1>9, <1>10, <1>11, <1>12, <1>13, <1>14, <1>15, <1>16, <1>17, <1>18, <1>19, <1>20
  DEF Next, ChainThreadStep, Continue, Check

-----------------------------------------------------------------------------
(* The theorems. *)

LEMMA LInvIsInit ==
  ASSUME Init PROVE LInv
<1>1. /\ 0 \in 0 .. MaxTime /\ Forever \in 0 .. Forever /\ 0 \in 0 .. Forever + MaxTime
      /\ 0 \in -1 .. MaxTime
  BY LifeTimeAssumption
<1>2. C!TypeOK
  BY DEF Init, C!Init, C!TypeOK, C!Location
<1>3. NoNode \in [ExpirationTick : 0 .. MaxTime, data : Data \cup {None}]
  BY <1>1 DEF NoNode
<1>4. <<>> \in Seq(Timer)
  OBVIOUS
<1>5. TypeOK
  BY <1>1, <1>2, <1>3, <1>4 DEF Init, TypeOK
<1>6. Queues
  BY EmptyList DEF Init, Queues, QueueInv
<1>7. AddInv
  BY DEF Init, AddInv
<1>8. CheckInv
  <2>1. check = "idle" /\ EventQueue = <<>> /\ CurrentTick = 0 /\ now = 0 /\ ToSet(EventQueue) = {}
    BY EmptyList DEF Init
  <2>2. QED
    BY <2>1 DEF CheckInv
<1>9. SleepInv
  BY DEF Init, C!Init, SleepInv, TriggerInv, WaitInv, PostInv
<1>10. QED
  BY <1>5, <1>6, <1>7, <1>8, <1>9, InOrderIsSorted DEF LInv, Queues

LEMMA LInvKept ==
  ASSUME LInv, [Next]_vars PROVE LInv'
<1>1. CASE Next
  <2>1. TypeOK /\ InOrder /\ AddInv /\ CheckInv /\ TriggerInv /\ WaitInv /\ PostInv /\ Queues
    BY InOrderIsSorted DEF LInv, SleepInv, Queues
  <2>2. TypeOK'
    BY <1>1, <2>1, TypeStep
  <2>3. Queues'
    BY <1>1, <2>1, QueueStep
  <2>4. InOrder'
    BY <2>3 DEF InOrder, Sorted, SortedBy, Exp, Queues
  <2>5. AddInv' /\ CheckInv'
    BY <1>1, <2>1, AddStep, CheckStep
  <2>6. SleepInv'
    BY <1>1, <2>1, <2>2, TriggerStep, WaitStep, PostStep DEF SleepInv
  <2>7. QED
    BY <2>2, <2>3, <2>4, <2>5, <2>6 DEF LInv, Queues
<1>2. CASE UNCHANGED vars
  <2>1. /\ UNCHANGED <<pc, TerminateFlag, Terminate, watched, caller, posted>>
        /\ UNCHANGED <<check, EventQueue, CurrentTick, blocktime, deadline, now>>
        /\ UNCHANGED <<ObjectList, Reserved, NextTriggerTick, node, adding, op, outcome>>
    BY <1>2 DEF vars, chainVars, checkVars, listVars, opVars, history
  <2>2. TypeOK'
    BY <2>1 DEF LInv, TypeOK, C!TypeOK
  <2>3. QueueInv' /\ InOrder' /\ AddInv' /\ CheckInv' /\ SleepInv'
    BY <2>1 DEF LInv, QueueInv, InOrder, Sorted, Exp, AddInv, CheckInv, SleepInv, TriggerInv, WaitInv,
                PostInv, FirstAdded
  <2>4. QED
    BY <2>2, <2>3 DEF LInv
<1>3. QED
  BY <1>1, <1>2

(* The strengthening holds throughout.                                        *)
THEOREM LInductive == SafeSpec => []LInv
<1>1. Init => LInv
  BY LInvIsInit
<1>2. LInv /\ [Next]_vars => LInv'
  BY LInvKept
<1>3. QED
  BY <1>1, <1>2, PTL DEF SafeSpec

(* Every variable of the timers keeps its type: NextTriggerTick is -1 or a    *)
(* time there is, and the wait of a select is never negative nor longer than  *)
(* UPNP_MAX_WAIT.                                                             *)
THEOREM TypeCorrect == SafeSpec => []TypeOK
<1>1. LInv => TypeOK
  BY DEF LInv
<1>2. QED
  BY <1>1, LInductive, PTL

(* The timers stay sorted by their expiration, whatever calls come between    *)
(* the steps of a Check.                                                      *)
THEOREM ListInOrder == SafeSpec => []InOrder
<1>1. LInv => InOrder
  BY DEF LInv
<1>2. QED
  BY <1>1, LInductive, PTL

(* A timer of disjoint queues without repetition is at one place.            *)
LEMMA OneHomeOf ==
  ASSUME TypeOK, QueueInv PROVE OneHome
<1> DEFINE q == ObjectList \o EventQueue
           m == Len(ObjectList)
           n == Len(EventQueue)
<1>1. /\ ObjectList \in Seq(Timer) /\ EventQueue \in Seq(Timer) /\ m \in Nat /\ n \in Nat
      /\ DOMAIN ObjectList = 1 .. m /\ DOMAIN EventQueue = 1 .. n
  BY LenProperties DEF TypeOK
<1>2. /\ q \in Seq(Timer) /\ Len(q) = m + n
      /\ \A i \in 1 .. m + n : q[i] = IF i <= m THEN ObjectList[i] ELSE EventQueue[i - m]
  BY <1>1, Joined
<1>3. DOMAIN q = 1 .. m + n
  BY <1>2, LenProperties
<1> HIDE DEF q, m, n
<1>4. /\ \A i \in 1 .. m : ObjectList[i] \in ToSet(ObjectList)
      /\ \A i \in 1 .. n : EventQueue[i] \in ToSet(EventQueue)
  BY <1>1 DEF ToSet
<1>5. ASSUME NEW i \in DOMAIN q
      PROVE  \/ i \in 1 .. m /\ q[i] = ObjectList[i]
             \/ i > m /\ i - m \in 1 .. n /\ q[i] = EventQueue[i - m]
  BY <1>1, <1>2, <1>3
<1>6. ASSUME NEW i \in DOMAIN q, NEW j \in DOMAIN q, q[i] = q[j] PROVE i = j
  <2>1. i \in Int /\ j \in Int /\ m \in Int
    BY <1>1, <1>3
  <2>2. ToSet(ObjectList) \cap ToSet(EventQueue) = {}
    BY DEF QueueInv
  <2>3. /\ \A a, b \in 1 .. m : ObjectList[a] = ObjectList[b] => a = b
        /\ \A a, b \in 1 .. n : EventQueue[a] = EventQueue[b] => a = b
    BY <1>1 DEF QueueInv, IsInjective
  <2>4. CASE i \in 1 .. m /\ q[i] = ObjectList[i]
    <3>1. j \in 1 .. m /\ q[j] = ObjectList[j]
      BY <1>4, <1>5, <1>6, <2>2, <2>4
    <3>2. QED
      BY <1>6, <2>3, <2>4, <3>1
  <2>5. CASE i > m /\ i - m \in 1 .. n /\ q[i] = EventQueue[i - m]
    <3>1. j > m /\ j - m \in 1 .. n /\ q[j] = EventQueue[j - m]
      BY <1>4, <1>5, <1>6, <2>2, <2>5
    <3>2. i - m = j - m
      BY <1>6, <2>3, <2>5, <3>1
    <3>3. QED
      BY <2>1, <3>2
  <2>6. QED
    BY <1>5, <2>4, <2>5
<1>7. IsInjective(q)
  BY <1>6 DEF IsInjective
<1>8. ASSUME NEW t \in ToSet(q) PROVE t \in ToSet(ObjectList) \cup ToSet(EventQueue)
  <2>1. PICK i \in DOMAIN q : t = q[i]
    BY DEF ToSet
  <2>2. QED
    BY <1>4, <1>5, <2>1
<1>9. ASSUME NEW t \in ToSet(ObjectList) PROVE t \in ToSet(q)
  <2>1. PICK i \in 1 .. m : t = ObjectList[i]
    BY <1>1 DEF ToSet
  <2>2. i \in DOMAIN q /\ q[i] = t
    BY <1>1, <1>2, <1>3, <2>1
  <2>3. QED
    BY <2>2 DEF ToSet
<1>10. ASSUME NEW t \in ToSet(EventQueue) PROVE t \in ToSet(q)
  <2>1. PICK i \in 1 .. n : t = EventQueue[i]
    BY <1>1 DEF ToSet
  <2>2. PICK j \in 1 .. m + n : ~(j <= m) /\ j - m = i
    <3> DEFINE k == i + m
    <3>1. k \in 1 .. m + n /\ ~(k <= m) /\ k - m = i
      BY <1>1
    <3> HIDE DEF k
    <3>2. QED
      BY <3>1
  <2>3. j \in DOMAIN q /\ q[j] = t
    BY <1>2, <1>3, <2>1, <2>2
  <2>4. QED
    BY <2>3 DEF ToSet
<1>11. {t \in Timer : outcome[t] = "pending"} = ToSet(q)
  <2>1. ToSet(q) = ToSet(ObjectList) \cup ToSet(EventQueue)
    BY <1>8, <1>9, <1>10
  <2>2. ToSet(q) \subseteq Timer
    BY <2>1, QueuedTimers
  <2>3. QED
    BY <2>1, <2>2 DEF QueueInv
<1>12. QED
  BY <1>7, <1>11 DEF OneHome, q

(* A timer that was added and is not done is in one place of one queue: no    *)
(* call between the steps of a Check loses it, frees it twice or fires it     *)
(* twice.                                                                     *)
THEOREM TimersAtHome == SafeSpec => []OneHome
<1>1. LInv => OneHome
  BY OneHomeOf DEF LInv
<1>2. QED
  BY <1>1, LInductive, PTL

(* The chain thread never sleeps without a time limit on a list with a timer  *)
(* in it, although NextTriggerTick is read and written outside of the lock.   *)
THEOREM SleepLimited == SafeSpec => []SleepEnds
<1>1. LInv => SleepEnds
  <2> SUFFICES ASSUME LInv, Blocked, ObjectList # <<>>, NoAddInProgress PROVE blocktime < Forever
    BY DEF SleepEnds
  <2>1. pc = "select" /\ Terminate = "open"
    BY DEF Blocked
  <2>2. ~FirstAdded
    BY DEF NoAddInProgress, FirstAdded
  <2>3. ~posted
    BY <2>1, <2>2 DEF LInv, SleepInv, PostInv
  <2>4. QED
    BY <2>1, <2>3 DEF LInv, SleepInv, WaitInv
<1>2. QED
  BY <1>1, LInductive, PTL

(* Only Fire fires a timer, the first of those taken out.                    *)
LEMMA FiredByFire ==
  ASSUME TypeOK, AddInv, Next, NEW t \in Timer, outcome[t] = "pending", outcome'[t] = "fired"
  PROVE  Fire /\ t = Head(EventQueue)
<1>1. CASE Fire
  <2>1. \E end \in {"fired", "destroyed"} : Done({Head(EventQueue)}, end)
    BY <1>1 DEF Fire
  <2>2. t = Head(EventQueue)
    BY <2>1, DoneType
  <2>3. QED
    BY <1>1, <2>2
<1>2. outcome' # outcome
  OBVIOUS
<1>3. \A ts : ~Done(ts, "destroyed")
  BY DoneType
<1>4. ASSUME NEW c \in Caller, Insert(c) PROVE FALSE
  BY <1>4 DEF Insert, TypeOK
<1>5. CASE ChainThreadStep
  <2>1. Check(Forever) \/ Scan \/ CallbackReturns \/ EndCheck \/ Arm \/ SelectTimesOut \/ SelectWoken
        \/ Loop \/ PostSelect => UNCHANGED outcome
    BY DEF Check, SkipCheck, BeginCheck, Scan, CallbackReturns, EndCheck, Arm, SelectTimesOut,
           SelectWoken, SelectEnds, Loop, PostSelect, timerVars, history
  <2>2. ~Destroy
    BY <1>3 DEF Destroy
  <2>3. QED
    BY <1>1, <1>2, <1>5, <2>1, <2>2 DEF ChainThreadStep
<1>6. OtherSocket \/ Tick => UNCHANGED outcome
  BY DEF OtherSocket, SelectEnds, Tick, history
<1>7. \A c \in Caller : LowerTrigger(c) \/ ForceUnBlockChain(c) => UNCHANGED outcome
  BY DEF LowerTrigger, ForceUnBlockChain, timerVars, history
<1>8. \A c \in Thread : StopChain(c) => UNCHANGED outcome
  BY DEF StopChain, timerVars, history
<1>9. \A c \in Caller, u \in Timer, d \in Data, ms \in Delay : AddEx(c, u, d, ms) => UNCHANGED outcome
  BY DEF AddEx, history
<1>10. \A c \in Caller, d \in Data : ~RemoveTimer(c, d)
  BY <1>3 DEF RemoveTimer
<1>11. QED
  BY <1>2, <1>4, <1>5, <1>6, <1>7, <1>8, <1>9, <1>10 DEF Next, Continue

(* No timer fires before its time: what is in EventQueue was overdue when its *)
(* Check began, and a callback that adds a timer in between adds it to the     *)
(* list only.                                                                 *)
THEOREM FiresInTime == SafeSpec => NotEarly
<1> DEFINE A == \A t \in Timer : outcome[t] = "pending" /\ outcome'[t] = "fired" => Exp(t) < now
<1>1. LInv /\ [Next]_vars => [A]_vars
  <2> SUFFICES ASSUME LInv, Next, NEW t \in Timer, outcome[t] = "pending", outcome'[t] = "fired"
               PROVE  Exp(t) < now
    OBVIOUS
  <2>1. TypeOK /\ AddInv /\ CheckInv /\ QueueInv /\ InOrder
    BY DEF LInv
  <2>2. Fire /\ t = Head(EventQueue)
    BY <2>1, FiredByFire
  <2>3. t \in ToSet(EventQueue)
    <3>1. EventQueue # <<>> /\ EventQueue \in Seq(Timer) /\ IsInjective(EventQueue) /\ SortedBy(EventQueue, node)
      BY <2>1, <2>2, InOrderIsSorted DEF Fire, TypeOK, QueueInv
    <3>2. QED
      BY <2>2, <3>1, TailOf
  <2>4. Exp(t) < CurrentTick /\ CurrentTick <= now
    BY <2>1, <2>3 DEF CheckInv
  <2>5. Exp(t) \in Int /\ CurrentTick \in Int /\ now \in Int
    BY <2>1, ExpType, LifeTimeAssumption DEF TypeOK
  <2>6. QED
    BY <2>4, <2>5
<1>2. QED
  BY <1>1, LInductive, PTL DEF SafeSpec, NotEarly

-----------------------------------------------------------------------------
(* The timers follow the protocol of the chain. *)

(* Where the chain thread is for the chain.                                   *)
At == IF check \in {"fire", "callback"} THEN "arm" ELSE pc

LEMMA ChnInit ==
  ASSUME Init PROVE Chn!Init
BY DEF Init, C!Init, Chn!Init

(* A step of the timers is one of the chain, or none.                        *)
LEMMA ChnStep ==
  ASSUME LInv, Next PROVE Chn!Next \/ UNCHANGED Chn!vars
<1>1. /\ check \in {"idle", "scan", "fire", "callback"} /\ (check # "idle" => pc = "presel")
      /\ caller \in [Caller -> {"idle", "force"}]
  BY DEF LInv, TypeOK, C!TypeOK, CheckInv
<1>2. ASSUME UNCHANGED <<TerminateFlag, Terminate, watched, caller, posted>>, At' = At
      PROVE  UNCHANGED Chn!vars
  BY <1>2 DEF Chn!vars, At
<1>3. CASE SkipCheck(Forever)
  <2>1. Chn!PreSelect
    BY <1>3 DEF SkipCheck, InCheck, Chn!PreSelect, Chn!Goto
  <2>2. QED
    BY <2>1 DEF Chn!Next, Chn!ChainThread
<1>4. CASE Scan
  <2>1. Chn!PreSelect
    BY <1>4 DEF Scan, InCheck, Chn!PreSelect, Chn!Goto
  <2>2. QED
    BY <2>1 DEF Chn!Next, Chn!ChainThread
<1>5. CASE BeginCheck(Forever) \/ Fire \/ CallbackReturns \/ EndCheck
  <2>1. UNCHANGED <<TerminateFlag, Terminate, watched, caller, posted>>
    BY <1>5 DEF BeginCheck, Fire, CallbackReturns, EndCheck, chainVars
  <2>2. At' = At
    BY <1>5 DEF BeginCheck, Fire, CallbackReturns, EndCheck, InCheck, chainVars, At
  <2>3. QED
    BY <1>2, <2>1, <2>2
<1>6. CASE Arm
  <2>1. check = "idle" /\ check' = "idle" /\ C!Arm
    BY <1>1, <1>6 DEF Arm, C!Arm, C!Goto
  <2>2. Chn!Arm
    BY <2>1 DEF C!Arm, C!Goto, Chn!Arm, Chn!Goto
  <2>3. QED
    BY <2>2 DEF Chn!Next, Chn!ChainThread
<1>7. CASE SelectTimesOut \/ OtherSocket
  <2>1. check = "idle" /\ check' = "idle" /\ C!SelectReturns
    BY <1>1, <1>7 DEF SelectTimesOut, OtherSocket, SelectEnds, C!SelectReturns, C!Goto
  <2>2. Chn!SelectReturns
    BY <2>1 DEF C!SelectReturns, C!Goto, Chn!SelectReturns, Chn!Goto
  <2>3. QED
    BY <2>2 DEF Chn!Next
<1>8. CASE SelectWoken
  <2>1. check = "idle" /\ check' = "idle" /\ C!SelectWoken
    BY <1>1, <1>8 DEF SelectWoken, SelectEnds, C!SelectWoken, C!Goto
  <2>2. Chn!SelectWoken
    BY <2>1 DEF C!SelectWoken, C!Goto, Chn!SelectWoken, Chn!Goto
  <2>3. QED
    BY <2>2 DEF Chn!Next, Chn!ChainThread
<1>9. CASE Loop
  <2>1. check = "idle" /\ check' = "idle" /\ (C!LoopTest \/ C!Rearm \/ C!Reopen)
    BY <1>1, <1>9 DEF Loop, C!LoopTest, C!Rearm, C!Reopen, C!Goto, timerVars, checkVars
  <2>2. Chn!LoopTest \/ Chn!Rearm \/ Chn!Reopen
    BY <2>1 DEF C!LoopTest, C!Rearm, C!Reopen, C!Goto, Chn!LoopTest, Chn!Rearm, Chn!Reopen, Chn!Goto
  <2>3. QED
    BY <2>2 DEF Chn!Next, Chn!ChainThread
<1>10. CASE PostSelect
  <2>1. check = "idle" /\ check' = "idle" /\ C!PostSelect
    BY <1>1, <1>10 DEF PostSelect, C!PostSelect, C!Goto, timerVars, checkVars
  <2>2. Chn!PostSelect
    BY <2>1 DEF C!PostSelect, C!Goto, Chn!PostSelect, Chn!Goto
  <2>3. QED
    BY <2>2 DEF Chn!Next, Chn!ChainThread
<1>11. CASE Destroy
  <2>1. check = "idle" /\ check' = "idle" /\ C!DestroyChain
    BY <1>1, <1>11 DEF Destroy, C!DestroyChain, C!Goto, checkVars
  <2>2. Chn!DestroyChain
    BY <2>1 DEF C!DestroyChain, C!Goto, Chn!DestroyChain, Chn!Goto
  <2>3. QED
    BY <2>2 DEF Chn!Next, Chn!ChainThread
<1>12. CASE Tick
  <2>1. UNCHANGED <<TerminateFlag, Terminate, watched, caller, posted>> /\ At' = At
    BY <1>12 DEF Tick, chainVars, checkVars, At
  <2>2. QED
    BY <1>2, <2>1
<1>13. ASSUME NEW c \in Caller, Insert(c) PROVE Chn!Next \/ UNCHANGED Chn!vars
  <2>1. /\ UNCHANGED <<pc, check, TerminateFlag, Terminate, watched>> /\ op[c] = "insert" /\ pc # "freed"
    BY <1>13 DEF Insert, checkVars
  <2>2. CASE ObjectList = <<>>
    <3>1. /\ caller[c] = "idle" /\ caller' = [caller EXCEPT ![c] = "force"] /\ posted' = TRUE
      BY <1>13, <2>1, <2>2 DEF Insert, LInv, AddInv
    <3>2. Chn!Post(c)
      BY <2>1, <3>1 DEF Chn!Post
    <3>3. QED
      BY <3>2 DEF Chn!Next
  <2>3. CASE ObjectList # <<>>
    <3>1. UNCHANGED <<caller, posted>>
      BY <1>13, <2>3 DEF Insert
    <3>2. At' = At
      BY <2>1 DEF At
    <3>3. QED
      BY <1>2, <2>1, <3>1, <3>2
  <2>4. QED
    BY <2>2, <2>3
<1>14. ASSUME NEW c \in Caller, ForceUnBlockChain(c) PROVE Chn!Next
  <2>1. C!ForceUnBlockChain(c) /\ check' = check
    BY <1>14 DEF ForceUnBlockChain, timerVars, checkVars
  <2>2. Chn!ForceUnBlockChain(c)
    BY <2>1 DEF C!ForceUnBlockChain, Chn!ForceUnBlockChain
  <2>3. QED
    BY <2>2 DEF Chn!Next
<1>15. ASSUME NEW c \in Thread, StopChain(c) PROVE Chn!Next
  <2>1. C!StopChain(c) /\ check' = check /\ c \in Caller
    BY <1>15 DEF StopChain, timerVars, checkVars, Caller
  <2>2. Chn!StopChain(c)
    BY <2>1 DEF C!StopChain, Chn!StopChain
  <2>3. QED
    BY <2>1, <2>2 DEF Chn!Next
<1>16. ASSUME NEW c \in Caller, LowerTrigger(c) PROVE UNCHANGED Chn!vars
  BY <1>2, <1>16 DEF LowerTrigger, chainVars, checkVars, At
<1>17. CASE \E c \in Caller, t \in Timer, d \in Data, ms \in Delay : AddEx(c, t, d, ms)
  BY <1>2, <1>17 DEF AddEx, chainVars, checkVars, At
<1>18. CASE \E c \in Caller, d \in Data : RemoveTimer(c, d)
  BY <1>2, <1>18 DEF RemoveTimer, chainVars, checkVars, At
<1>19. QED
  BY <1>3, <1>4, <1>5, <1>6, <1>7, <1>8, <1>9, <1>10, <1>11, <1>12, <1>13, <1>14, <1>15, <1>16, <1>17, <1>18
  DEF Next, ChainThreadStep, Continue, Check

(* To the chain a Check is one PreSelect and the first timer of an empty list *)
(* one request: whatever holds of Chain, that no wake-up is lost among it,    *)
(* holds of the chain the timers are a link of.                               *)
THEOREM TimersImplementChain == SafeSpec => ImplementsChain
<1>1. Init => Chn!Init
  BY ChnInit
<1>2. LInv /\ [Next]_vars => [Chn!Next]_(Chn!vars)
  <2>1. UNCHANGED vars => UNCHANGED Chn!vars
    BY DEF vars, chainVars, checkVars, Chn!vars
  <2>2. QED
    BY <2>1, ChnStep
<1>3. QED
  BY <1>1, <1>2, LInductive, PTL DEF SafeSpec, ImplementsChain, Chn!SafeSpec
-----------------------------------------------------------------------------
(* The wake-up of the chain. *)

(* The invariant that every step of Chain preserves, for any threads: where   *)
(* the chain thread can be while something is outstanding and no thread is    *)
(* about to wake it (code: ILibStartChain, ILibForceUnBlockChain and          *)
(* ILibStopChain).                                                          *)
THEOREM ChainInductive == C!SafeSpec => []C!IInv
<1>1. C!Init => C!IInv
  BY DEF C!Init, C!IInv, C!TypeOK, C!PostedInv, C!StopInv, C!ReopenInv, C!FreedOnlyByStop,
         C!WakeUpComing, C!Location
<1>2. C!IInv /\ [C!Next]_(C!vars) => C!IInv'
  <2> SUFFICES ASSUME C!IInv, [C!Next]_(C!vars) PROVE C!IInv'
    OBVIOUS
  <2> USE DEF C!IInv, C!TypeOK, C!PostedInv, C!StopInv, C!ReopenInv, C!FreedOnlyByStop,
              C!WakeUpComing, C!Goto, C!Location
  <2>1. CASE C!LoopTest
    BY <2>1 DEF C!LoopTest
  <2>2. CASE C!PreSelect
    BY <2>2 DEF C!PreSelect
  <2>3. CASE C!Arm
    BY <2>3 DEF C!Arm
  <2>4. CASE C!SelectWoken
    BY <2>4 DEF C!SelectWoken
  <2>5. CASE C!SelectReturns
    BY <2>5 DEF C!SelectReturns
  <2>6. CASE C!Rearm
    BY <2>6 DEF C!Rearm
  <2>7. CASE C!Reopen
    BY <2>7 DEF C!Reopen
  <2>8. CASE C!PostSelect
    BY <2>8 DEF C!PostSelect
  <2>9. CASE C!DestroyChain
    BY <2>9 DEF C!DestroyChain
  <2>10. ASSUME NEW t \in Caller, C!Post(t) PROVE C!IInv'
    BY <2>10 DEF C!Post
  <2>11. ASSUME NEW t \in Caller, C!StopChain(t) PROVE C!IInv'
    BY <2>11 DEF C!StopChain
  <2>12. ASSUME NEW t \in Caller, C!ForceUnBlockChain(t) PROVE C!IInv'
    BY <2>12 DEF C!ForceUnBlockChain
  <2>13. CASE UNCHANGED C!vars
    BY <2>13 DEF C!vars
  <2>14. QED
    BY <2>1, <2>2, <2>3, <2>4, <2>5, <2>6, <2>7, <2>8, <2>9, <2>10, <2>11, <2>12, <2>13
       DEF C!Next, C!ChainThread
<1>3. QED
  BY <1>1, <1>2, PTL DEF C!SafeSpec

(* No wake-up is lost: a chain thread blocked in select with something        *)
(* outstanding will still be woken by a thread in ILibForceUnBlockChain.      *)
THEOREM WakeUpsKept == C!SafeSpec => []NoLostWakeUp
<1>1. C!IInv => NoLostWakeUp
  BY DEF C!IInv, C!TypeOK, C!PostedInv, C!StopInv, C!WakeUpComing, NoLostWakeUp, Blocked, WakeUpComing
<1>2. QED
  BY <1>1, ChainInductive, PTL

(* The same with a Check in the place of the PreSelect.                       *)
LEMMA ChnInductive == Chn!SafeSpec => []Chn!IInv
<1>1. Chn!Init => Chn!IInv
  BY DEF Chn!Init, Chn!IInv, Chn!TypeOK, Chn!PostedInv, Chn!StopInv, Chn!ReopenInv,
         Chn!FreedOnlyByStop, Chn!WakeUpComing, Chn!Location
<1>2. Chn!IInv /\ [Chn!Next]_(Chn!vars) => Chn!IInv'
  <2> SUFFICES ASSUME Chn!IInv, [Chn!Next]_(Chn!vars) PROVE Chn!IInv'
    OBVIOUS
  <2> USE DEF Chn!IInv, Chn!TypeOK, Chn!PostedInv, Chn!StopInv, Chn!ReopenInv, Chn!FreedOnlyByStop,
              Chn!WakeUpComing, Chn!Goto, Chn!Location
  <2>1. CASE Chn!LoopTest
    BY <2>1 DEF Chn!LoopTest
  <2>2. CASE Chn!PreSelect
    BY <2>2 DEF Chn!PreSelect
  <2>3. CASE Chn!Arm
    BY <2>3 DEF Chn!Arm
  <2>4. CASE Chn!SelectWoken
    BY <2>4 DEF Chn!SelectWoken
  <2>5. CASE Chn!SelectReturns
    BY <2>5 DEF Chn!SelectReturns
  <2>6. CASE Chn!Rearm
    BY <2>6 DEF Chn!Rearm
  <2>7. CASE Chn!Reopen
    BY <2>7 DEF Chn!Reopen
  <2>8. CASE Chn!PostSelect
    BY <2>8 DEF Chn!PostSelect
  <2>9. CASE Chn!DestroyChain
    BY <2>9 DEF Chn!DestroyChain
  <2>10. ASSUME NEW t \in Caller, Chn!Post(t) PROVE Chn!IInv'
    BY <2>10 DEF Chn!Post
  <2>11. ASSUME NEW t \in Caller, Chn!StopChain(t) PROVE Chn!IInv'
    BY <2>11 DEF Chn!StopChain
  <2>12. ASSUME NEW t \in Caller, Chn!ForceUnBlockChain(t) PROVE Chn!IInv'
    BY <2>12 DEF Chn!ForceUnBlockChain
  <2>13. CASE UNCHANGED Chn!vars
    BY <2>13 DEF Chn!vars
  <2>14. QED
    BY <2>1, <2>2, <2>3, <2>4, <2>5, <2>6, <2>7, <2>8, <2>9, <2>10, <2>11, <2>12, <2>13
       DEF Chn!Next, Chn!ChainThread
<1>3. QED
  BY <1>1, <1>2, PTL DEF Chn!SafeSpec

(* The timers lose no wake-up of the chain either: it is never blocked with   *)
(* a first timer or the wish to stop outstanding and no thread about to wake  *)
(* it, although a Check takes many steps and its callbacks add timers (code:  *)
(* ILibLifeTime_AddEx and ILibLifeTime_Check).                               *)
THEOREM TimersWake == SafeSpec => []NoLostWakeUp
<1>1. LInv /\ Chn!IInv => NoLostWakeUp
  <2> SUFFICES ASSUME LInv, Chn!IInv, Blocked, posted \/ TerminateFlag PROVE WakeUpComing
    BY DEF NoLostWakeUp
  <2>1. check = "idle"
    BY DEF LInv, CheckInv, Blocked
  <2>2. caller \in [Caller -> {"idle", "force"}]
    BY DEF Chn!IInv, Chn!TypeOK
  <2>3. QED
    BY <2>1, <2>2 DEF Chn!IInv, Chn!PostedInv, Chn!StopInv, Chn!WakeUpComing, Blocked, WakeUpComing
<1>2. QED
  BY <1>1, LInductive, TimersImplementChain, ChnInductive, PTL DEF ImplementsChain
=============================================================================

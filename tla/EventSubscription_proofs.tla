----------------------- MODULE EventSubscription_proofs -----------------------
(***************************************************************************)
(* The references to a subscriber and what it is sent, for any services,    *)
(* subscriptions, timeouts, limits and numbers of changes.                  *)
(***************************************************************************)
EXTENDS EventSubscription, FiniteSetTheorems, TLAPS

USE SubscriptionAssumption DEF SubscriptionAssumption, dropped

(* A record keeps its type when it is released or notified. *)
LEMMA InfoType ==
  ASSUME NEW r \in Info
  PROVE  /\ Release(r) \in Info
         /\ NotifiedInfo(r) \in Info
         /\ \A v \in Nat : NotificationOf(r, v) \in Notification
         /\ \A m \in Memory : [r EXCEPT !.memory = m] \in Info
         /\ \A t \in Nat : [r EXCEPT !.RenewByTime = t] \in Info
         /\ [r EXCEPT !.RefCount = @ - 1, !.Disposing = TRUE] \in Info
<1>1. /\ r.memory \in Memory /\ r.SEQ \in Nat /\ r.RefCount \in Int
      /\ r.Disposing \in BOOLEAN /\ r.RenewByTime \in Nat
  BY DEF Info
<1>2. /\ r.RefCount - 1 \in Int /\ r.RefCount + 1 \in Int /\ r.SEQ + 1 \in Nat
      /\ "freed" \in Memory
  BY <1>1 DEF Memory
<1>3. \A m \in Memory, c \in Int : [r EXCEPT !.RefCount = c, !.memory = m] \in Info
  BY DEF Info
<1>4. Release(r) \in Info
  BY <1>1, <1>2, <1>3 DEF Release
<1>5. NotifiedInfo(r) \in Info
  BY <1>2 DEF Info, NotifiedInfo
<1>6. [r EXCEPT !.RefCount = @ - 1, !.Disposing = TRUE] \in Info
  BY <1>2 DEF Info
<1>7. \A m \in Memory : [r EXCEPT !.memory = m] \in Info
  BY DEF Info
<1>8. \A t \in Nat : [r EXCEPT !.RenewByTime = t] \in Info
  BY DEF Info
<1> QED BY <1>1, <1>4, <1>5, <1>6, <1>7, <1>8 DEF Notification, NotificationOf

(* A granted timeout is a number of seconds. *)
LEMMA GrantedType == ASSUME NEW t \in RequestedTimeout PROVE Granted(t) \in Nat
  BY DEF Granted

(* What the purge of a service leaves of its list and of its counter. *)
LEMMA PurgeCounts ==
  ASSUME TypeOK, Counted, NEW sv \in Service
  PROVE  /\ LeftAfterPurge(sv) = Cardinality(HeadSubscriberPtr[sv] \ ExpiredOf(sv))
         /\ IsFiniteSet(HeadSubscriberPtr[sv] \ ExpiredOf(sv))
         /\ LeftAfterPurge(sv) \in Nat
         /\ LeftAfterPurge(sv) <= MaxSubscribers
<1> DEFINE H == HeadSubscriberPtr[sv]
           E == ExpiredOf(sv)
<1>1. IsFiniteSet(H) /\ H \cap E = E /\ IsFiniteSet(E)
  <2>1. H \subseteq Subscriber /\ E \subseteq H
    BY DEF TypeOK, ExpiredOf
  <2> QED BY <2>1, FS_Subset
<1>2. /\ IsFiniteSet(H \ E)
      /\ Cardinality(H \ E) = Cardinality(H) - Cardinality(E)
  <2> HIDE DEF H, E
  <2> QED BY ZenonT(40), <1>1, FS_Difference
<1>3. Cardinality(H \ E) \in Nat /\ Cardinality(E) \in Nat /\ Cardinality(H) \in Nat
  BY <1>1, <1>2, FS_CardinalityType
<1>4. NumberOfSubscribers[sv] = Cardinality(H) /\ NumberOfSubscribers[sv] <= MaxSubscribers
  BY DEF Counted
<1>5. LeftAfterPurge(sv) = Cardinality(H) - Cardinality(E)
  BY <1>4 DEF LeftAfterPurge
<1> QED BY <1>2, <1>3, <1>4, <1>5

(* A subscriber leaves its list. *)
LEMMA RemoveCounts ==
  ASSUME TypeOK, Counted, NEW sv \in Service, NEW s \in HeadSubscriberPtr[sv]
  PROVE  /\ NumberOfSubscribers[sv] - 1 = Cardinality(HeadSubscriberPtr[sv] \ {s})
         /\ NumberOfSubscribers[sv] - 1 <= MaxSubscribers
<1>1. IsFiniteSet(HeadSubscriberPtr[sv])
  BY FS_Subset DEF TypeOK
<1>2. Cardinality(HeadSubscriberPtr[sv]) \in Nat
  BY <1>1, FS_CardinalityType
<1>3. Cardinality(HeadSubscriberPtr[sv] \ {s}) = Cardinality(HeadSubscriberPtr[sv]) - 1
  BY <1>1, FS_RemoveElement
<1> QED BY <1>2, <1>3 DEF Counted

-----------------------------------------------------------------------------
(* A new subscriber, with its initial event under way, keeps the invariant. *)
LEMMA SubscribeKeeps ==
  ASSUME IInv, NEW sv \in Service, NEW s \in Subscriber, NEW t \in RequestedTimeout,
         Subscribe(sv, s, t)
  PROVE  IInv'
<1>0. /\ LeftAfterPurge(sv) = Cardinality(HeadSubscriberPtr[sv] \ ExpiredOf(sv))
      /\ IsFiniteSet(HeadSubscriberPtr[sv] \ ExpiredOf(sv))
      /\ LeftAfterPurge(sv) \in Nat
  <2>1. TypeOK /\ Counted
    BY DEF IInv
  <2> QED BY <2>1, PurgeCounts
<1> DEFINE r == [memory |-> "live", SEQ |-> 0, RefCount |-> 1, Disposing |-> FALSE,
                 RenewByTime |-> now + Granted(t)]
<1>1. r \in Info /\ NotifiedInfo(r) \in Info /\ NotificationOf(r, value[sv]) \in Notification
  <2>1. now \in Nat /\ value[sv] \in Nat
    BY DEF IInv, TypeOK
  <2>2. r \in Info
    BY <2>1, GrantedType DEF Info, Memory
  <2> QED BY <2>1, <2>2, InfoType
<1>2. Purged(sv) \in [Subscriber -> Info]
  BY InfoType DEF IInv, TypeOK, Purged, Memory
<1>3. \A x \in Service : s \notin HeadSubscriberPtr[x]
  BY DEF Subscribe, IInv, Counted
<1>4. outstanding[s] = <<>> /\ lost[s] = 0 /\ UNCHANGED <<lost, skipped>>
  BY DEF Subscribe, IInv, Referenced
<1>5. /\ info' = [Purged(sv) EXCEPT ![s] = NotifiedInfo(r)]
      /\ outstanding' = [outstanding EXCEPT ![s] = <<NotificationOf(r, value[sv])>>]
  BY <1>4 DEF Subscribe, IInv, TypeOK
<1>6. /\ NotifiedInfo(r).memory = "live" /\ NotifiedInfo(r).RefCount = 2
      /\ NotifiedInfo(r).Disposing = FALSE
  BY DEF NotifiedInfo
<1> HIDE DEF r
<1>7. TypeOK'
  <2>1. info' \in [Subscriber -> Info]
    BY <1>1, <1>2, <1>5
  <2>2. outstanding' \in [Subscriber -> Seq(Notification)]
    BY <1>1, <1>5 DEF IInv, TypeOK
  <2>3. LeftAfterPurge(sv) + 1 \in Int
    BY <1>0
  <2> QED BY <2>1, <2>2, <2>3 DEF Subscribe, IInv, TypeOK, ExpiredOf
<1>8. \A x \in Subscriber : /\ x # s /\ x \notin ExpiredOf(sv) => info'[x] = info[x]
                            /\ x \in ExpiredOf(sv) => info'[x].memory = "purged"
                            /\ x # s => outstanding'[x] = outstanding[x]
  BY <1>3, <1>5 DEF Purged, IInv, TypeOK, Info, ExpiredOf
<1>9. Counted'
  <2>1. NumberOfSubscribers'[sv] = Cardinality(HeadSubscriberPtr'[sv])
        /\ NumberOfSubscribers'[sv] <= MaxSubscribers
    <3>1. HeadSubscriberPtr'[sv] = (HeadSubscriberPtr[sv] \ ExpiredOf(sv)) \cup {s}
          /\ NumberOfSubscribers'[sv] = LeftAfterPurge(sv) + 1
          /\ LeftAfterPurge(sv) < MaxSubscribers
      BY DEF Subscribe, IInv, TypeOK
    <3>2. s \notin HeadSubscriberPtr[sv] \ ExpiredOf(sv)
      BY <1>3
    <3>3. Cardinality((HeadSubscriberPtr[sv] \ ExpiredOf(sv)) \cup {s}) = LeftAfterPurge(sv) + 1
      BY <3>2, <1>0, FS_AddElement
    <3> QED BY <3>1, <3>3, <1>0
  <2>2. ASSUME NEW x \in HeadSubscriberPtr'[sv] PROVE info'[x].memory = "live"
    <3>1. CASE x = s
      BY <3>1, <1>2, <1>5, <1>6
    <3>2. CASE x # s
      BY <3>2, <1>8 DEF Subscribe, IInv, TypeOK, Counted
    <3> QED BY <3>1, <3>2
  <2>3. ASSUME NEW y \in Service, y # sv
        PROVE  /\ HeadSubscriberPtr'[y] = HeadSubscriberPtr[y]
               /\ NumberOfSubscribers'[y] = NumberOfSubscribers[y]
               /\ \A x \in HeadSubscriberPtr[y] : info'[x].memory = "live"
               /\ HeadSubscriberPtr'[y] \cap HeadSubscriberPtr'[sv] = {}
    <3>1. HeadSubscriberPtr'[y] = HeadSubscriberPtr[y] /\ NumberOfSubscribers'[y] = NumberOfSubscribers[y]
      BY <2>3 DEF Subscribe, IInv, TypeOK
    <3>2. HeadSubscriberPtr[y] \cap HeadSubscriberPtr[sv] = {}
      BY <2>3 DEF IInv, Counted
    <3>3. \A x \in HeadSubscriberPtr[y] : x \in Subscriber /\ x # s /\ x \notin ExpiredOf(sv)
      BY <1>3, <3>2 DEF ExpiredOf, IInv, TypeOK
    <3>4. \A x \in HeadSubscriberPtr[y] : info'[x].memory = "live"
      BY <3>3, <1>8 DEF IInv, Counted
    <3>5. HeadSubscriberPtr'[sv] = (HeadSubscriberPtr[sv] \ ExpiredOf(sv)) \cup {s}
      BY DEF Subscribe, IInv, TypeOK
    <3> QED BY <3>1, <3>2, <3>3, <3>4, <3>5
  <2> QED BY <2>1, <2>2, <2>3 DEF IInv, Counted
<1>10. \A x \in Subscriber : x # s /\ x \notin ExpiredOf(sv) => (Listed(x)' <=> Listed(x))
  BY DEF Subscribe, IInv, TypeOK, Listed
<1>11. Listed(s)'
  BY DEF Subscribe, IInv, TypeOK, Listed
<1>12. Referenced' /\ FreedWhenDone'
  <2> SUFFICES ASSUME NEW x \in Subscriber
               PROVE  /\ info'[x].memory = "live" /\ ~info'[x].Disposing =>
                           /\ info'[x].RefCount = Len(outstanding'[x]) + lost'[x] + (IF Listed(x)' THEN 1 ELSE 0)
                           /\ info'[x].RefCount > 0
                      /\ info'[x].memory = "live" /\ info'[x].Disposing => ~Listed(x)'
                      /\ info'[x].memory = "none" => outstanding'[x] = <<>> /\ lost'[x] = 0 /\ skipped'[x] = 0
                      /\ info'[x].memory = "freed" => outstanding'[x] = <<>>
    BY DEF Referenced, FreedWhenDone, Listed
  <2>1. CASE x = s
    <3>1. info'[s] = NotifiedInfo(r) /\ outstanding'[s] = <<NotificationOf(r, value[sv])>>
      BY <1>2, <1>5 DEF IInv, TypeOK
    <3>2. Len(outstanding'[s]) = 1
      BY <3>1
    <3> QED BY <2>1, <3>1, <3>2, <1>4, <1>6, <1>11
  <2>2. CASE x # s /\ x \in ExpiredOf(sv)
    BY <2>2, <1>8
  <2>3. CASE x # s /\ x \notin ExpiredOf(sv)
    BY <2>3, <1>4, <1>8, <1>10 DEF IInv, Referenced, FreedWhenDone
  <2> QED BY <2>1, <2>2, <2>3
<1> QED BY <1>7, <1>9, <1>12 DEF IInv

(* A refused SUBSCRIBE, which purges all the same, keeps the invariant. *)
LEMMA SubscribeRefusedKeeps ==
  ASSUME IInv, NEW sv \in Service, SubscribeRefused(sv)
  PROVE  IInv'
<1>0. /\ LeftAfterPurge(sv) = Cardinality(HeadSubscriberPtr[sv] \ ExpiredOf(sv))
      /\ LeftAfterPurge(sv) \in Nat
      /\ LeftAfterPurge(sv) <= MaxSubscribers
  <2>1. TypeOK /\ Counted
    BY DEF IInv
  <2> QED BY <2>1, PurgeCounts
<1>1. info' = Purged(sv) /\ Purged(sv) \in [Subscriber -> Info]
  BY InfoType DEF IInv, TypeOK, Purged, Memory, SubscribeRefused
<1>2. TypeOK'
  BY <1>0, <1>1 DEF SubscribeRefused, IInv, TypeOK
<1>3. \A x \in Subscriber : /\ x \notin ExpiredOf(sv) => info'[x] = info[x]
                            /\ x \in ExpiredOf(sv) => info'[x].memory = "purged"
  BY <1>1 DEF Purged, IInv, TypeOK, Info
<1>4. Counted'
  <2>1. \A y \in Service : HeadSubscriberPtr'[y] = IF y = sv THEN HeadSubscriberPtr[sv] \ ExpiredOf(sv)
                                                             ELSE HeadSubscriberPtr[y]
    BY DEF SubscribeRefused, IInv, TypeOK
  <2>2. \A y \in Service : NumberOfSubscribers'[y] = IF y = sv THEN LeftAfterPurge(sv)
                                                               ELSE NumberOfSubscribers[y]
    BY DEF SubscribeRefused, IInv, TypeOK
  <2>3. ASSUME NEW y \in Service, NEW x \in HeadSubscriberPtr'[y] PROVE info'[x].memory = "live"
    <3>1. x \in HeadSubscriberPtr[y] /\ x \notin ExpiredOf(sv) /\ x \in Subscriber
      BY <2>1, <2>3 DEF IInv, Counted, ExpiredOf, TypeOK
    <3> QED BY <3>1, <1>3 DEF IInv, Counted
  <2>4. \A y, z \in Service : y # z => HeadSubscriberPtr'[y] \cap HeadSubscriberPtr'[z] = {}
    BY <2>1 DEF IInv, Counted
  <2>5. \A y \in Service : /\ NumberOfSubscribers'[y] = Cardinality(HeadSubscriberPtr'[y])
                           /\ NumberOfSubscribers'[y] <= MaxSubscribers
    BY <2>1, <2>2, <1>0 DEF IInv, Counted
  <2> QED BY <2>3, <2>4, <2>5 DEF Counted
<1>5. \A x \in Subscriber : x \notin ExpiredOf(sv) => (Listed(x)' <=> Listed(x))
  BY DEF SubscribeRefused, IInv, TypeOK, Listed
<1>6. UNCHANGED <<outstanding, lost, skipped>>
  BY DEF SubscribeRefused
<1>7. Referenced' /\ FreedWhenDone'
  <2> SUFFICES ASSUME NEW x \in Subscriber
               PROVE  /\ info'[x].memory = "live" /\ ~info'[x].Disposing =>
                           /\ info'[x].RefCount = Len(outstanding'[x]) + lost'[x] + (IF Listed(x)' THEN 1 ELSE 0)
                           /\ info'[x].RefCount > 0
                      /\ info'[x].memory = "live" /\ info'[x].Disposing => ~Listed(x)'
                      /\ info'[x].memory = "none" => outstanding'[x] = <<>> /\ lost'[x] = 0 /\ skipped'[x] = 0
                      /\ info'[x].memory = "freed" => outstanding'[x] = <<>>
    BY DEF Referenced, FreedWhenDone, Listed
  <2>1. CASE x \in ExpiredOf(sv)
    BY <2>1, <1>3
  <2>2. CASE x \notin ExpiredOf(sv)
    BY <2>2, <1>3, <1>5, <1>6 DEF IInv, Referenced, FreedWhenDone
  <2> QED BY <2>1, <2>2
<1> QED BY <1>2, <1>4, <1>7 DEF IInv

(* A renewal keeps the invariant. *)
LEMMA RenewEventsKeeps ==
  ASSUME IInv, NEW sv \in Service, NEW s \in Subscriber, NEW t \in RequestedTimeout,
         RenewEvents(sv, s, t)
  PROVE  IInv'
<1>1. now + Granted(t) \in Nat
  BY GrantedType DEF IInv, TypeOK
<1>2. info' = [info EXCEPT ![s] = [info[s] EXCEPT !.RenewByTime = now + Granted(t)]]
  BY DEF RenewEvents
<1>3. [info[s] EXCEPT !.RenewByTime = now + Granted(t)] \in Info
  BY <1>1, InfoType DEF IInv, TypeOK
<1>4. \A x \in Subscriber : /\ info'[x].memory = info[x].memory
                            /\ info'[x].RefCount = info[x].RefCount
                            /\ info'[x].Disposing = info[x].Disposing
  BY <1>2 DEF IInv, TypeOK, Info
<1>5. UNCHANGED <<now, value, HeadSubscriberPtr, NumberOfSubscribers, outstanding, told,
                  stack, crashed, missed, lost, skipped>>
  BY DEF RenewEvents, lists
<1>6. TypeOK'
  BY <1>2, <1>3, <1>5 DEF IInv, TypeOK
<1>7. Counted'
  BY <1>4, <1>5 DEF IInv, TypeOK, Counted
<1>8. Referenced' /\ FreedWhenDone'
  BY <1>4, <1>5 DEF IInv, Referenced, FreedWhenDone, Listed
<1> QED BY <1>6, <1>7, <1>8 DEF IInv

(* Leaving a list, whatever becomes of the record. *)
LEMMA RemoveKeeps ==
  ASSUME TypeOK, Counted, NEW sv \in Service, NEW s \in HeadSubscriberPtr[sv],
         RemoveSubscriberInfo(sv, s),
         \A x \in Subscriber : x # s => info'[x] = info[x]
  PROVE  /\ Counted'
         /\ HeadSubscriberPtr' \in [Service -> SUBSET Subscriber]
         /\ NumberOfSubscribers' \in [Service -> Int]
         /\ ~Listed(s)'
         /\ \A x \in Subscriber : x # s => (Listed(x)' <=> Listed(x))
<1>1. \A y \in Service : HeadSubscriberPtr'[y] = IF y = sv THEN HeadSubscriberPtr[sv] \ {s}
                                                           ELSE HeadSubscriberPtr[y]
  BY DEF RemoveSubscriberInfo, TypeOK
<1>2. \A y \in Service : NumberOfSubscribers'[y] = IF y = sv THEN NumberOfSubscribers[sv] - 1
                                                             ELSE NumberOfSubscribers[y]
  BY DEF RemoveSubscriberInfo, TypeOK
<1>3. \A y \in Service : s \in HeadSubscriberPtr[y] => y = sv
  BY DEF Counted
<1>4. \A y \in Service : /\ NumberOfSubscribers'[y] = Cardinality(HeadSubscriberPtr'[y])
                         /\ NumberOfSubscribers'[y] <= MaxSubscribers
  <2>1. \A y \in Service : /\ NumberOfSubscribers[y] = Cardinality(HeadSubscriberPtr[y])
                           /\ NumberOfSubscribers[y] <= MaxSubscribers
    BY DEF Counted
  <2>2. /\ NumberOfSubscribers[sv] - 1 = Cardinality(HeadSubscriberPtr[sv] \ {s})
        /\ NumberOfSubscribers[sv] - 1 <= MaxSubscribers
    BY RemoveCounts
  <2> QED BY Zenon, <2>1, <2>2, <1>1, <1>2
<1>5. ASSUME NEW y \in Service, NEW x \in HeadSubscriberPtr'[y] PROVE info'[x].memory = "live"
  <2>1. x \in HeadSubscriberPtr[y] /\ x # s /\ x \in Subscriber
    BY <1>1, <1>3, <1>5 DEF TypeOK
  <2> QED BY <2>1 DEF Counted
<1>6. \A y, z \in Service : y # z => HeadSubscriberPtr'[y] \cap HeadSubscriberPtr'[z] = {}
  BY <1>1 DEF Counted
<1>7. Counted'
  BY <1>4, <1>5, <1>6 DEF Counted
<1>8. ~Listed(s)' /\ \A x \in Subscriber : x # s => (Listed(x)' <=> Listed(x))
  BY <1>1, <1>3 DEF Listed
<1>9. /\ HeadSubscriberPtr' \in [Service -> SUBSET Subscriber]
      /\ NumberOfSubscribers' \in [Service -> Int]
  BY DEF RemoveSubscriberInfo, TypeOK
<1> QED BY <1>7, <1>8, <1>9

(* A listed subscriber is counted as the list and its notifications. *)
LEMMA ListedCount ==
  ASSUME IInv, NEW s \in Subscriber, Listed(s)
  PROVE  /\ info[s].memory = "live"
         /\ ~info[s].Disposing
         /\ info[s].RefCount = Len(outstanding[s]) + lost[s] + 1
<1>1. info[s].memory = "live"
  BY DEF IInv, Counted, Listed
<1> QED BY <1>1 DEF IInv, Referenced

(* UNSUBSCRIBE keeps the invariant, whether or not notifications are under way. *)
LEMMA UnsubscribeKeeps ==
  ASSUME IInv, NEW sv \in Service, NEW s \in Subscriber, Unsubscribe(sv, s)
  PROVE  IInv'
<1>1. /\ TypeOK /\ Counted /\ s \in HeadSubscriberPtr[sv] /\ Listed(s)
      /\ RemoveSubscriberInfo(sv, s)
      /\ info' = [info EXCEPT ![s] = Release(info[s])]
      /\ UNCHANGED <<now, value, outstanding, told, stack, crashed, missed, lost, skipped>>
  BY DEF IInv, Unsubscribe, Listed
<1>2. Release(info[s]) \in Info
  BY <1>1, InfoType DEF TypeOK
<1>3. info'[s] = Release(info[s]) /\ \A x \in Subscriber : x # s => info'[x] = info[x]
  BY <1>1 DEF TypeOK
<1>4. /\ Counted'
      /\ HeadSubscriberPtr' \in [Service -> SUBSET Subscriber]
      /\ NumberOfSubscribers' \in [Service -> Int]
      /\ ~Listed(s)'
      /\ \A x \in Subscriber : x # s => (Listed(x)' <=> Listed(x))
  BY <1>1, <1>3, RemoveKeeps
<1>5. TypeOK'
  BY <1>1, <1>2, <1>4 DEF TypeOK
<1>6. Referenced' /\ FreedWhenDone'
  <2> SUFFICES ASSUME NEW x \in Subscriber
               PROVE  /\ info'[x].memory = "live" /\ ~info'[x].Disposing =>
                           /\ info'[x].RefCount = Len(outstanding'[x]) + lost'[x] + (IF Listed(x)' THEN 1 ELSE 0)
                           /\ info'[x].RefCount > 0
                      /\ info'[x].memory = "live" /\ info'[x].Disposing => ~Listed(x)'
                      /\ info'[x].memory = "none" => outstanding'[x] = <<>> /\ lost'[x] = 0 /\ skipped'[x] = 0
                      /\ info'[x].memory = "freed" => outstanding'[x] = <<>>
    BY DEF Referenced, FreedWhenDone, Listed
  <2>1. CASE x # s
    BY <2>1, <1>1, <1>3, <1>4 DEF IInv, Referenced, FreedWhenDone
  <2>2. CASE x = s
    <3>1. /\ info'[s].RefCount = Len(outstanding[s]) + lost[s]
          /\ info'[s].memory = IF Len(outstanding[s]) + lost[s] = 0 THEN "freed" ELSE "live"
          /\ Len(outstanding[s]) = 0 <=> outstanding[s] = <<>>
          /\ Len(outstanding[s]) \in Nat /\ lost[s] \in Nat
      <4>1. outstanding[s] \in Seq(Notification) /\ info[s] \in Info /\ lost[s] \in Nat
        BY <1>1 DEF TypeOK
      <4>2. Len(outstanding[s]) \in Nat /\ (Len(outstanding[s]) = 0 <=> outstanding[s] = <<>>)
        BY <4>1
      <4>3. info[s].memory = "live" /\ info[s].RefCount = Len(outstanding[s]) + lost[s] + 1
        BY <1>1, ListedCount
      <4>4. /\ info'[s].RefCount = info[s].RefCount - 1
            /\ info'[s].memory = IF info[s].RefCount = 1 THEN "freed" ELSE info[s].memory
        BY <4>1, <1>3 DEF Release, Info
      <4> QED BY <4>1, <4>2, <4>3, <4>4
    <3> QED BY <2>2, <3>1, <1>1, <1>4
  <2> QED BY <2>1, <2>2
<1> QED BY <1>4, <1>5, <1>6 DEF IInv

(* An event keeps the invariant: each of its notifications takes a reference. *)
LEMMA SetStateKeeps ==
  ASSUME IInv, NEW sv \in Evented, SetState(sv)
  PROVE  IInv'
<1> DEFINE to == HeadSubscriberPtr[sv] \ ExpiredOf(sv)
<1>1. \A x \in to : x \in Subscriber /\ Listed(x)
  BY DEF IInv, TypeOK, Listed
<1>2. /\ value[sv] + 1 \in Nat
      /\ value' = [value EXCEPT ![sv] = value[sv] + 1]
      /\ missed' = missed \cup ExpiredOf(sv)
      /\ UNCHANGED <<now, HeadSubscriberPtr, NumberOfSubscribers, told, stack, crashed, lost,
                      skipped>>
      /\ \A x \in ExpiredOf(sv) : x \in Subscriber
  BY DEF IInv, TypeOK, SetState, lists, ExpiredOf
<1>3. /\ info' = [x \in Subscriber |-> IF x \in to THEN NotifiedInfo(info[x]) ELSE info[x]]
      /\ outstanding' = [x \in Subscriber |->
                            IF x \in to
                            THEN Append(outstanding[x], NotificationOf(info[x], value[sv] + 1))
                            ELSE outstanding[x]]
  BY DEF SetState
<1> HIDE DEF to
<1>4. TypeOK'
  <2>1. info' \in [Subscriber -> Info]
    BY <1>3, InfoType DEF IInv, TypeOK
  <2>2. outstanding' \in [Subscriber -> Seq(Notification)]
    <3>1. ASSUME NEW x \in Subscriber
          PROVE  Append(outstanding[x], NotificationOf(info[x], value[sv] + 1)) \in Seq(Notification)
      <4>1. outstanding[x] \in Seq(Notification) /\ info[x] \in Info
        BY DEF IInv, TypeOK
      <4>2. NotificationOf(info[x], value[sv] + 1) \in Notification
        BY <4>1, <1>2, InfoType
      <4> QED BY <4>1, <4>2
    <3> QED BY <1>3, <3>1 DEF IInv, TypeOK
  <2> QED BY <2>1, <2>2, <1>2 DEF IInv, TypeOK
<1>5. \A x \in Subscriber : info'[x].memory = info[x].memory /\ info'[x].Disposing = info[x].Disposing
  BY <1>3 DEF IInv, TypeOK, Info, NotifiedInfo
<1>6. Counted'
  BY <1>2, <1>5 DEF IInv, TypeOK, Counted
<1>7. \A x \in Subscriber : Listed(x)' <=> Listed(x)
  BY <1>2 DEF Listed
<1>8. Referenced' /\ FreedWhenDone'
  <2> SUFFICES ASSUME NEW x \in Subscriber
               PROVE  /\ info'[x].memory = "live" /\ ~info'[x].Disposing =>
                           /\ info'[x].RefCount = Len(outstanding'[x]) + lost'[x] + (IF Listed(x)' THEN 1 ELSE 0)
                           /\ info'[x].RefCount > 0
                      /\ info'[x].memory = "live" /\ info'[x].Disposing => ~Listed(x)'
                      /\ info'[x].memory = "none" => outstanding'[x] = <<>> /\ lost'[x] = 0 /\ skipped'[x] = 0
                      /\ info'[x].memory = "freed" => outstanding'[x] = <<>>
    BY DEF Referenced, FreedWhenDone, Listed
  <2>1. CASE x \notin to
    BY <2>1, <1>2, <1>3, <1>7 DEF IInv, Referenced, FreedWhenDone
  <2>2. CASE x \in to
    <3>1. /\ info[x].memory = "live" /\ ~info[x].Disposing
          /\ info[x].RefCount = Len(outstanding[x]) + lost[x] + 1
      BY <2>2, <1>1, ListedCount
    <3>2. /\ outstanding[x] \in Seq(Notification) /\ info[x] \in Info
          /\ lost[x] \in Nat /\ lost'[x] = lost[x]
      BY <1>2 DEF IInv, TypeOK
    <3>3. Len(outstanding'[x]) = Len(outstanding[x]) + 1 /\ Len(outstanding[x]) \in Nat
      BY <2>2, <1>3, <3>2
    <3>4. info'[x].RefCount = info[x].RefCount + 1
      BY <2>2, <1>3, <3>2 DEF NotifiedInfo, Info
    <3>5. info'[x].RefCount = Len(outstanding'[x]) + lost'[x] + 1 /\ info'[x].RefCount > 0
      <4>1. lost[x] \in Nat /\ lost'[x] = lost[x]
        BY <3>2
      <4> QED BY SMTT(30), <4>1, <3>1, <3>3, <3>4
    <3>6. info'[x].memory = "live" /\ ~info'[x].Disposing
      BY <3>1, <1>5
    <3>7. Listed(x)'
      BY <2>2, <1>1, <1>7
    <3> QED BY <3>5, <3>6, <3>7
  <2> QED BY <2>1, <2>2
<1> QED BY <1>4, <1>6, <1>8 DEF IInv

(* The end of a notification of s, in each case of UPnPSendEventSink: nothing *)
(* else happens to the references, or a notification is dropped and its       *)
(* reference stays.                                                         *)
LEMMA SinkKeeps ==
  ASSUME IInv, NEW s \in Subscriber, NEW answered \in BOOLEAN,
         outstanding[s] # <<>>,
         outstanding' \in [Subscriber -> Seq(Notification)],
         lost' \in [Subscriber -> Nat], skipped' \in [Subscriber -> Nat],
         Len(outstanding'[s]) + lost'[s] = Len(outstanding[s]) + lost[s] - 1,
         \A x \in Subscriber : x # s =>
           /\ Len(outstanding'[x]) + lost'[x] = Len(outstanding[x]) + lost[x]
           /\ outstanding[x] = <<>> =>
                UNCHANGED <<outstanding[x], lost[x], skipped[x]>>,
         SendEventSink(s, answered),
         told' \in [Subscriber -> [SEQ : Int, value : Int]],
         UNCHANGED <<now, value, stack, missed>>
  PROVE  IInv'
<1> DEFINE r == info[s]
<1>1. /\ TypeOK /\ Counted
      /\ r \in Info
      /\ outstanding[s] \in Seq(Notification)
  BY DEF IInv, TypeOK
<1>2. /\ Len(outstanding[s]) \in Nat /\ Len(outstanding[s]) > 0 /\ lost[s] \in Nat
      /\ Len(outstanding'[s]) \in Nat /\ lost'[s] \in Nat
      /\ Len(outstanding'[s]) = 0 => outstanding'[s] = <<>>
      /\ Len(outstanding'[s]) + lost'[s] = Len(outstanding[s]) + lost[s] - 1
  <2>1. outstanding'[s] \in Seq(Notification)
    OBVIOUS
  <2> QED BY <1>1, <2>1 DEF TypeOK
<1> DEFINE n == Len(outstanding[s]) + lost[s]
           m == Len(outstanding'[s]) + lost'[s]
<1>2a. /\ n \in Int /\ n > 0 /\ m \in Int /\ m = n - 1
       /\ m = 0 => Len(outstanding'[s]) = 0
  <2> DEFINE a == Len(outstanding[s])
             b == lost[s]
             c == Len(outstanding'[s])
             d == lost'[s]
  <2>1. a \in Nat /\ b \in Nat /\ c \in Nat /\ d \in Nat /\ a > 0 /\ c + d = a + b - 1
    BY <1>2
  <2> HIDE DEF a, b, c, d
  <2>2. /\ a + b \in Int /\ a + b > 0 /\ c + d \in Int /\ c + d = (a + b) - 1
        /\ c + d = 0 => c = 0
    BY <2>1
  <2> QED BY <2>2 DEF a, b, c, d
<1> HIDE DEF n, m
<1>3. r.memory \notin {"none", "freed"}
  BY DEF IInv, Referenced, FreedWhenDone
<1>4. SUFFICES
        /\ info' \in [Subscriber -> Info]
        /\ HeadSubscriberPtr' \in [Service -> SUBSET Subscriber]
        /\ NumberOfSubscribers' \in [Service -> Int]
        /\ crashed' \in BOOLEAN
        /\ Counted'
        /\ \A x \in Subscriber : x # s => info'[x] = info[x] /\ (Listed(x)' <=> Listed(x))
        /\ info'[s].memory = "live" /\ ~info'[s].Disposing =>
             /\ info'[s].RefCount = Len(outstanding'[s]) + lost'[s] + (IF Listed(s)' THEN 1 ELSE 0)
             /\ info'[s].RefCount > 0
        /\ info'[s].memory = "live" /\ info'[s].Disposing => ~Listed(s)'
        /\ info'[s].memory # "none"
        /\ info'[s].memory = "freed" => outstanding'[s] = <<>>
  <2>1. TypeOK'
    BY <1>1, <1>4 DEF TypeOK
  <2>2. Referenced' /\ FreedWhenDone'
    <3> SUFFICES ASSUME NEW x \in Subscriber
                 PROVE  /\ info'[x].memory = "live" /\ ~info'[x].Disposing =>
                             /\ info'[x].RefCount = Len(outstanding'[x]) + lost'[x] + (IF Listed(x)' THEN 1 ELSE 0)
                             /\ info'[x].RefCount > 0
                        /\ info'[x].memory = "live" /\ info'[x].Disposing => ~Listed(x)'
                        /\ info'[x].memory = "none" => outstanding'[x] = <<>> /\ lost'[x] = 0 /\ skipped'[x] = 0
                        /\ info'[x].memory = "freed" => outstanding'[x] = <<>>
      BY DEF Referenced, FreedWhenDone, Listed
    <3>1. CASE x = s
      BY <3>1, <1>4
    <3>2. CASE x # s
      <4>1. /\ info'[x] = info[x] /\ (Listed(x)' <=> Listed(x))
            /\ Len(outstanding'[x]) + lost'[x] = Len(outstanding[x]) + lost[x]
            /\ outstanding[x] = <<>> =>
                 outstanding'[x] = outstanding[x] /\ lost'[x] = lost[x] /\ skipped'[x] = skipped[x]
        BY <3>2, <1>4
      <4> QED BY <4>1 DEF IInv, Referenced, FreedWhenDone
    <3> QED BY <3>1, <3>2
  <2> QED BY <2>1, <2>2, <1>4 DEF IInv
<1>5. CASE r.memory # "live"
  <2>1. UNCHANGED <<info, HeadSubscriberPtr, NumberOfSubscribers>> /\ crashed' \in BOOLEAN
    BY <1>5 DEF SendEventSink, lists
  <2>2. Counted' /\ \A x \in Subscriber : Listed(x)' <=> Listed(x)
    BY <1>1, <2>1 DEF Counted, Listed
  <2> QED BY <1>1, <1>3, <1>5, <2>1, <2>2 DEF TypeOK
<1>6. CASE r.memory = "live" /\ r.Disposing
  <2>1. UNCHANGED <<info, HeadSubscriberPtr, NumberOfSubscribers, crashed>>
    BY <1>6 DEF SendEventSink, lists
  <2>2. Counted' /\ \A x \in Subscriber : Listed(x)' <=> Listed(x)
    BY <1>1, <2>1 DEF Counted, Listed
  <2>3. ~Listed(s)
    BY <1>6 DEF IInv, Referenced
  <2> QED BY <1>1, <1>6, <2>1, <2>2, <2>3 DEF TypeOK
<1>7. CASE r.memory = "live" /\ ~r.Disposing /\ (answered \/ r.RefCount = 1)
  <2>1. /\ info' = [info EXCEPT ![s] = Release(r)]
        /\ UNCHANGED <<HeadSubscriberPtr, NumberOfSubscribers, crashed>>
    BY <1>7 DEF SendEventSink, lists
  <2>2. info' \in [Subscriber -> Info] /\ info'[s] = Release(r)
        /\ \A x \in Subscriber : x # s => info'[x] = info[x]
    BY <1>1, <2>1, InfoType DEF TypeOK
  <2>3. r.RefCount = Len(outstanding[s]) + lost[s] + (IF Listed(s) THEN 1 ELSE 0)
    BY <1>7 DEF IInv, Referenced
  <2>4. /\ info'[s].RefCount = r.RefCount - 1
        /\ info'[s].memory = IF r.RefCount = 1 THEN "freed" ELSE "live"
        /\ info'[s].Disposing = r.Disposing
    BY <1>1, <1>7, <2>2 DEF Release, Info
  <2>5. \A x \in Subscriber : Listed(x)' <=> Listed(x)
    BY <2>1 DEF Listed
  <2>6. r.RefCount = 1 => Len(outstanding'[s]) = 0 /\ ~Listed(s)
    <3>1. n \in Int /\ n > 0 /\ (n = 1 => Len(outstanding'[s]) = 0)
      BY <1>2a
    <3>2. r.RefCount = n + (IF Listed(s) THEN 1 ELSE 0)
      BY <2>3 DEF n
    <3> HIDE DEF r
    <3>3. CASE Listed(s)
      <4>1. r.RefCount = n + 1
        BY <3>2, <3>3
      <4> QED BY <3>1, <4>1
    <3>4. CASE ~Listed(s)
      <4>1. r.RefCount = n
        BY <3>1, <3>2, <3>4
      <4> QED BY <3>1, <3>4, <4>1
    <3> QED BY <3>3, <3>4
  <2>7. r.RefCount > 0
    BY <1>2, <2>3
  <2>8. Counted'
    <3>1. \A x \in Subscriber : Listed(x) => info'[x].memory = "live"
      BY <1>1, <2>2, <2>4, <2>6 DEF Counted, Listed
    <3> QED BY <1>1, <2>1, <3>1 DEF Counted, Listed, TypeOK
  <2>9. info'[s].RefCount = Len(outstanding'[s]) + lost'[s] + (IF Listed(s)' THEN 1 ELSE 0)
    <3>1. n \in Int /\ m \in Int /\ m = n - 1
      BY <1>2a
    <3>2. r.RefCount = n + (IF Listed(s) THEN 1 ELSE 0)
      BY <2>3 DEF n
    <3> HIDE DEF r
    <3>3. info'[s].RefCount = m + (IF Listed(s) THEN 1 ELSE 0)
      <4>1. CASE Listed(s)
        <5>1. r.RefCount = n + 1
          BY <3>2, <4>1
        <5>2. info'[s].RefCount = m + 1
          BY <2>4, <3>1, <5>1
        <5> QED BY <4>1, <5>2
      <4>2. CASE ~Listed(s)
        <5>1. r.RefCount = n
          BY <3>1, <3>2, <4>2
        <5>2. info'[s].RefCount = m
          BY <2>4, <3>1, <5>1
        <5> QED BY <3>1, <4>2, <5>2
      <4> QED BY <4>1, <4>2
    <3>4. Listed(s)' <=> Listed(s)
      BY <2>5
    <3> QED BY <3>3, <3>4 DEF m
  <2>10. info'[s].memory = "freed" => outstanding'[s] = <<>>
    BY <1>2, <2>4, <2>6
  <2>11. info'[s].memory = "live" => info'[s].RefCount > 0
    BY <2>4, <2>7, <1>1, <2>2 DEF Info
  <2> QED BY <1>1, <1>7, <2>1, <2>2, <2>4, <2>5, <2>8, <2>9, <2>10, <2>11 DEF TypeOK
<1>8. CASE r.memory = "live" /\ ~r.Disposing /\ ~answered /\ r.RefCount # 1
  <2> DEFINE q == [r EXCEPT !.RefCount = @ - 1, !.Disposing = TRUE]
  <2>1. ExpireSubscriberInfo(s, q) /\ UNCHANGED crashed
    BY <1>8 DEF SendEventSink
  <2>2. /\ q \in Info /\ q.Disposing /\ q.memory = "live"
        /\ q.RefCount = r.RefCount - 1
    BY <1>1, <1>8, InfoType DEF Info
  <2>3. r.RefCount = Len(outstanding[s]) + lost[s] + (IF Listed(s) THEN 1 ELSE 0)
    BY <1>8 DEF IInv, Referenced
  <2> HIDE DEF q
  <2>4. CASE \E sv \in Service : s \in HeadSubscriberPtr[sv]
    <3>1. PICK sv \in Service : /\ s \in HeadSubscriberPtr[sv]
                                /\ RemoveSubscriberInfo(sv, s)
                                /\ info' = [info EXCEPT ![s] = Release(q)]
      BY <2>1, <2>4 DEF ExpireSubscriberInfo
    <3>2. /\ info' \in [Subscriber -> Info] /\ info'[s] = Release(q)
          /\ \A x \in Subscriber : x # s => info'[x] = info[x]
      BY <1>1, <2>2, <3>1, InfoType DEF TypeOK
    <3>3. /\ Counted'
          /\ HeadSubscriberPtr' \in [Service -> SUBSET Subscriber]
          /\ NumberOfSubscribers' \in [Service -> Int]
          /\ ~Listed(s)'
          /\ \A x \in Subscriber : x # s => (Listed(x)' <=> Listed(x))
      BY <1>1, <3>1, <3>2, RemoveKeeps
    <3>4. /\ info'[s].Disposing
          /\ info'[s].memory = IF q.RefCount = 1 THEN "freed" ELSE "live"
      BY <2>2, <3>2 DEF Release, Info
    <3>5. q.RefCount = 1 => outstanding'[s] = <<>>
      <4>1. Listed(s)
        BY <2>4 DEF Listed
      <4> QED BY <1>2, <2>2, <2>3, <4>1
    <3> QED BY <1>1, <2>1, <3>2, <3>3, <3>4, <3>5 DEF TypeOK
  <2>5. CASE \A sv \in Service : s \notin HeadSubscriberPtr[sv]
    <3>1. /\ info' = [info EXCEPT ![s] = q]
          /\ UNCHANGED <<HeadSubscriberPtr, NumberOfSubscribers>>
      BY <2>1, <2>5 DEF ExpireSubscriberInfo, lists
    <3>2. /\ info' \in [Subscriber -> Info] /\ info'[s] = q
          /\ \A x \in Subscriber : x # s => info'[x] = info[x]
      BY <1>1, <2>2, <3>1 DEF TypeOK
    <3>3. ~Listed(s)' /\ \A x \in Subscriber : Listed(x)' <=> Listed(x)
      BY <2>5, <3>1 DEF Listed
    <3>4. Counted'
      BY <1>1, <2>5, <3>1, <3>2 DEF Counted, TypeOK
    <3> QED BY <1>1, <2>1, <2>2, <3>1, <3>2, <3>3, <3>4 DEF TypeOK
  <2> QED BY <2>4, <2>5
<1> QED BY <1>1, <1>5, <1>6, <1>7, <1>8

(* The oldest notification of one subscriber leaves the queue. *)
LEMMA HeadLeaves ==
  ASSUME TypeOK, NEW s \in Subscriber, outstanding[s] # <<>>,
         NEW left, left = [outstanding EXCEPT ![s] = Tail(@)]
  PROVE  /\ left \in [Subscriber -> Seq(Notification)]
         /\ left[s] = Tail(outstanding[s])
         /\ Len(left[s]) = Len(outstanding[s]) - 1
         /\ Len(outstanding[s]) \in Nat
         /\ \A x \in Subscriber : x # s => left[x] = outstanding[x]
<1>1. outstanding \in [Subscriber -> Seq(Notification)] /\ outstanding[s] \in Seq(Notification)
  BY DEF TypeOK
<1>2. /\ Tail(outstanding[s]) \in Seq(Notification)
      /\ Len(Tail(outstanding[s])) = Len(outstanding[s]) - 1
      /\ Len(outstanding[s]) \in Nat
  BY <1>1
<1> QED BY <1>1, <1>2

(* A notification is answered. *)
LEMMA AnsweredKeeps ==
  ASSUME IInv, NEW s \in Subscriber, Answered(s)
  PROVE  IInv'
<1>1. Head(outstanding[s]) \in Notification
  BY DEF Answered, IInv, TypeOK
<1>2. /\ told' \in [Subscriber -> [SEQ : Int, value : Int]]
      /\ lost' = lost /\ lost \in [Subscriber -> Nat]
      /\ skipped' \in [Subscriber -> Nat]
      /\ \A x \in Subscriber : x # s => skipped'[x] = skipped[x]
  BY <1>1 DEF Answered, IInv, TypeOK, Notification
<1>3. /\ outstanding' \in [Subscriber -> Seq(Notification)]
      /\ Len(outstanding'[s]) = Len(outstanding[s]) - 1
      /\ Len(outstanding[s]) \in Nat
      /\ \A x \in Subscriber : x # s => outstanding'[x] = outstanding[x]
  BY HeadLeaves DEF Answered, IInv
<1>4. Len(outstanding'[s]) + lost'[s] = Len(outstanding[s]) + lost[s] - 1
  BY <1>2, <1>3
<1> QED BY <1>2, <1>3, <1>4, SinkKeeps DEF Answered

(* A notification fails. *)
LEMMA FailedKeeps ==
  ASSUME IInv, NEW s \in Subscriber, Failed(s)
  PROVE  IInv'
<1>1. /\ told' \in [Subscriber -> [SEQ : Int, value : Int]]
      /\ UNCHANGED <<lost, skipped>>
      /\ lost \in [Subscriber -> Nat] /\ skipped \in [Subscriber -> Nat]
  BY DEF Failed, IInv, TypeOK
<1>2. /\ outstanding' \in [Subscriber -> Seq(Notification)]
      /\ Len(outstanding'[s]) = Len(outstanding[s]) - 1
      /\ Len(outstanding[s]) \in Nat
      /\ \A x \in Subscriber : x # s => outstanding'[x] = outstanding[x]
  BY HeadLeaves DEF Failed, IInv
<1>3. Len(outstanding'[s]) + lost'[s] = Len(outstanding[s]) + lost[s] - 1
  BY <1>1, <1>2
<1> QED BY <1>1, <1>2, <1>3, SinkKeeps DEF Failed

(* A notification fails, and the next one to the same destination is dropped. *)
LEMMA FailedWithNextKeeps ==
  ASSUME IInv, NEW s \in Subscriber, NEW t \in Subscriber, FailedWithNext(s, t)
  PROVE  IInv'
<1> DEFINE left == [outstanding EXCEPT ![s] = Tail(@)]
<1>1. /\ left \in [Subscriber -> Seq(Notification)]
      /\ Len(left[s]) = Len(outstanding[s]) - 1
      /\ Len(outstanding[s]) \in Nat
      /\ \A x \in Subscriber : x # s => left[x] = outstanding[x]
  BY HeadLeaves DEF FailedWithNext, IInv
<1>2. /\ left[t] # <<>> /\ outstanding[s] # <<>>
      /\ outstanding' = [left EXCEPT ![t] = Tail(left[t])]
      /\ lost' = [lost EXCEPT ![t] = lost[t] + 1]
      /\ skipped' = [skipped EXCEPT ![t] = skipped[t] + 1]
      /\ lost \in [Subscriber -> Nat] /\ skipped \in [Subscriber -> Nat]
      /\ told \in [Subscriber -> [SEQ : Int, value : Int]]
      /\ UNCHANGED <<now, value, told, stack, missed>>
      /\ SendEventSink(s, FALSE)
  BY DEF FailedWithNext, IInv, TypeOK
<1> HIDE DEF left
<1>3. Tail(left[t]) \in Seq(Notification) /\ Len(Tail(left[t])) = Len(left[t]) - 1
      /\ Len(left[t]) \in Nat
  <2>1. left[t] \in Seq(Notification) /\ left[t] # <<>>
    BY <1>1, <1>2
  <2> QED BY <2>1
<1>4. /\ outstanding' \in [Subscriber -> Seq(Notification)]
      /\ lost' \in [Subscriber -> Nat] /\ skipped' \in [Subscriber -> Nat]
  <2>1. outstanding' \in [Subscriber -> Seq(Notification)]
    BY <1>1, <1>2, <1>3
  <2>2. lost[t] + 1 \in Nat /\ skipped[t] + 1 \in Nat
    BY <1>2
  <2>3. lost' \in [Subscriber -> Nat] /\ skipped' \in [Subscriber -> Nat]
    BY <1>2, <2>2
  <2> QED BY <2>1, <2>3
<1>5. /\ Len(outstanding'[t]) + lost'[t] = Len(left[t]) + lost[t]
      /\ \A x \in Subscriber : x # t => /\ outstanding'[x] = left[x]
                                        /\ lost'[x] = lost[x] /\ skipped'[x] = skipped[x]
  <2>1. Len(outstanding'[t]) = Len(left[t]) - 1 /\ lost'[t] = lost[t] + 1 /\ lost[t] \in Nat
    BY <1>1, <1>2, <1>3
  <2>2. Len(outstanding'[t]) + lost'[t] = Len(left[t]) + lost[t]
    <3> DEFINE a == Len(outstanding'[t])
               b == lost'[t]
               c == Len(left[t])
               d == lost[t]
    <3>1. a = c - 1 /\ b = d + 1 /\ c \in Nat /\ d \in Nat
      BY <1>3, <2>1
    <3> HIDE DEF a, b, c, d
    <3>2. a + b = c + d
      BY <3>1
    <3> QED BY <3>2 DEF a, b, c, d
  <2>3. \A x \in Subscriber : x # t => /\ outstanding'[x] = left[x]
                                       /\ lost'[x] = lost[x] /\ skipped'[x] = skipped[x]
    BY <1>1, <1>2
  <2> QED BY <2>2, <2>3
<1>6. Len(outstanding'[s]) + lost'[s] = Len(outstanding[s]) + lost[s] - 1
  <2>1. lost[s] \in Nat /\ Len(left[s]) = Len(outstanding[s]) - 1 /\ Len(outstanding[s]) \in Nat
    BY <1>1, <1>2
  <2>2. Len(outstanding'[s]) + lost'[s] = Len(left[s]) + lost[s]
    <3>1. CASE s = t
      BY <3>1, <1>5
    <3>2. CASE s # t
      <4>1. outstanding'[s] = left[s] /\ lost'[s] = lost[s]
        BY <3>2, <1>5
      <4> QED BY <4>1
    <3> QED BY <3>1, <3>2
  <2> DEFINE a == Len(left[s])
             b == Len(outstanding[s])
             c == lost[s]
             d == Len(outstanding'[s]) + lost'[s]
  <2>3. c \in Nat /\ b \in Nat /\ a = b - 1 /\ d = a + c
    BY <2>1, <2>2
  <2> HIDE DEF a, b, c, d
  <2>4. d = b + c - 1
    BY <2>3
  <2> QED BY <2>4 DEF b, c, d
<1>7. ASSUME NEW x \in Subscriber, x # s
      PROVE  /\ Len(outstanding'[x]) + lost'[x] = Len(outstanding[x]) + lost[x]
             /\ outstanding[x] = <<>> => UNCHANGED <<outstanding[x], lost[x], skipped[x]>>
  BY <1>1, <1>2, <1>5, <1>7
<1> QED BY <1>2, <1>4, <1>6, <1>7, SinkKeeps

(* The MicroStack frees its lists: a record is no longer live if it was listed, *)
(* and is left alone otherwise.                                             *)
LEMMA DestroyMicroStackKeeps ==
  ASSUME IInv, DestroyMicroStack
  PROVE  IInv'
<1>1. /\ HeadSubscriberPtr' = [sv \in Service |-> {}]
      /\ NumberOfSubscribers' = [sv \in Service |-> 0]
      /\ stack' = "destroyed"
      /\ UNCHANGED <<now, value, outstanding, told, crashed, missed, lost, skipped>>
      /\ info' = [s \in Subscriber |-> IF Listed(s) THEN [info[s] EXCEPT !.memory = "destroyed"]
                                                    ELSE info[s]]
  BY DEF DestroyMicroStack, Listed
<1>2. \A s \in Subscriber : /\ Listed(s) => info'[s].memory = "destroyed"
                            /\ ~Listed(s) => info'[s] = info[s]
                            /\ ~Listed(s)'
  BY <1>1 DEF IInv, TypeOK, Info, Listed
<1>3. info' \in [Subscriber -> Info]
  BY <1>1, InfoType DEF IInv, TypeOK, Memory
<1>4. TypeOK'
  BY <1>1, <1>3 DEF IInv, TypeOK
<1>5. Counted'
  BY <1>1, FS_EmptySet DEF Counted
<1>6. Referenced' /\ FreedWhenDone'
  BY <1>1, <1>2 DEF IInv, Referenced, FreedWhenDone, Listed
<1> QED BY <1>4, <1>5, <1>6 DEF IInv

(* The web client reports a request that was left over. *)
LEMMA DestroyWebClientKeeps ==
  ASSUME IInv, NEW s \in Subscriber, DestroyWebClient(s)
  PROVE  IInv'
<1>1. /\ UNCHANGED <<now, value, HeadSubscriberPtr, NumberOfSubscribers, info, told, stack, missed,
                      lost, skipped>>
      /\ crashed' \in BOOLEAN
  BY DEF DestroyWebClient, lists, IInv, TypeOK
<1>2. \/ outstanding' = outstanding
      \/ /\ info[s].memory = "live" /\ info[s].Disposing
         /\ outstanding' = [outstanding EXCEPT ![s] = Tail(outstanding[s])]
  BY DEF DestroyWebClient
<1>3. /\ outstanding' \in [Subscriber -> Seq(Notification)]
      /\ \A x \in Subscriber : x # s => outstanding'[x] = outstanding[x]
  <2>1. /\ outstanding \in [Subscriber -> Seq(Notification)]
        /\ outstanding[s] \in Seq(Notification) /\ outstanding[s] # <<>>
    BY DEF IInv, TypeOK, DestroyWebClient
  <2>2. Tail(outstanding[s]) \in Seq(Notification)
    BY <2>1
  <2> QED BY <1>2, <2>1, <2>2
<1>4. TypeOK'
  BY <1>1, <1>3 DEF IInv, TypeOK
<1>5. Counted' /\ \A x \in Subscriber : Listed(x)' <=> Listed(x)
  BY <1>1 DEF IInv, Counted, Listed
<1>6. CASE outstanding' = outstanding
  BY <1>1, <1>4, <1>5, <1>6 DEF IInv, Referenced, FreedWhenDone, Listed
<1>7. CASE info[s].memory = "live" /\ info[s].Disposing
  <2>1. ASSUME NEW x \in Subscriber
        PROVE  /\ info'[x] = info[x] /\ lost'[x] = lost[x] /\ skipped'[x] = skipped[x]
               /\ x # s => outstanding'[x] = outstanding[x]
               /\ Listed(x)' <=> Listed(x)
    BY <1>1, <1>3, <1>5
  <2>2. Referenced' /\ FreedWhenDone'
    <3> SUFFICES ASSUME NEW x \in Subscriber
                 PROVE  /\ info'[x].memory = "live" /\ ~info'[x].Disposing =>
                             /\ info'[x].RefCount = Len(outstanding'[x]) + lost'[x] + (IF Listed(x)' THEN 1 ELSE 0)
                             /\ info'[x].RefCount > 0
                        /\ info'[x].memory = "live" /\ info'[x].Disposing => ~Listed(x)'
                        /\ info'[x].memory = "none" => outstanding'[x] = <<>> /\ lost'[x] = 0 /\ skipped'[x] = 0
                        /\ info'[x].memory = "freed" => outstanding'[x] = <<>>
      BY DEF Referenced, FreedWhenDone, Listed
    <3>1. CASE x = s
      BY <3>1, <1>7, <2>1 DEF IInv, Referenced
    <3>2. CASE x # s
      BY <3>2, <2>1 DEF IInv, Referenced, FreedWhenDone
    <3> QED BY <3>1, <3>2
  <2> QED BY <1>4, <1>5, <2>2 DEF IInv
<1> QED BY <1>2, <1>6, <1>7

(* Time passes. *)
LEMMA TickKeeps ==
  ASSUME IInv, now' \in Nat,
         UNCHANGED <<value, lists, info, outstanding, told, stack, crashed, missed, dropped>>
  PROVE  IInv'
BY DEF IInv, TypeOK, Counted, Referenced, FreedWhenDone, Listed, lists

-----------------------------------------------------------------------------
(* The references to a subscriber are counted, and freed memory has no       *)
(* notification under way unless the purge or the end of the stack freed it: *)
(* an inductive invariant.                                                  *)
THEOREM InductiveInvariant == Spec => []IInv
<1>1. Init => IInv
  <2> SUFFICES ASSUME Init PROVE IInv
    OBVIOUS
  <2>1. TypeOK
    <3>1. /\ info \in [Subscriber -> Info]
          /\ outstanding \in [Subscriber -> Seq(Notification)]
      BY DEF Init, Info, Memory
    <3>2. /\ HeadSubscriberPtr \in [Service -> SUBSET Subscriber]
          /\ NumberOfSubscribers \in [Service -> Int]
          /\ value \in [Service -> Nat]
      BY DEF Init
    <3>3. -1 \in Int
      OBVIOUS
    <3>4. told \in [Subscriber -> [SEQ : Int, value : Int]]
      BY <3>3 DEF Init
    <3> QED BY <3>1, <3>2, <3>4 DEF Init, TypeOK
  <2>2. Counted
    BY FS_EmptySet DEF Init, Counted
  <2>3. Referenced /\ FreedWhenDone
    BY DEF Init, Referenced, FreedWhenDone
  <2> QED BY <2>1, <2>2, <2>3 DEF IInv
<1>2. IInv /\ [Next]_vars => IInv'
  <2> SUFFICES ASSUME IInv, [Next]_vars PROVE IInv'
    OBVIOUS
  <2>1. ASSUME NEW sv \in Service, SubscribeRefused(sv) PROVE IInv'
    BY <2>1, SubscribeRefusedKeeps
  <2>2. ASSUME NEW sv \in Evented, SetState(sv) PROVE IInv'
    BY <2>2, SetStateKeeps
  <2>3. ASSUME NEW sv \in Service, NEW s \in Subscriber, Unsubscribe(sv, s) PROVE IInv'
    BY <2>3, UnsubscribeKeeps
  <2>4. ASSUME NEW sv \in Service, NEW s \in Subscriber, NEW t \in RequestedTimeout,
               Subscribe(sv, s, t)
        PROVE  IInv'
    BY <2>4, SubscribeKeeps
  <2>5. ASSUME NEW sv \in Service, NEW s \in Subscriber, NEW t \in RequestedTimeout,
               RenewEvents(sv, s, t)
        PROVE  IInv'
    BY <2>5, RenewEventsKeeps
  <2>6. ASSUME NEW s \in Subscriber, Answered(s) PROVE IInv'
    BY <2>6, AnsweredKeeps
  <2>7. ASSUME NEW s \in Subscriber, Failed(s) PROVE IInv'
    BY <2>7, FailedKeeps
  <2>8. ASSUME NEW s \in Subscriber, NEW t \in Subscriber, FailedWithNext(s, t) PROVE IInv'
    BY <2>8, FailedWithNextKeeps
  <2>9. ASSUME NEW s \in Subscriber, DestroyWebClient(s) PROVE IInv'
    BY <2>9, DestroyWebClientKeeps
  <2>10. CASE DestroyMicroStack
    BY <2>10, DestroyMicroStackKeeps
  <2>11. CASE Tick
    BY <2>11, TickKeeps DEF Tick, IInv, TypeOK
  <2>12. CASE UNCHANGED vars
    BY <2>12, TickKeeps DEF vars, IInv, TypeOK
  <2> QED BY <2>1, <2>2, <2>3, <2>4, <2>5, <2>6, <2>7, <2>8, <2>9, <2>10, <2>11, <2>12 DEF Next
<1> QED BY <1>1, <1>2, PTL DEF Spec

(* Every variable of the subscriptions keeps its type. *)
THEOREM TypeCorrect == Spec => []TypeOK
BY InductiveInvariant, PTL DEF IInv

(* The counters agree with the lists, and the lists hold live subscribers. *)
THEOREM ListsCounted == Spec => []Counted
BY InductiveInvariant, PTL DEF IInv

(* Memory freed at its last reference is not waited for by a notification. *)
THEOREM FreedAtLastReference == Spec => []FreedWhenDone
BY InductiveInvariant, PTL DEF IInv

(* A subscriber nobody refers to any more was freed, unless one of its         *)
(* notifications had failed or was dropped by the web client.               *)
THEOREM NoLeak == Spec => []NothingLeaks
<1>1. IInv => NothingLeaks
  <2> SUFFICES ASSUME IInv, NEW s \in Subscriber, info[s].memory = "live", ~Listed(s),
                      outstanding[s] = <<>>, ~info[s].Disposing, ~(lost[s] > 0)
               PROVE  FALSE
    BY DEF NothingLeaks
  <2>1. /\ info[s].RefCount = Len(outstanding[s]) + lost[s] + 0 /\ info[s].RefCount > 0
        /\ lost[s] \in Nat
    BY DEF IInv, Referenced, TypeOK
  <2>2. Len(outstanding[s]) = 0
    OBVIOUS
  <2> QED BY <2>1, <2>2
<1> QED BY <1>1, InductiveInvariant, PTL

-----------------------------------------------------------------------------
(* What the listed subscribers were sent is inductive together with IInv.     *)
Sent == IInv /\ InSequence /\ UpToDate

(* One subscriber's part of InSequence and of UpToDate. *)
InSequenceOf(s) ==
  LET last == told[s].SEQ + skipped[s]
  IN /\ \A i \in 1 .. Len(outstanding[s]) : outstanding[s][i].SEQ = last + i
     /\ info[s].SEQ = last + Len(outstanding[s]) + 1
UpToDateOf(sv, s) == s \in missed \/ LastDropped(s) \/ Newest(s) = value[sv]

(* It is enough to look at each subscriber that is listed after the step.     *)
LEMMA SentByEach ==
  ASSUME \A s \in Subscriber : info'[s].memory = "none" => told'[s].SEQ = -1,
         \A sv \in Service : \A s \in HeadSubscriberPtr'[sv] :
           InSequenceOf(s)' /\ UpToDateOf(sv, s)'
  PROVE  InSequence' /\ UpToDate'
BY DEF InSequence, UpToDate, InSequenceOf, UpToDateOf, Newest, LastDropped

(* A subscriber of whom nothing changed is still in sequence and up to date. *)
LEMMA UntouchedKeeps ==
  ASSUME Sent, NEW sv \in Service, NEW s \in HeadSubscriberPtr[sv],
         outstanding'[s] = outstanding[s], told'[s] = told[s], skipped'[s] = skipped[s],
         info'[s].SEQ = info[s].SEQ, value'[sv] = value[sv],
         missed \subseteq missed'
  PROVE  InSequenceOf(s)' /\ UpToDateOf(sv, s)'
<1>1. InSequenceOf(s) /\ UpToDateOf(sv, s)
  BY DEF Sent, InSequence, UpToDate, InSequenceOf, UpToDateOf, Newest, LastDropped
<1>2. InSequenceOf(s)'
  BY <1>1 DEF InSequenceOf
<1>3. UpToDateOf(sv, s)'
  BY <1>1 DEF UpToDateOf, Newest, LastDropped
<1> QED BY <1>2, <1>3

(* What is left of a queue without its head. *)
LEMMA TailOf ==
  ASSUME NEW q \in Seq(Notification), q # <<>>
  PROVE  /\ Len(q) \in Nat /\ Len(q) > 0 /\ Head(q) = q[1]
         /\ Len(Tail(q)) = Len(q) - 1
         /\ \A i \in 1 .. Len(q) - 1 : Tail(q)[i] = q[i + 1]
         /\ (Tail(q) = <<>>) <=> (Len(q) = 1)
<1>1. Len(q) \in Nat /\ Len(q) > 0 /\ Head(q) = q[1]
  OBVIOUS
<1>2. Len(Tail(q)) = Len(q) - 1 /\ Tail(q) \in Seq(Notification)
  OBVIOUS
<1>3. \A i \in 1 .. Len(q) - 1 : Tail(q)[i] = q[i + 1]
  OBVIOUS
<1>4. (Tail(q) = <<>>) <=> (Len(Tail(q)) = 0)
  <2>1. \A u \in Seq(Notification) : (u = <<>>) <=> (Len(u) = 0)
    OBVIOUS
  <2> QED BY <1>2, <2>1, Zenon
<1>5. (Tail(q) = <<>>) <=> (Len(q) = 1)
  BY <1>1, <1>2, <1>4
<1> QED BY <1>1, <1>2, <1>3, <1>5

(* A subscriber of whom the oldest notification left the queue, answered or   *)
(* dropped, is still in sequence and up to date.                            *)
LEMMA TailKeeps ==
  ASSUME Sent, NEW sv \in Service, NEW s \in HeadSubscriberPtr[sv],
         outstanding[s] # <<>>, outstanding'[s] = Tail(outstanding[s]),
         told'[s].SEQ \in Int, skipped'[s] \in Nat,
         told'[s].SEQ + skipped'[s] = told[s].SEQ + skipped[s] + 1,
         told'[s] = Head(outstanding[s]) \/ skipped'[s] > 0,
         info'[s].SEQ = info[s].SEQ, value'[sv] = value[sv], missed' = missed
  PROVE  InSequenceOf(s)' /\ UpToDateOf(sv, s)'
<1> DEFINE q == outstanding[s]
<1>1. /\ q \in Seq(Notification) /\ told[s].SEQ \in Int /\ skipped[s] \in Nat
      /\ info[s].SEQ \in Nat /\ s \in Subscriber
  BY DEF Sent, IInv, TypeOK, Info
<1> DEFINE rest == outstanding'[s]
<1>2. /\ Len(q) \in Nat /\ Len(q) > 0 /\ Head(q) = q[1]
      /\ Len(rest) = Len(q) - 1
      /\ \A i \in 1 .. Len(q) - 1 : rest[i] = q[i + 1]
      /\ (rest = <<>>) <=> (Len(q) = 1)
  <2>1. q # <<>> /\ rest = Tail(q)
    OBVIOUS
  <2> HIDE DEF q, rest
  <2>2. /\ Len(q) \in Nat /\ Len(q) > 0 /\ Head(q) = q[1]
        /\ Len(Tail(q)) = Len(q) - 1
        /\ \A i \in 1 .. Len(q) - 1 : Tail(q)[i] = q[i + 1]
        /\ (Tail(q) = <<>>) <=> (Len(q) = 1)
    BY <1>1, <2>1, TailOf
  <2> QED BY Zenon, <2>1, <2>2
<1> DEFINE last == told[s].SEQ + skipped[s]
           next == told'[s].SEQ + skipped'[s]
<1>3. /\ info[s].SEQ = last + Len(q) + 1
      /\ \A i \in 1 .. Len(q) : q[i].SEQ = last + i
  BY DEF Sent, InSequence
<1>4. last \in Int /\ next = last + 1 /\ next \in Int
  BY <1>1
<1>5. s \in missed \/ q[Len(q)].value = value[sv]
  BY DEF Sent, UpToDate, Newest, LastDropped
<1>6. info'[s].SEQ = last + Len(q) + 1
  BY <1>3
<1>7. InSequenceOf(s)'
  <2> HIDE DEF q, last, next, rest
  <2>1. info'[s].SEQ = next + Len(rest) + 1
    BY SMTT(30), <1>2, <1>4, <1>6
  <2>2. ASSUME NEW i \in 1 .. Len(rest)
        PROVE  rest[i].SEQ = next + i
    <3>1. i \in 1 .. Len(q) - 1 /\ i + 1 \in 1 .. Len(q) /\ i \in Int
      BY SMTT(30), <1>2
    <3>2. rest[i] = q[i + 1] /\ q[i + 1].SEQ = last + (i + 1)
      BY Zenon, <3>1, <1>2, <1>3
    <3>3. last + (i + 1) = next + i
      BY SMTT(30), <3>1, <1>4
    <3> QED BY Zenon, <3>2, <3>3
  <2> QED BY <2>1, <2>2 DEF InSequenceOf, next, rest
<1>8. UpToDateOf(sv, s)'
  <2> HIDE DEF q, last, next
  <2>1. CASE Len(q) = 1
    <3>1. outstanding'[s] = <<>>
      BY Zenon, <2>1, <1>2
    <3>2. CASE skipped'[s] > 0
      BY <3>1, <3>2 DEF UpToDateOf, LastDropped
    <3>3. CASE told'[s] = Head(outstanding[s])
      <4>1. told'[s] = q[Len(q)]
        BY Zenon, <2>1, <3>3, <1>2 DEF q
      <4> QED BY <4>1, <3>1, <1>5 DEF UpToDateOf, Newest
    <3> QED BY <3>2, <3>3
  <2>2. CASE Len(q) # 1
    <3> HIDE DEF rest
    <3>1. /\ Len(q) - 1 \in 1 .. Len(q) - 1 /\ (Len(q) - 1) + 1 = Len(q)
      BY SMTT(30), <2>2, <1>2
    <3>2. rest # <<>> /\ rest[Len(rest)] = q[Len(q)]
      BY Zenon, <2>2, <3>1, <1>2
    <3> QED BY <3>2, <1>5 DEF UpToDateOf, Newest, rest
  <2> QED BY <2>1, <2>2
<1> QED BY <1>7, <1>8

(* A new subscriber is sent the present value with number 0. *)
LEMMA SubscribeSends ==
  ASSUME Sent, NEW sv \in Service, NEW s \in Subscriber, NEW t \in RequestedTimeout,
         Subscribe(sv, s, t)
  PROVE  InSequence' /\ UpToDate'
<1> DEFINE r == [memory |-> "live", SEQ |-> 0, RefCount |-> 1, Disposing |-> FALSE,
                 RenewByTime |-> now + Granted(t)]
           n == [SEQ |-> 0, value |-> value[sv]]
<1>1. /\ outstanding[s] = <<>> /\ told[s].SEQ = -1 /\ skipped[s] = 0
      /\ told' = told /\ value' = value /\ missed' = missed /\ skipped' = skipped
      /\ \A x \in Service : s \notin HeadSubscriberPtr[x]
  BY DEF Subscribe, Sent, IInv, Referenced, InSequence, Counted
<1>2. /\ info'[s].SEQ = 1 /\ info'[s].memory = "live"
      /\ \A x \in Subscriber : x # s => /\ info'[x].SEQ = info[x].SEQ
                                        /\ info'[x].memory = "none" => info[x].memory = "none"
  <2>1. info' = [Purged(sv) EXCEPT ![s] = NotifiedInfo(r)]
    BY DEF Subscribe
  <2>2. NotifiedInfo(r).SEQ = 1 /\ NotifiedInfo(r).memory = "live"
    BY DEF NotifiedInfo
  <2>3. /\ DOMAIN Purged(sv) = Subscriber
        /\ \A x \in Subscriber : /\ Purged(sv)[x].SEQ = info[x].SEQ
                                 /\ Purged(sv)[x].memory = "none" => info[x].memory = "none"
    BY DEF Sent, IInv, TypeOK, Info, Purged
  <2> HIDE DEF r
  <2> QED BY <2>1, <2>2, <2>3
<1>3. /\ outstanding'[s] = <<n>>
      /\ \A x \in Subscriber : x # s => outstanding'[x] = outstanding[x]
  BY <1>1 DEF Subscribe, Sent, IInv, TypeOK, NotificationOf
<1>4. \A x \in Subscriber : info'[x].memory = "none" => told'[x].SEQ = -1
  BY <1>1, <1>2 DEF Sent, InSequence
<1>5. ASSUME NEW y \in Service, NEW x \in HeadSubscriberPtr'[y]
      PROVE  InSequenceOf(x)' /\ UpToDateOf(y, x)'
  <2>1. x \in Subscriber /\ (x \in HeadSubscriberPtr[y] \/ (x = s /\ y = sv))
    BY <1>5 DEF Subscribe, Sent, IInv, TypeOK
  <2>2. CASE x # s
    BY <2>1, <2>2, <1>1, <1>2, <1>3, UntouchedKeeps
  <2>3. CASE x = s /\ y = sv
    <3>1. Len(outstanding'[s]) = 1 /\ outstanding'[s][1] = n /\ outstanding'[s] # <<>>
      BY <1>3
    <3>2. n.SEQ = 0 /\ n.value = value[sv]
      OBVIOUS
    <3>3. InSequenceOf(s)'
      BY <1>1, <1>2, <3>1, <3>2 DEF InSequenceOf
    <3>4. UpToDateOf(sv, s)'
      BY <1>1, <3>1, <3>2 DEF UpToDateOf, Newest
    <3> QED BY <2>3, <3>3, <3>4
  <2> QED BY <2>1, <2>2, <2>3, <1>1
<1> QED BY <1>4, <1>5, SentByEach

(* An event is sent to each subscriber that has not expired, with its number;  *)
(* the others are passed over.                                              *)
LEMMA SetStateSends ==
  ASSUME Sent, NEW sv \in Evented, SetState(sv)
  PROVE  InSequence' /\ UpToDate'
<1> DEFINE to == HeadSubscriberPtr[sv] \ ExpiredOf(sv)
           n(x) == [SEQ |-> info[x].SEQ, value |-> value[sv] + 1]
<1>1. /\ told' = told /\ skipped' = skipped /\ HeadSubscriberPtr' = HeadSubscriberPtr
      /\ missed' = missed \cup ExpiredOf(sv)
      /\ value'[sv] = value[sv] + 1
      /\ \A y \in Service : y # sv => value'[y] = value[y]
  BY DEF SetState, Sent, IInv, TypeOK, lists
<1>2. \A x \in Subscriber :
        /\ info'[x].memory = info[x].memory
        /\ x \in to => info'[x].SEQ = info[x].SEQ + 1
        /\ x \notin to => info'[x].SEQ = info[x].SEQ
  BY DEF SetState, Sent, IInv, TypeOK, Info, NotifiedInfo
<1>3. \A x \in Subscriber :
        /\ x \in to => outstanding'[x] = Append(outstanding[x], n(x))
        /\ x \notin to => outstanding'[x] = outstanding[x]
  BY DEF SetState, NotificationOf
<1>4. \A x \in Subscriber : info'[x].memory = "none" => told'[x].SEQ = -1
  BY <1>1, <1>2 DEF Sent, InSequence
<1>5. ASSUME NEW y \in Service, NEW x \in HeadSubscriberPtr'[y]
      PROVE  InSequenceOf(x)' /\ UpToDateOf(y, x)'
  <2>1. x \in Subscriber /\ x \in HeadSubscriberPtr[y] /\ (y # sv => x \notin to)
    BY <1>1, <1>5 DEF Sent, IInv, TypeOK, Counted
  <2>2. InSequenceOf(x)
    BY <2>1 DEF Sent, InSequence, InSequenceOf
  <2>3. CASE y # sv
    BY <2>1, <2>3, <1>1, <1>2, <1>3, UntouchedKeeps
  <2>4. CASE y = sv /\ x \notin to
    <3>1. x \in ExpiredOf(sv)
      BY <2>1, <2>4
    <3>2. InSequenceOf(x)'
      BY <2>1, <2>2, <2>4, <1>1, <1>2, <1>3 DEF InSequenceOf
    <3> QED BY <3>1, <3>2, <1>1 DEF UpToDateOf
  <2>5. CASE y = sv /\ x \in to
    <3> DEFINE q == outstanding[x]
    <3> DEFINE last == told[x].SEQ + skipped[x]
    <3>1. q \in Seq(Notification) /\ Len(q) \in Nat
          /\ last \in Int /\ info[x].SEQ \in Nat
      BY <2>1 DEF Sent, IInv, TypeOK, Info
    <3>2. outstanding'[x] = Append(q, n(x))
      BY <2>1, <2>5, <1>3
    <3>3. /\ Len(outstanding'[x]) = Len(q) + 1
          /\ outstanding'[x][Len(q) + 1] = n(x)
          /\ \A i \in 1 .. Len(q) : outstanding'[x][i] = q[i]
          /\ outstanding'[x] # <<>>
      BY <3>1, <3>2
    <3>4. n(x).SEQ = info[x].SEQ /\ n(x).value = value[sv] + 1
      OBVIOUS
    <3>5. /\ info[x].SEQ = last + Len(q) + 1
          /\ \A i \in 1 .. Len(q) : q[i].SEQ = last + i
      BY <2>2 DEF InSequenceOf
    <3>6. /\ told'[x].SEQ + skipped'[x] = last /\ info'[x].SEQ = info[x].SEQ + 1
      BY <2>1, <2>5, <1>1, <1>2
    <3> HIDE DEF n, q, to, last
    <3>7. InSequenceOf(x)'
      <4>1. info'[x].SEQ = last + Len(outstanding'[x]) + 1
        BY SMTT(30), <3>1, <3>3, <3>5, <3>6
      <4>2. ASSUME NEW i \in 1 .. Len(outstanding'[x])
            PROVE  outstanding'[x][i].SEQ = last + i
        <5>1. CASE i \in 1 .. Len(q)
          BY <5>1, <3>3, <3>5
        <5>2. CASE i = Len(q) + 1
          <6>1. outstanding'[x][i] = n(x)
            BY <5>2, <3>3
          <6>2. outstanding'[x][i].SEQ = info[x].SEQ
            BY <6>1, <3>4
          <6>3. last + i = last + Len(q) + 1
            BY <5>2, <3>1
          <6> QED BY <6>2, <6>3, <3>5
        <5> QED BY <5>1, <5>2, <3>1, <3>3
      <4> QED BY <4>1, <4>2, <3>6 DEF InSequenceOf
    <3>8. UpToDateOf(sv, x)'
      BY <3>3, <3>4, <1>1 DEF UpToDateOf, Newest
    <3> QED BY <2>5, <3>7, <3>8
  <2> QED BY <2>3, <2>4, <2>5
<1> QED BY <1>4, <1>5, SentByEach

(* Leaving a list, purges, renewals and failures send nothing to those who    *)
(* stay listed.                                                             *)
LEMMA NothingSent ==
  ASSUME Sent, UNCHANGED <<value, told, missed>>,
         \A sv \in Service : HeadSubscriberPtr'[sv] \subseteq HeadSubscriberPtr[sv],
         \A x \in Subscriber : /\ info'[x].SEQ = info[x].SEQ
                               /\ info'[x].memory = "none" => info[x].memory = "none",
         \A sv \in Service : \A x \in HeadSubscriberPtr'[sv] :
           outstanding'[x] = outstanding[x] /\ skipped'[x] = skipped[x]
  PROVE  InSequence' /\ UpToDate'
<1>1. \A x \in Subscriber : info'[x].memory = "none" => told'[x].SEQ = -1
  BY DEF Sent, InSequence
<1>2. ASSUME NEW y \in Service, NEW x \in HeadSubscriberPtr'[y]
      PROVE  InSequenceOf(x)' /\ UpToDateOf(y, x)'
  <2>1. x \in HeadSubscriberPtr[y] /\ x \in Subscriber
    BY <1>2 DEF Sent, IInv, TypeOK
  <2>2. /\ outstanding'[x] = outstanding[x] /\ told'[x] = told[x] /\ skipped'[x] = skipped[x]
        /\ info'[x].SEQ = info[x].SEQ /\ value'[y] = value[y] /\ missed \subseteq missed'
    BY <1>2, <2>1
  <2> QED BY <2>1, <2>2, UntouchedKeeps
<1> QED BY <1>1, <1>2, SentByEach

(* What the end of a notification does to the lists and records: a failed one *)
(* of several takes its subscriber off the list.                            *)
LEMMA SinkSends ==
  ASSUME Sent, NEW s \in Subscriber, NEW answered \in BOOLEAN,
         outstanding[s] # <<>>, SendEventSink(s, answered)
  PROVE  /\ \A sv \in Service : HeadSubscriberPtr'[sv] \subseteq HeadSubscriberPtr[sv]
         /\ \A x \in Subscriber : /\ info'[x].SEQ = info[x].SEQ
                                  /\ info'[x].memory = "none" => info[x].memory = "none"
         /\ ~answered => \A sv \in Service : s \notin HeadSubscriberPtr'[sv]
<1> DEFINE r == info[s]
           q == [r EXCEPT !.RefCount = @ - 1, !.Disposing = TRUE]
<1>1. /\ IInv /\ r \in Info /\ info \in [Subscriber -> Info]
      /\ HeadSubscriberPtr \in [Service -> SUBSET Subscriber]
      /\ outstanding[s] \in Seq(Notification)
      /\ q \in Info /\ q.SEQ = r.SEQ /\ q.memory = r.memory
  <2>1. /\ IInv /\ r \in Info /\ info \in [Subscriber -> Info]
        /\ HeadSubscriberPtr \in [Service -> SUBSET Subscriber]
        /\ outstanding[s] \in Seq(Notification)
    BY DEF Sent, IInv, TypeOK
  <2>2. q \in Info
    BY <2>1, InfoType
  <2>3. q.SEQ = r.SEQ /\ q.memory = r.memory
    BY <2>1 DEF Info
  <2> QED BY <2>1, <2>2, <2>3
<1>2. \A p \in Info : Release(p).SEQ = p.SEQ /\ (Release(p).memory = "none" => p.memory = "none")
  BY DEF Release, Info
<1>3. Len(outstanding[s]) \in Nat /\ Len(outstanding[s]) > 0
  BY <1>1
<1>4. Listed(s) => r.memory = "live" /\ ~r.Disposing /\ r.RefCount # 1
  <2> SUFFICES ASSUME Listed(s) PROVE r.memory = "live" /\ ~r.Disposing /\ r.RefCount # 1
    OBVIOUS
  <2>1. /\ r.memory = "live" /\ ~r.Disposing
        /\ r.RefCount = Len(outstanding[s]) + lost[s] + 1
    BY <1>1, ListedCount
  <2>2. lost[s] \in Nat
    BY <1>1 DEF IInv, TypeOK
  <2> QED BY <2>1, <2>2, <1>3
<1>5. CASE UNCHANGED <<info, lists>> /\ (r.memory # "live" \/ r.Disposing)
  BY <1>4, <1>5 DEF lists, Listed
<1>6. CASE /\ info' = [info EXCEPT ![s] = Release(r)]
           /\ UNCHANGED lists
           /\ answered \/ r.RefCount = 1
  <2>1. \A x \in Subscriber : /\ info'[x].SEQ = info[x].SEQ
                              /\ info'[x].memory = "none" => info[x].memory = "none"
    BY <1>1, <1>2, <1>6
  <2>2. HeadSubscriberPtr' = HeadSubscriberPtr
    BY <1>6 DEF lists
  <2>3. ~answered => ~Listed(s)
    BY <1>4, <1>6
  <2> QED BY <2>1, <2>2, <2>3 DEF Listed
<1>7. CASE ExpireSubscriberInfo(s, q)
  <2>1. CASE \E sv \in Service : s \in HeadSubscriberPtr[sv]
    <3>1. PICK sv \in Service : /\ s \in HeadSubscriberPtr[sv]
                                /\ RemoveSubscriberInfo(sv, s)
                                /\ info' = [info EXCEPT ![s] = Release(q)]
      BY <1>7, <2>1 DEF ExpireSubscriberInfo
    <3>2. \A x \in Subscriber : /\ info'[x].SEQ = info[x].SEQ
                                /\ info'[x].memory = "none" => info[x].memory = "none"
      BY <1>1, <1>2, <3>1
    <3>3. \A y \in Service : y # sv => s \notin HeadSubscriberPtr[y]
      BY <1>1, <3>1 DEF IInv, Counted
    <3>4. \A y \in Service : HeadSubscriberPtr'[y] = IF y = sv THEN HeadSubscriberPtr[y] \ {s}
                                                             ELSE HeadSubscriberPtr[y]
      BY <1>1, <3>1 DEF RemoveSubscriberInfo
    <3>5. \A y \in Service : /\ HeadSubscriberPtr'[y] \subseteq HeadSubscriberPtr[y]
                             /\ s \notin HeadSubscriberPtr'[y]
      BY <3>3, <3>4
    <3> QED BY <3>2, <3>5
  <2>2. CASE \A sv \in Service : s \notin HeadSubscriberPtr[sv]
    <3>1. info' = [info EXCEPT ![s] = q] /\ UNCHANGED lists
      BY <1>7, <2>2 DEF ExpireSubscriberInfo
    <3> QED BY <1>1, <2>2, <3>1 DEF lists
  <2> QED BY <2>1, <2>2
<1> QED BY <1>5, <1>6, <1>7 DEF SendEventSink

(* The oldest notification becomes the last one answered. *)
LEMMA AnsweredSends ==
  ASSUME Sent, NEW s \in Subscriber, Answered(s)
  PROVE  InSequence' /\ UpToDate'
<1> DEFINE q == outstanding[s]
<1>1. /\ \A sv \in Service : HeadSubscriberPtr'[sv] \subseteq HeadSubscriberPtr[sv]
      /\ \A x \in Subscriber : /\ info'[x].SEQ = info[x].SEQ
                               /\ info'[x].memory = "none" => info[x].memory = "none"
  BY SinkSends DEF Answered
<1>2. /\ value' = value /\ missed' = missed
      /\ told' = [told EXCEPT ![s] = Head(q)]
      /\ skipped' = [skipped EXCEPT ![s] = 0]
      /\ skipped \in [Subscriber -> Nat]
      /\ outstanding' = [outstanding EXCEPT ![s] = Tail(q)]
      /\ q # <<>>
      /\ told \in [Subscriber -> [SEQ : Int, value : Int]]
      /\ outstanding \in [Subscriber -> Seq(Notification)]
      /\ HeadSubscriberPtr \in [Service -> SUBSET Subscriber]
      /\ info \in [Subscriber -> Info]
  BY DEF Answered, Sent, IInv, TypeOK
<1>3. \A x \in Subscriber : info'[x].memory = "none" => told'[x].SEQ = -1
  BY <1>1, <1>2 DEF Sent, IInv, Referenced, InSequence
<1>4. ASSUME NEW y \in Service, NEW x \in HeadSubscriberPtr'[y]
      PROVE  InSequenceOf(x)' /\ UpToDateOf(y, x)'
  <2>1. x \in HeadSubscriberPtr[y] /\ x \in Subscriber
    BY <1>1, <1>2, <1>4
  <2>2. CASE x # s
    BY <2>1, <2>2, <1>1, <1>2, UntouchedKeeps
  <2>3. CASE x = s
    <3>1. q \in Seq(Notification) /\ Len(q) > 0 /\ Len(q) \in Nat /\ Head(q) = q[1]
      <4>1. q \in Seq(Notification) /\ q # <<>>
        BY <1>2
      <4> QED BY <4>1
    <3>2. q[1].SEQ = told[s].SEQ + skipped[s] + 1
      BY <2>1, <2>3, <3>1 DEF Sent, InSequence
    <3>3. told'[s] = Head(q) /\ skipped'[s] = 0 /\ outstanding'[s] = Tail(q)
      BY <1>2
    <3>4. told'[s].SEQ + skipped'[s] = told[s].SEQ + skipped[s] + 1
      BY <3>1, <3>2, <3>3, <1>2
    <3>5. told'[s].SEQ \in Int
      BY <3>1, <3>2, <3>3, <1>2
    <3> QED BY <2>1, <2>3, <3>3, <3>4, <3>5, <1>1, <1>2, TailKeeps
  <2> QED BY <2>2, <2>3
<1> QED BY <1>3, <1>4, SentByEach

(* A failure takes its subscriber off the list; the one of whom a             *)
(* notification was dropped with it is still in sequence, by what it skipped. *)
LEMMA FailedWithNextSends ==
  ASSUME Sent, NEW s \in Subscriber, NEW t \in Subscriber, FailedWithNext(s, t)
  PROVE  InSequence' /\ UpToDate'
<1> DEFINE left == [outstanding EXCEPT ![s] = Tail(@)]
<1>1. /\ \A sv \in Service : HeadSubscriberPtr'[sv] \subseteq HeadSubscriberPtr[sv]
      /\ \A x \in Subscriber : /\ info'[x].SEQ = info[x].SEQ
                               /\ info'[x].memory = "none" => info[x].memory = "none"
      /\ \A sv \in Service : s \notin HeadSubscriberPtr'[sv]
  BY SinkSends DEF FailedWithNext
<1>2. /\ UNCHANGED <<value, told, missed>>
      /\ left[t] # <<>>
      /\ outstanding' = [left EXCEPT ![t] = Tail(left[t])]
      /\ skipped' = [skipped EXCEPT ![t] = skipped[t] + 1]
      /\ told \in [Subscriber -> [SEQ : Int, value : Int]]
      /\ skipped \in [Subscriber -> Nat]
      /\ outstanding \in [Subscriber -> Seq(Notification)]
      /\ HeadSubscriberPtr \in [Service -> SUBSET Subscriber]
  BY DEF FailedWithNext, Sent, IInv, TypeOK
<1>3. \A x \in Subscriber : x # s => left[x] = outstanding[x]
  BY <1>2
<1>4. /\ \A x \in Subscriber : x # t => outstanding'[x] = left[x] /\ skipped'[x] = skipped[x]
      /\ outstanding'[t] = Tail(left[t]) /\ skipped'[t] = skipped[t] + 1
  BY <1>2
<1> HIDE DEF left
<1>5. \A x \in Subscriber : info'[x].memory = "none" => told'[x].SEQ = -1
  BY <1>1, <1>2 DEF Sent, InSequence
<1>6. ASSUME NEW y \in Service, NEW x \in HeadSubscriberPtr'[y]
      PROVE  InSequenceOf(x)' /\ UpToDateOf(y, x)'
  <2>1. x \in HeadSubscriberPtr[y] /\ x \in Subscriber /\ x # s
    BY <1>1, <1>2, <1>6
  <2>2. CASE x # t
    <3>1. /\ outstanding'[x] = outstanding[x] /\ told'[x] = told[x] /\ skipped'[x] = skipped[x]
          /\ info'[x].SEQ = info[x].SEQ
      BY <2>1, <2>2, <1>1, <1>2, <1>3, <1>4
    <3>2. value'[y] = value[y] /\ missed \subseteq missed'
      BY <1>2
    <3> QED BY <2>1, <3>1, <3>2, UntouchedKeeps
  <2>3. CASE x = t
    <3>1. outstanding'[t] = Tail(outstanding[t]) /\ outstanding[t] # <<>>
      BY <2>1, <2>3, <1>2, <1>3, <1>4
    <3>2. /\ told'[t] = told[t] /\ told[t].SEQ \in Int /\ skipped[t] \in Nat
          /\ info'[t].SEQ = info[t].SEQ
      BY <1>1, <1>2
    <3>3. /\ told'[t].SEQ + skipped'[t] = told[t].SEQ + skipped[t] + 1
          /\ skipped'[t] \in Nat /\ skipped'[t] > 0 /\ told'[t].SEQ \in Int
      BY <3>2, <1>4
    <3> QED BY <2>1, <2>3, <3>1, <3>2, <3>3, <1>2, TailKeeps
  <2> QED BY <2>2, <2>3
<1> QED BY <1>5, <1>6, SentByEach

(* What a listed subscriber was sent is numbered without a gap but for what    *)
(* was dropped, and ends with the service's value.                          *)
THEOREM SentInductive == Spec => []Sent
<1>1. Init => InSequence /\ UpToDate
  BY DEF Init, InSequence, UpToDate
<1>2. Sent /\ [Next]_vars => InSequence' /\ UpToDate'
  <2> SUFFICES ASSUME Sent, [Next]_vars PROVE InSequence' /\ UpToDate'
    OBVIOUS
  <2> USE DEF lists
  <2>1. ASSUME NEW sv \in Service, SubscribeRefused(sv) PROVE InSequence' /\ UpToDate'
    <3>1. \A x \in Subscriber : /\ info'[x].SEQ = info[x].SEQ
                                /\ info'[x].memory = "none" => info[x].memory = "none"
      BY <2>1 DEF SubscribeRefused, Sent, IInv, TypeOK, Info, Purged
    <3>2. /\ \A y \in Service : HeadSubscriberPtr'[y] \subseteq HeadSubscriberPtr[y]
          /\ UNCHANGED <<value, told, missed, outstanding, skipped>>
      BY <2>1 DEF SubscribeRefused, Sent, IInv, TypeOK
    <3> QED BY <3>1, <3>2, NothingSent
  <2>2. ASSUME NEW sv \in Evented, SetState(sv) PROVE InSequence' /\ UpToDate'
    BY <2>2, SetStateSends
  <2>3. ASSUME NEW sv \in Service, NEW s \in Subscriber, Unsubscribe(sv, s)
        PROVE  InSequence' /\ UpToDate'
    <3>1. \A x \in Subscriber : /\ info'[x].SEQ = info[x].SEQ
                                /\ info'[x].memory = "none" => info[x].memory = "none"
      BY <2>3 DEF Unsubscribe, Sent, IInv, TypeOK, Info, Release
    <3>2. /\ \A y \in Service : HeadSubscriberPtr'[y] \subseteq HeadSubscriberPtr[y]
          /\ UNCHANGED <<value, told, missed, outstanding, skipped>>
      BY <2>3 DEF Unsubscribe, RemoveSubscriberInfo, Sent, IInv, TypeOK
    <3> QED BY <3>1, <3>2, NothingSent
  <2>4. ASSUME NEW sv \in Service, NEW s \in Subscriber, NEW t \in RequestedTimeout,
               Subscribe(sv, s, t)
        PROVE  InSequence' /\ UpToDate'
    BY <2>4, SubscribeSends
  <2>5. ASSUME NEW sv \in Service, NEW s \in Subscriber, NEW t \in RequestedTimeout,
               RenewEvents(sv, s, t)
        PROVE  InSequence' /\ UpToDate'
    <3>1. \A x \in Subscriber : /\ info'[x].SEQ = info[x].SEQ
                                /\ info'[x].memory = "none" => info[x].memory = "none"
      BY <2>5 DEF RenewEvents, Sent, IInv, TypeOK, Info
    <3> QED BY <2>5, <3>1, NothingSent DEF RenewEvents
  <2>6. ASSUME NEW s \in Subscriber, Answered(s) PROVE InSequence' /\ UpToDate'
    BY <2>6, AnsweredSends
  <2>7. ASSUME NEW s \in Subscriber, Failed(s) PROVE InSequence' /\ UpToDate'
    <3>1. /\ \A sv \in Service : HeadSubscriberPtr'[sv] \subseteq HeadSubscriberPtr[sv]
          /\ \A x \in Subscriber : /\ info'[x].SEQ = info[x].SEQ
                                   /\ info'[x].memory = "none" => info[x].memory = "none"
          /\ \A sv \in Service : s \notin HeadSubscriberPtr'[sv]
      BY <2>7, SinkSends DEF Failed
    <3>2. \A sv \in Service : \A x \in HeadSubscriberPtr'[sv] :
            outstanding'[x] = outstanding[x] /\ skipped'[x] = skipped[x]
      BY <2>7, <3>1 DEF Failed, Sent, IInv, TypeOK
    <3> QED BY <2>7, <3>1, <3>2, NothingSent DEF Failed
  <2>8. ASSUME NEW s \in Subscriber, NEW t \in Subscriber, FailedWithNext(s, t)
        PROVE  InSequence' /\ UpToDate'
    BY <2>8, FailedWithNextSends
  <2>9. ASSUME NEW s \in Subscriber, DestroyWebClient(s) PROVE InSequence' /\ UpToDate'
    <3>1. \A sv \in Service : \A x \in HeadSubscriberPtr[sv] : outstanding'[x] = outstanding[x]
      BY <2>9 DEF DestroyWebClient, Sent, IInv, TypeOK, Referenced, Listed
    <3> QED BY <2>9, <3>1, NothingSent DEF DestroyWebClient
  <2>10. CASE DestroyMicroStack
    <3>1. \A x \in Subscriber : /\ info'[x].SEQ = info[x].SEQ
                                /\ info'[x].memory = "none" => info[x].memory = "none"
      BY <2>10 DEF DestroyMicroStack, Sent, IInv, TypeOK, Info
    <3> QED BY <2>10, <3>1, NothingSent DEF DestroyMicroStack
  <2>11. CASE Tick
    BY <2>11, NothingSent DEF Tick
  <2>12. CASE UNCHANGED vars
    BY <2>12, NothingSent DEF vars
  <2> QED BY <2>1, <2>2, <2>3, <2>4, <2>5, <2>6, <2>7, <2>8, <2>9, <2>10, <2>11, <2>12 DEF Next
<1> QED BY <1>1, <1>2, InductiveInvariant, PTL DEF Spec, Sent

(* The notifications of a listed subscriber are numbered without a gap but for *)
(* those that the web client dropped.                                       *)
THEOREM NumberedWithoutGap == Spec => []InSequence
BY SentInductive, PTL DEF Sent

(* A listed subscriber that no event passed over has the present value on its  *)
(* way or answered, unless the web client dropped it.                       *)
THEOREM LastSentIsPresent == Spec => []UpToDate
BY SentInductive, PTL DEF Sent
=============================================================================

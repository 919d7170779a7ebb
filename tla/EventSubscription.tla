-------------------------- MODULE EventSubscription --------------------------
(***************************************************************************)
(* The event subscriptions of the MicroStack (UPnPMicroStack.c).  A control *)
(* point subscribes to a service, renews, and unsubscribes; every change of *)
(* an evented variable is sent to the subscribers of the service, numbered  *)
(* by SEQ.  A notification is a request of the MicroStack's web client      *)
(* EventClient, which calls UPnPSendEventSink when it was answered, when it *)
(* failed, or when the web client is destroyed.                             *)
(*                                                                         *)
(* A SubscriberInfo is shared by the list of its service and by the         *)
(* notifications under way, which RefCount counts.  All of this runs on the *)
(* chain thread: the only variable evented after the start, the LastChange  *)
(* of RenderingControl, is set by sinks and by the moderation timer.  So a  *)
(* handler is one action; EventLock is never contended.                     *)
(*                                                                         *)
(* The web client sends to one destination on one connection, so the        *)
(* notifications of one subscriber end in the order they were sent.  With    *)
(* one that fails it may drop the one that stands behind it, to the same     *)
(* destination, without a word (WebClient, NoneLost): which subscriptions    *)
(* are of one control point is left open.                                   *)
(***************************************************************************)
EXTENDS Integers, Sequences, FiniteSets

CONSTANTS
  Service,                (* the services of the device                        *)
  Evented,                (* those with a variable that changes after the start*)
  Subscriber,             (* the subscriptions there can be, each with its SID *)
  RequestedTimeout,       (* the timeouts control points ask for, in seconds   *)
  MaxTimeout,             (* UPnP_MAX_SUBSCRIPTION_TIMEOUT                     *)
  MaxSubscribers,         (* how many a service takes; 10 in the code          *)
  MaxValue,               (* bound: how often a service changes                *)
  MaxTime                 (* bound: the last second                            *)

ASSUME SubscriptionAssumption ==
  /\ Evented \subseteq Service
  /\ IsFiniteSet(Subscriber)
  /\ RequestedTimeout \subseteq Nat
  /\ MaxTimeout \in Nat /\ MaxSubscribers \in Nat
  /\ MaxValue \in Nat /\ MaxTime \in Nat

VARIABLES
  now,                    (* the clock                                         *)
  value,                  (* the evented variable of each service              *)
  HeadSubscriberPtr,      (* the list of subscribers of each service, as a set *)
  NumberOfSubscribers,    (* and their number                                  *)
  info,                   (* the SubscriberInfo of each subscription           *)
  outstanding,            (* the notifications under way, oldest first         *)
  told,                   (* the last one the control point answered           *)
  stack,                  (* whether the MicroStack runs or was destroyed      *)
  crashed,                (* freed memory was used                             *)
  missed,                 (* history: subscriptions that an event passed over  *)
                          (* because they had expired; ...                     *)
  lost,                   (* ... how many notifications of each one the web    *)
                          (* client has dropped, ...                           *)
  skipped                 (* ... and how many since the last one answered      *)

lists == <<HeadSubscriberPtr, NumberOfSubscribers>>
dropped == <<lost, skipped>>
vars == <<now, value, lists, info, outstanding, told, stack, crashed, missed, dropped>>

(* Who freed the memory of a subscription matters only to the properties:    *)
(* "freed" at the last reference, "purged" and "destroyed" without a look at  *)
(* the references.                                                          *)
Memory == {"none", "live", "freed", "purged", "destroyed"}

Info == [memory : Memory, SEQ : Nat, RefCount : Int, Disposing : BOOLEAN, RenewByTime : Nat]

Notification == [SEQ : Nat, value : Nat]

TypeOK == /\ now \in Nat
          /\ value \in [Service -> Nat]
          /\ HeadSubscriberPtr \in [Service -> SUBSET Subscriber]
          /\ NumberOfSubscribers \in [Service -> Int]
          /\ info \in [Subscriber -> Info]
          /\ outstanding \in [Subscriber -> Seq(Notification)]
          /\ told \in [Subscriber -> [SEQ : Int, value : Int]]
          /\ stack \in {"running", "destroyed"}
          /\ crashed \in BOOLEAN
          /\ missed \subseteq Subscriber
          /\ lost \in [Subscriber -> Nat]
          /\ skipped \in [Subscriber -> Nat]

Init == /\ now = 0
        /\ value = [sv \in Service |-> 0]
        /\ HeadSubscriberPtr = [sv \in Service |-> {}]
        /\ NumberOfSubscribers = [sv \in Service |-> 0]
        /\ info = [s \in Subscriber |-> [memory |-> "none", SEQ |-> 0, RefCount |-> 0,
                                         Disposing |-> FALSE, RenewByTime |-> 0]]
        /\ outstanding = [s \in Subscriber |-> <<>>]
        /\ told = [s \in Subscriber |-> [SEQ |-> -1, value |-> -1]]
        /\ stack = "running"
        /\ crashed = FALSE
        /\ missed = {}
        /\ lost = [s \in Subscriber |-> 0]
        /\ skipped = [s \in Subscriber |-> 0]

Running == stack = "running" /\ ~crashed
-----------------------------------------------------------------------------
(* UPnPSubscriptionExpired *)
SubscriptionExpired(s) == info[s].RenewByTime < now

Granted(t) == IF t > MaxTimeout THEN MaxTimeout ELSE t

(* --RefCount, and the memory is freed with the last reference. *)
Release(r) == [r EXCEPT !.RefCount = @ - 1,
                        !.memory = IF r.RefCount = 1 THEN "freed" ELSE @]

(* Faulty variants: a notification under way is not counted; ...     *)
FaultyNotifiedInfo(r) == [r EXCEPT !.SEQ = @ + 1]

(* ... SEQ is raised before it is written into the notification. *)
FaultyNotificationOf(r, v) == [SEQ |-> r.SEQ + 1, value |-> v]

(* UPnPSendEvent_Body, for a subscriber with its record r *)
NotifiedInfo(r) == [r EXCEPT !.SEQ = @ + 1, !.RefCount = @ + 1]
NotificationOf(r, v) == [SEQ |-> r.SEQ, value |-> v]

(* UPnPTryToSubscribe first removes and frees the expired subscribers of the *)
(* service.                                                                 *)
ExpiredOf(sv) == {s \in HeadSubscriberPtr[sv] : SubscriptionExpired(s)}
Purged(sv) == [s \in Subscriber |-> IF s \in ExpiredOf(sv)
                                    THEN [info[s] EXCEPT !.memory = "purged"]
                                    ELSE info[s]]
LeftAfterPurge(sv) == NumberOfSubscribers[sv] - Cardinality(ExpiredOf(sv))

(* The SID is drawn at random; which one does not matter. *)
FreshSID == CHOOSE s \in Subscriber : info[s].memory = "none"

(* Faulty variant: no initial event. *)
FaultySubscribe(sv, s, t) ==
  /\ Running
  /\ info[s].memory = "none" /\ s = FreshSID
  /\ LeftAfterPurge(sv) < MaxSubscribers
  /\ info' = [Purged(sv) EXCEPT ![s] =
                [memory |-> "live", SEQ |-> 0, RefCount |-> 1, Disposing |-> FALSE,
                 RenewByTime |-> now + Granted(t)]]
  /\ HeadSubscriberPtr' = [HeadSubscriberPtr EXCEPT ![sv] = (@ \ ExpiredOf(sv)) \cup {s}]
  /\ NumberOfSubscribers' = [NumberOfSubscribers EXCEPT ![sv] = LeftAfterPurge(sv) + 1]
  /\ UNCHANGED <<now, value, outstanding, told, stack, crashed, missed, dropped>>

(* SUBSCRIBE without a SID: the new subscriber joins the list with one       *)
(* reference and gets its initial event.                                    *)
Subscribe(sv, s, t) ==
  /\ Running
  /\ info[s].memory = "none" /\ s = FreshSID
  /\ LeftAfterPurge(sv) < MaxSubscribers
  /\ LET r == [memory |-> "live", SEQ |-> 0, RefCount |-> 1, Disposing |-> FALSE,
               RenewByTime |-> now + Granted(t)]
     IN /\ info' = [Purged(sv) EXCEPT ![s] = NotifiedInfo(r)]
        /\ outstanding' = [outstanding EXCEPT ![s] = Append(@, NotificationOf(r, value[sv]))]
  /\ HeadSubscriberPtr' = [HeadSubscriberPtr EXCEPT ![sv] = (@ \ ExpiredOf(sv)) \cup {s}]
  /\ NumberOfSubscribers' = [NumberOfSubscribers EXCEPT ![sv] = LeftAfterPurge(sv) + 1]
  /\ UNCHANGED <<now, value, told, stack, crashed, missed, dropped>>

(* 412: too many subscribers, or a callback that is no URL.  The expired     *)
(* ones are gone all the same.                                              *)
SubscribeRefused(sv) ==
  /\ Running
  /\ info' = Purged(sv)
  /\ HeadSubscriberPtr' = [HeadSubscriberPtr EXCEPT ![sv] = @ \ ExpiredOf(sv)]
  /\ NumberOfSubscribers' = [NumberOfSubscribers EXCEPT ![sv] = LeftAfterPurge(sv)]
  /\ UNCHANGED <<now, value, outstanding, told, stack, crashed, missed, dropped>>

(* SUBSCRIBE with a SID: also one that has expired is renewed.  An unknown   *)
(* SID is answered by 412 and changes nothing.                              *)
RenewEvents(sv, s, t) ==
  /\ Running
  /\ s \in HeadSubscriberPtr[sv]
  /\ info' = [info EXCEPT ![s].RenewByTime = now + Granted(t)]
  /\ UNCHANGED <<now, value, lists, outstanding, told, stack, crashed, missed, dropped>>

(* UPnPRemoveSubscriberInfo *)
RemoveSubscriberInfo(sv, s) ==
  /\ HeadSubscriberPtr' = [HeadSubscriberPtr EXCEPT ![sv] = @ \ {s}]
  /\ NumberOfSubscribers' = [NumberOfSubscribers EXCEPT ![sv] = @ - 1]

(* Faulty variant: the list's reference is kept. *)
FaultyUnsubscribe(sv, s) ==
  /\ Running
  /\ s \in HeadSubscriberPtr[sv]
  /\ RemoveSubscriberInfo(sv, s)
  /\ UNCHANGED <<now, value, info, outstanding, told, stack, crashed, missed, dropped>>

(* UNSUBSCRIBE; again an unknown SID changes nothing. *)
Unsubscribe(sv, s) ==
  /\ Running
  /\ s \in HeadSubscriberPtr[sv]
  /\ RemoveSubscriberInfo(sv, s)
  /\ info' = [info EXCEPT ![s] = Release(@)]
  /\ UNCHANGED <<now, value, outstanding, told, stack, crashed, missed, dropped>>

(* Faulty variant: the event is composed from the value before the change. *)
FaultySetState(sv) ==
  /\ Running
  /\ value[sv] < MaxValue
  /\ value' = [value EXCEPT ![sv] = @ + 1]
  /\ LET to == HeadSubscriberPtr[sv] \ ExpiredOf(sv)
     IN /\ info' = [s \in Subscriber |-> IF s \in to THEN NotifiedInfo(info[s]) ELSE info[s]]
        /\ outstanding' = [s \in Subscriber |->
                             IF s \in to
                             THEN Append(outstanding[s], NotificationOf(info[s], value[sv]))
                             ELSE outstanding[s]]
  /\ missed' = missed \cup ExpiredOf(sv)
  /\ UNCHANGED <<now, lists, told, stack, crashed, dropped>>

(* UPnPSetState_... and UPnPSendEvent: those that have expired are passed    *)
(* over and stay.                                                           *)
SetState(sv) ==
  /\ Running
  /\ value[sv] < MaxValue
  /\ value' = [value EXCEPT ![sv] = @ + 1]
  /\ LET to == HeadSubscriberPtr[sv] \ ExpiredOf(sv)
     IN /\ info' = [s \in Subscriber |-> IF s \in to THEN NotifiedInfo(info[s]) ELSE info[s]]
        /\ outstanding' = [s \in Subscriber |->
                             IF s \in to
                             THEN Append(outstanding[s], NotificationOf(info[s], value[sv] + 1))
                             ELSE outstanding[s]]
  /\ missed' = missed \cup ExpiredOf(sv)
  /\ UNCHANGED <<now, lists, told, stack, crashed, dropped>>
-----------------------------------------------------------------------------
(* UPnPExpireSubscriberInfo, for the record r of s: it looks for the list    *)
(* that s is in; if there is none it gives up and keeps the reference.      *)
ExpireSubscriberInfo(s, r) ==
  \/ \E sv \in Service : /\ s \in HeadSubscriberPtr[sv]
                         /\ RemoveSubscriberInfo(sv, s)
                         /\ info' = [info EXCEPT ![s] = Release(r)]
  \/ /\ \A sv \in Service : s \notin HeadSubscriberPtr[sv]
     /\ info' = [info EXCEPT ![s] = r]
     /\ UNCHANGED lists

(* UPnPSendEventSink *)
SendEventSink(s, answered) ==
  LET r == info[s]
  IN \/ /\ r.memory # "live"
        /\ crashed' = TRUE
        /\ UNCHANGED <<info, lists>>
     \/ /\ r.memory = "live" /\ r.Disposing
        /\ UNCHANGED <<info, lists, crashed>>
     \/ /\ r.memory = "live" /\ ~r.Disposing
        /\ answered \/ r.RefCount = 1
        /\ info' = [info EXCEPT ![s] = Release(r)]
        /\ UNCHANGED <<lists, crashed>>
     \/ /\ r.memory = "live" /\ ~r.Disposing
        /\ ~answered /\ r.RefCount # 1
        /\ ExpireSubscriberInfo(s, [r EXCEPT !.RefCount = @ - 1, !.Disposing = TRUE])
        /\ UNCHANGED crashed

(* The control point answers the oldest notification. *)
Answered(s) ==
  /\ Running
  /\ outstanding[s] # <<>>
  /\ told' = [told EXCEPT ![s] = Head(outstanding[s])]
  /\ outstanding' = [outstanding EXCEPT ![s] = Tail(@)]
  /\ skipped' = [skipped EXCEPT ![s] = 0]
  /\ SendEventSink(s, TRUE)
  /\ UNCHANGED <<now, value, stack, missed, lost>>

(* It cannot be delivered, and was the last one to its destination. *)
Failed(s) ==
  /\ Running
  /\ outstanding[s] # <<>>
  /\ outstanding' = [outstanding EXCEPT ![s] = Tail(@)]
  /\ SendEventSink(s, FALSE)
  /\ UNCHANGED <<now, value, told, stack, missed, dropped>>

(* It cannot be delivered, and the one behind it, the oldest that is left of  *)
(* t, goes with it: the sink of the disconnect calls the sink of the first    *)
(* and dequeues it, and FinishedResponse dequeues and destroys the second.    *)
FailedWithNext(s, t) ==
  /\ Running
  /\ outstanding[s] # <<>>
  /\ LET left == [outstanding EXCEPT ![s] = Tail(@)]
     IN /\ left[t] # <<>>
        /\ outstanding' = [left EXCEPT ![t] = Tail(@)]
  /\ lost' = [lost EXCEPT ![t] = @ + 1]
  /\ skipped' = [skipped EXCEPT ![t] = @ + 1]
  /\ SendEventSink(s, FALSE)
  /\ UNCHANGED <<now, value, told, stack, missed>>
-----------------------------------------------------------------------------
(* The chain ends and destroys its links in the order they were added: the   *)
(* MicroStack, which frees the listed subscribers and itself, ...           *)
DestroyMicroStack ==
  /\ Running
  /\ stack' = "destroyed"
  /\ info' = [s \in Subscriber |-> IF \E sv \in Service : s \in HeadSubscriberPtr[sv]
                                   THEN [info[s] EXCEPT !.memory = "destroyed"]
                                   ELSE info[s]]
  /\ HeadSubscriberPtr' = [sv \in Service |-> {}]
  /\ NumberOfSubscribers' = [sv \in Service |-> 0]
  /\ UNCHANGED <<now, value, outstanding, told, crashed, missed, dropped>>

(* ... and then the web client, which reports every request as failed.  The  *)
(* sink reads the subscriber, and takes the lock of the MicroStack.         *)
DestroyWebClient(s) ==
  /\ stack = "destroyed" /\ ~crashed
  /\ outstanding[s] # <<>>
  /\ \/ /\ info[s].memory = "live" /\ info[s].Disposing
        /\ outstanding' = [outstanding EXCEPT ![s] = Tail(@)]
        /\ UNCHANGED crashed
     \/ /\ ~(info[s].memory = "live" /\ info[s].Disposing)
        /\ crashed' = TRUE
        /\ UNCHANGED outstanding
  /\ UNCHANGED <<now, value, lists, info, told, stack, missed, dropped>>

Tick ==
  /\ Running
  /\ now < MaxTime
  /\ now' = now + 1
  /\ UNCHANGED <<value, lists, info, outstanding, told, stack, crashed, missed, dropped>>

Next == \/ \E sv \in Service : SubscribeRefused(sv)
        \/ \E sv \in Evented : SetState(sv)
        \/ \E sv \in Service, s \in Subscriber :
             \/ Unsubscribe(sv, s)
             \/ \E t \in RequestedTimeout : Subscribe(sv, s, t) \/ RenewEvents(sv, s, t)
        \/ \E s \in Subscriber : Answered(s) \/ Failed(s) \/ DestroyWebClient(s)
        \/ \E s, t \in Subscriber : FailedWithNext(s, t)
        \/ DestroyMicroStack
        \/ Tick

Spec == Init /\ [][Next]_vars

(* The web client gets rid of each notification: it is answered, or its       *)
(* control point is found to be gone, or it is dropped behind another one    *)
(* (WebClient, RequestsEnd, whose two cases of a request that is held for     *)
(* ever are left out).                                                      *)
Ends(s) == \/ Answered(s) \/ Failed(s)
           \/ \E t \in Subscriber : FailedWithNext(s, t) \/ FailedWithNext(t, s)
FairSpec == Spec /\ \A s \in Subscriber : WF_vars(Ends(s))
-----------------------------------------------------------------------------
Listed(s) == \E sv \in Service : s \in HeadSubscriberPtr[sv]

(* The counter of a service agrees with its list and stays in its limit, and *)
(* a list holds only subscribers whose memory was not freed, each in the     *)
(* list of one service: UPnPExpireSubscriberInfo, which finds the service    *)
(* from the list, may meet a subscriber that has already left it.           *)
Counted ==
  /\ \A sv \in Service :
       /\ NumberOfSubscribers[sv] = Cardinality(HeadSubscriberPtr[sv])
       /\ NumberOfSubscribers[sv] <= MaxSubscribers
       /\ \A s \in HeadSubscriberPtr[sv] : info[s].memory = "live"
  /\ \A sv1, sv2 \in Service : sv1 # sv2 => HeadSubscriberPtr[sv1] \cap HeadSubscriberPtr[sv2] = {}

(* RefCount is what it stands for: the list, the notifications under way,     *)
(* and those that the web client dropped, whose references nobody gives       *)
(* back.  After a failure it is no longer kept.                             *)
Referenced ==
  \A s \in Subscriber :
    /\ info[s].memory = "live" /\ ~info[s].Disposing =>
         /\ info[s].RefCount = Len(outstanding[s]) + lost[s] + (IF Listed(s) THEN 1 ELSE 0)
         /\ info[s].RefCount > 0
    /\ info[s].memory = "live" /\ info[s].Disposing => ~Listed(s)
    /\ info[s].memory = "none" => outstanding[s] = <<>> /\ lost[s] = 0 /\ skipped[s] = 0

(* What the count is for: memory freed at the last reference has no          *)
(* notification under way that would use it, whatever order UNSUBSCRIBE,     *)
(* answers and failures come in, and whatever the web client drops (code:    *)
(* RefCount in UPnPSendEventSink, UPnPSendEvent_Body and the UNSUBSCRIBE).   *)
FreedWhenDone ==
  \A s \in Subscriber : info[s].memory = "freed" => outstanding[s] = <<>>

(* The other way round: a subscriber that is neither listed nor waited for   *)
(* was freed, but for two kinds: one whose notification failed, for           *)
(* UPnPSendEventSink ignores what ends after a failure; and one of whom the   *)
(* web client dropped a notification without calling UPnPSendEventSink.      *)
NothingLeaks ==
  \A s \in Subscriber :
    info[s].memory = "live" /\ ~Listed(s) /\ outstanding[s] = <<>> =>
      info[s].Disposing \/ lost[s] > 0

(* A control point takes a gap in SEQ for a lost event.  As long as a         *)
(* subscriber is listed, its notifications are numbered from 0, SEQ is the    *)
(* next number, and the numbers that are missing between the last one it     *)
(* answered and the next are exactly as many as the web client has dropped   *)
(* there: subscribing, renewing, expiry, events and failures of others leave *)
(* no gap of their own (code: SEQ in UPnPSendEvent_Body, RemoveSubscriberInfo).*)
InSequence ==
  /\ \A s \in Subscriber : info[s].memory = "none" => told[s].SEQ = -1
  /\ \A sv \in Service : \A s \in HeadSubscriberPtr[sv] :
       LET last == told[s].SEQ + skipped[s]
       IN /\ \A i \in 1 .. Len(outstanding[s]) : outstanding[s][i].SEQ = last + i
          /\ info[s].SEQ = last + Len(outstanding[s]) + 1

(* The web client has dropped the last notification of a subscriber.          *)
LastDropped(s) == outstanding[s] = <<>> /\ skipped[s] > 0

(* What is on its way to a subscriber, or was answered, last is the service's *)
(* value, also when it subscribed in the middle of changes and was renewed,  *)
(* expired or not, unless an event passed over it or the web client dropped  *)
(* the last one (code: UPnPSendEvent, UPnPTryToSubscribe, UPnPRenew).        *)
Newest(s) == IF outstanding[s] = <<>> THEN told[s].value
             ELSE outstanding[s][Len(outstanding[s])].value
UpToDate ==
  \A sv \in Service : \A s \in HeadSubscriberPtr[sv] \ missed :
    LastDropped(s) \/ Newest(s) = value[sv]

IInv == TypeOK /\ Counted /\ Referenced /\ FreedWhenDone

(* Once the changes stop, each subscriber that stays subscribed and in time  *)
(* has the value, if its control point answers and the web client did not    *)
(* drop the last notification: one that it dropped earlier is made good by   *)
(* the next (code: UPnPSendEvent_Body and UPnPSendEventSink).                *)
UpToDateAtLast(s) ==
  \A sv \in Service :
    s \in HeadSubscriberPtr[sv] \ missed => LastDropped(s) \/ told[s].value = value[sv]
EventsArrive == \A s \in Subscriber : []<>(crashed \/ UpToDateAtLast(s))

(* No freed memory is used.  The message of UPnPSendEventSink for a           *)
(* subscriber that went while it was sent to says that the record outlives   *)
(* the list for the sake of the notification.                               *)
NoFreedUse == ~crashed
=============================================================================

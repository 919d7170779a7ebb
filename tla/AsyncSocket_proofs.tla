-------------------------- MODULE AsyncSocket_proofs --------------------------
(***************************************************************************)
(* The memory of the pending list, what the user is told, what select is    *)
(* asked to wait for and the order of the bytes, for any number of threads, *)
(* blocks, bytes and connections.  The inductive invariant is IInv of       *)
(* module AsyncSocket: a block is pending at most once, and the callbacks   *)
(* agree with the state of the socket.  With it Watched is inductive, and   *)
(* so is OrderInv, which says what of the accepted blocks is pending.       *)
(***************************************************************************)
EXTENDS AsyncSocket, SequenceTheorems, TLAPS

(* The steps by what they change, so that each conjunct of IInv is proved    *)
(* from the few that touch it.                                              *)
ownVars == <<PendingSend, memory>>
toldVars == <<internalSocket, FinConnect, told, frames, pc, connections>>

(* What ToSet does to the sequences the handlers build. *)
LEMMA ToSetAppend ==
  ASSUME NEW S, NEW s \in Seq(S), NEW e
  PROVE  ToSet(Append(s, e)) = ToSet(s) \cup {e}
<1>1. ASSUME NEW x \in ToSet(s) \cup {e} PROVE x \in ToSet(Append(s, e))
  <2>1. CASE x = e
    <3>1. Append(s, e)[Len(s) + 1] = e /\ Len(s) + 1 \in DOMAIN Append(s, e)
      OBVIOUS
    <3> QED BY <2>1, <3>1 DEF ToSet
  <2>2. CASE x \in ToSet(s)
    <3>1. PICK i \in DOMAIN s : s[i] = x
      BY <2>2 DEF ToSet
    <3>2. Append(s, e)[i] = x /\ i \in DOMAIN Append(s, e)
      BY <3>1
    <3> QED BY <3>2 DEF ToSet
  <2> QED BY <1>1, <2>1, <2>2
<1>2. ASSUME NEW x \in ToSet(Append(s, e)) PROVE x \in ToSet(s) \cup {e}
  <2>1. PICK i \in DOMAIN Append(s, e) : Append(s, e)[i] = x
    BY <1>2 DEF ToSet
  <2>2. i \in 1 .. Len(s) + 1 /\ (i = Len(s) + 1 => x = e) /\ (i # Len(s) + 1 => x = s[i])
    BY <2>1
  <2> QED BY <2>2 DEF ToSet
<1> QED BY <1>1, <1>2

(* The head of a sequence without repetition and the rest share nothing and  *)
(* make up the whole.                                                       *)
LEMMA ToSetSplit ==
  ASSUME NEW S, NEW s \in Seq(S), NEW k \in 0 .. Len(s),
         \A i, j \in DOMAIN s : s[i] = s[j] => i = j
  PROVE  LET first == SubSeq(s, 1, k)
             rest == SubSeq(s, k + 1, Len(s))
         IN /\ rest \in Seq(S)
            /\ ToSet(rest) = ToSet(s) \ ToSet(first)
            /\ ToSet(first) \subseteq ToSet(s)
            /\ \A i, j \in DOMAIN rest : rest[i] = rest[j] => i = j
<1> DEFINE first == SubSeq(s, 1, k)
           rest == SubSeq(s, k + 1, Len(s))
<1>1. /\ Len(first) = k /\ DOMAIN first = 1 .. k
      /\ \A i \in 1 .. k : first[i] = s[i]
  OBVIOUS
<1>2. /\ Len(rest) = Len(s) - k /\ DOMAIN rest = 1 .. Len(s) - k
      /\ \A i \in 1 .. Len(s) - k : rest[i] = s[k + i]
      /\ rest \in Seq(S)
  OBVIOUS
<1>3. ToSet(first) = {s[i] : i \in 1 .. k}
  BY <1>1 DEF ToSet
<1>4. ToSet(rest) = {s[i] : i \in k + 1 .. Len(s)}
  <2>1. ASSUME NEW i \in k + 1 .. Len(s) PROVE i - k \in 1 .. Len(s) - k /\ rest[i - k] = s[i]
    BY <1>2
  <2>2. ASSUME NEW i \in 1 .. Len(s) - k PROVE k + i \in k + 1 .. Len(s) /\ rest[i] = s[k + i]
    BY <1>2
  <2> HIDE DEF rest
  <2>3. ToSet(rest) = {rest[i] : i \in 1 .. Len(s) - k}
    BY <1>2 DEF ToSet
  <2>4. ToSet(rest) \subseteq {s[i] : i \in k + 1 .. Len(s)}
    BY <2>3, <2>2
  <2>5. {s[i] : i \in k + 1 .. Len(s)} \subseteq ToSet(rest)
    BY <2>3, <2>1
  <2> QED BY <2>4, <2>5
<1>5. ToSet(s) = {s[i] : i \in 1 .. Len(s)}
  BY DEF ToSet
<1> HIDE DEF first, rest
<1>6. ToSet(rest) = ToSet(s) \ ToSet(first) /\ ToSet(first) \subseteq ToSet(s)
  BY <1>3, <1>4, <1>5
<1>7. \A i, j \in DOMAIN rest : rest[i] = rest[j] => i = j
  <2>1. SUFFICES ASSUME NEW i \in 1 .. Len(s) - k, NEW j \in 1 .. Len(s) - k, rest[i] = rest[j]
                 PROVE  i = j
    BY <1>2
  <2>2. k + i \in DOMAIN s /\ k + j \in DOMAIN s
    OBVIOUS
  <2>3. s[k + i] = s[k + j]
    BY <1>2, <2>1
  <2>4. k + i = k + j
    BY <2>2, <2>3
  <2> QED BY <2>4
<1> QED BY <1>2, <1>6, <1>7 DEF first, rest
-----------------------------------------------------------------------------
(* Types *)
LEMMA InitTypeOK == Init => TypeOK
<1>1. <<>> \in Seq(Block) /\ <<>> \in Seq(Callback) /\ <<>> \in Seq(Event)
  OBVIOUS
<1>2. Init => sent \in [Block -> 0 .. Size] /\ memory \in [Block -> Memory]
  BY AsyncSocketAssumption DEF Init, Memory
<1>3. Init => /\ connections \in 0 .. MaxConnection /\ disconnects \in Nat
              /\ FinConnect \in {-1, 0, 1} /\ PAUSE \in {-1, 0, 1}
  BY AsyncSocketAssumption DEF Init
<1>4. Init => /\ PendingSend \in Seq(Block) /\ frames \in Seq(Callback)
              /\ told \in Seq(Event) /\ accepted \in Seq(Block)
  BY <1>1 DEF Init
<1>5. Init => /\ internalSocket \in BOOLEAN /\ poll \in BOOLEAN /\ fd_write \in BOOLEAN
              /\ posted \in BOOLEAN /\ failed \in BOOLEAN /\ stale \in BOOLEAN
              /\ pc \in {"loop", "select", "read", "write"}
              /\ asked \subseteq Set /\ force \subseteq Caller
  BY DEF Init
<1> QED BY <1>2, <1>3, <1>4, <1>5 DEF TypeOK

(* Every step keeps the types. *)
LEMMA StepTypeOK == TypeOK /\ [Next]_vars => TypeOK'
<1> SUFFICES ASSUME TypeOK, [Next]_vars PROVE TypeOK'
  OBVIOUS
<1> USE AsyncSocketAssumption
<1>1. ASSUME NEW c \in Caller, SendTo(c) PROVE TypeOK'
  <2>1. PICK b \in Block, ownership \in Ownership :
          \/ SendOnClosedSocket(c, b, ownership)
          \/ SendQueued(c, b, ownership)
          \/ \E k \in 0 .. Size : SendAtOnce(c, b, ownership, k)
          \/ SendFails(c, b, ownership)
    BY <1>1 DEF SendTo
  <2>2. Kept(b, ownership) \in [Block -> Memory]
    BY DEF Kept, TypeOK, Memory
  <2>3. CASE SendOnClosedSocket(c, b, ownership)
    BY <2>3 DEF SendOnClosedSocket, Memory, TypeOK, connVars, selectVars, unblockVars, history
  <2>4. CASE SendQueued(c, b, ownership)
    BY <2>2, <2>4 DEF SendQueued, Unblocks, TypeOK, connVars, selectVars
  <2>5. CASE \E k \in 0 .. Size : SendAtOnce(c, b, ownership, k)
    <3>1. PICK k \in 0 .. Size : SendAtOnce(c, b, ownership, k)
      BY <2>5
    <3>2. <<b>> \in Seq(Block) /\ Append(accepted, b) \in Seq(Block)
      BY DEF TypeOK
    <3> QED BY ZenonT(40), <2>2, <3>1, <3>2 DEF SendAtOnce, Memory, Unblocks, TypeOK, connVars, selectVars
  <2>6. CASE SendFails(c, b, ownership)
    BY <2>6 DEF SendFails, Memory, DisconnectLater, TypeOK, connVars, selectVars, unblockVars
  <2> QED BY <2>1, <2>3, <2>4, <2>5, <2>6
<1>2. ASSUME NEW c \in Caller, Resume(c) PROVE TypeOK'
  BY <1>2 DEF Resume, Unblocks, TypeOK, sendVars, selectVars, history
<1>3. ASSUME NEW c \in Caller, ForceUnBlockChain(c) PROVE TypeOK'
  BY <1>3 DEF ForceUnBlockChain, TypeOK, connVars, sendVars, selectVars, history
<1>4. ClearPendingSend => /\ PendingSend' \in Seq(Block)
                          /\ memory' \in [Block -> Memory]
  BY DEF ClearPendingSend, Freed, Memory, TypeOK
<1>5. CloseAndTell => /\ internalSocket' \in BOOLEAN
                      /\ told' \in Seq(Event)
                      /\ frames' \in Seq(Callback)
  <2>1. Ending \in Event
    BY DEF Ending, Event
  <2>2. Append(told, Ending) \in Seq(Event)
    BY <2>1 DEF TypeOK
  <2>3. <<"end">> \in Seq(Callback)
    BY DEF Callback
  <2>4. <<"end">> \o frames \in Seq(Callback)
    BY <2>3 DEF TypeOK
  <2> QED BY <2>2, <2>4 DEF CloseAndTell
<1>6. Disconnect => /\ internalSocket' \in BOOLEAN /\ PAUSE' \in {-1, 0, 1}
                    /\ PendingSend' \in Seq(Block)
                    /\ memory' \in [Block -> Memory]
                    /\ told' \in Seq(Event)
                    /\ frames' \in Seq(Callback)
  BY <1>4, <1>5 DEF Disconnect, TypeOK
<1>7. CASE TimerDisconnect
  BY <1>6, <1>7 DEF TimerDisconnect, TypeOK, selectVars, unblockVars
<1>8. CASE UserDisconnects
  BY <1>6, <1>8 DEF UserDisconnects, TypeOK, selectVars, unblockVars
<1>9. CASE UserPauses
  BY <1>9 DEF UserPauses, TypeOK, sendVars, selectVars, unblockVars, history
<1>10. CASE UserReturns
  BY <1>10 DEF UserReturns, TypeOK, sendVars, selectVars, unblockVars, history
<1>11. CASE ConnectTo \/ ConnectAtOnce \/ UseThisSocket
  <2>1. <<>> \in Seq(Event) /\ <<"connected">> \in Seq(Event) /\ <<>> \in Seq(Block)
    BY DEF Event
  <2>2. NewConnection => /\ connections' \in 0 .. MaxConnection
                         /\ stale' \in BOOLEAN /\ failed' \in BOOLEAN
    <3>1. NewConnection => connections' \in 0 .. MaxConnection
      BY DEF NewConnection, TypeOK
    <3>2. NewConnection => stale' \in BOOLEAN /\ failed' \in BOOLEAN
      BY DEF NewConnection
    <3> QED BY <3>1, <3>2
  <2>3. CASE ConnectTo
    BY <2>1, <2>2, <2>3 DEF ConnectTo, NewConnection, TypeOK
  <2>4. CASE ConnectAtOnce
    BY <2>1, <2>2, <2>4 DEF ConnectAtOnce, NewConnection, DisconnectLater, TypeOK
  <2>5. CASE UseThisSocket
    BY <2>1, <2>2, <2>5 DEF UseThisSocket, NewConnection, TypeOK
  <2> QED BY <1>11, <2>3, <2>4, <2>5
<1>12. CASE PreSelect
  BY <1>12 DEF PreSelect, TypeOK, Set, connVars, sendVars, history
<1>13. CASE PostSelect
  <2>1. PICK ready \in SUBSET Set : \/ PostSelectIdle(ready)
                                    \/ PostSelectError(ready)
                                    \/ PostSelectConnect(ready)
                                    \/ PostSelectRead(ready)
                                    \/ PostSelectResume(ready)
    BY <1>13 DEF PostSelect
  <2>2. CASE PostSelectIdle(ready)
    BY <2>2 DEF PostSelectIdle, TypeOK, connVars, sendVars, unblockVars, history
  <2>3. CASE PostSelectError(ready)
    BY <1>5, <2>3 DEF PostSelectError, Selected, TypeOK, unblockVars
  <2>4. CASE PostSelectConnect(ready)
    <3>1. <<"connected">> \in Seq(Callback) /\ Append(told, "connected") \in Seq(Event)
      BY DEF Callback, Event, TypeOK
    <3>2. fd_write' \in BOOLEAN
      BY <2>4 DEF PostSelectConnect, Selected
    <3> QED BY <2>4, <3>1, <3>2 DEF PostSelectConnect, Selected, TypeOK, unblockVars
  <2>5. CASE PostSelectRead(ready)
    BY <2>5 DEF PostSelectRead, Selected, TypeOK, connVars, unblockVars
  <2>6. CASE PostSelectResume(ready)
    <3>1. <<>> \in Seq(Callback) /\ <<"data">> \in Seq(Callback)
      BY DEF Callback
    <3>2. /\ frames' \in IF PAUSE < 0 THEN {<<>>, <<"data">>} ELSE {<<>>}
          /\ PAUSE' = IF PAUSE < 0 THEN PAUSE + 1 ELSE PAUSE
      BY <2>6 DEF PostSelectResume, Resumed
    <3>4. frames' \in Seq(Callback)
      BY <3>1, <3>2
    <3>5. PAUSE' \in {-1, 0, 1}
      BY <3>2 DEF TypeOK
    <3>3. fd_write' \in BOOLEAN
      BY <2>6 DEF PostSelectResume, Selected
    <3> QED BY <2>6, <3>3, <3>4, <3>5 DEF PostSelectResume, Selected, TypeOK, unblockVars
  <2> QED BY <2>1, <2>2, <2>3, <2>4, <2>5, <2>6
<1>14. CASE ProcessAsyncSocket
  <2>1. <<"data">> \in Seq(Callback)
    BY DEF Callback
  <2> QED BY ZenonT(40), <1>4, <1>5, <1>6, <1>14, <2>1 DEF ProcessAsyncSocket, TypeOK, unblockVars
<1>15. CASE WriteAll
  <2>1. <<"sendok">> \in Seq(Callback)
    BY DEF Callback
  <2>2. sent' \in [Block -> 0 .. Size]
    BY <1>15 DEF WriteAll, TypeOK
  <2> QED BY <1>4, <1>15, <2>1, <2>2 DEF WriteAll, Sending, TypeOK, connVars, unblockVars
<1>16. ASSUME NEW k \in 0 .. Len(PendingSend), NEW m \in 0 .. Size - 1, WriteSome(k, m) PROVE TypeOK'
  <2>1. sent' \in [Block -> 0 .. Size]
    <3> DEFINE next == PendingSend[k + 1]
               now(b) == CASE b \in Gone(k) -> Size [] b = next -> m [] OTHER -> sent[b]
    <3>1. ASSUME NEW b \in Block PROVE now(b) \in 0 .. Size
      BY SMTT(30) DEF TypeOK
    <3>2. sent' = [b \in Block |-> now(b)]
      BY <1>16 DEF WriteSome
    <3> HIDE DEF now
    <3> QED BY <3>1, <3>2
  <2>2. PendingSend' \in Seq(Block)
    <3>1. PendingSend' = SubSeq(PendingSend, k + 1, Len(PendingSend)) /\ k < Len(PendingSend)
      BY <1>16 DEF WriteSome
    <3>2. PendingSend \in Seq(Block)
      BY DEF TypeOK
    <3> QED BY <3>1, <3>2
  <2>3. memory' \in [Block -> Memory]
    BY <1>16 DEF WriteSome, Freed, Memory, TypeOK
  <2> QED BY <1>16, <2>1, <2>2, <2>3 DEF WriteSome, Sending, TypeOK, connVars, unblockVars
<1>17. CASE WriteFails
  BY <1>4, <1>17 DEF WriteFails, Sending, DisconnectLater, TypeOK, connVars, unblockVars
<1>18. CASE NothingToWrite
  BY <1>18 DEF NothingToWrite, TypeOK, connVars, sendVars, unblockVars, history
<1>19. CASE UNCHANGED vars
  BY <1>19 DEF TypeOK, vars, connVars, sendVars, selectVars, unblockVars, history
<1> QED
  BY <1>1, <1>2, <1>3, <1>7, <1>8, <1>9, <1>10, <1>11, <1>12, <1>13, <1>14, <1>15, <1>16, <1>17,
     <1>18, <1>19 DEF Next, Handlers, Write, Caller

-----------------------------------------------------------------------------
(* The pending list and its memory *)
Owned == PendingOnce /\ PendingOwned

LEMMA InitOwned == Init => Owned
<1>1. ToSet(<<>>) = {}
  BY DEF ToSet
<1> QED BY <1>1 DEF Init, Owned, PendingOnce, PendingOwned

(* Clearing the list gives back what the module owned of it. *)
LEMMA ClearKeepsOwned == TypeOK /\ Owned /\ ClearPendingSend => Owned'
<1>1. ToSet(<<>>) = {}
  BY DEF ToSet
<1> QED BY <1>1 DEF ClearPendingSend, Freed, TypeOK, Owned, PendingOnce, PendingOwned

(* SendTo hands over a buffer that was not used before, so it is not yet     *)
(* pending.                                                                 *)
LEMMA SendKeepsOwned ==
  ASSUME TypeOK, Owned, NEW c \in Caller, SendTo(c) PROVE Owned'
<1>1. PICK b \in Block, ownership \in Ownership :
        \/ SendOnClosedSocket(c, b, ownership)
        \/ SendQueued(c, b, ownership)
        \/ \E k \in 0 .. Size : SendAtOnce(c, b, ownership, k)
        \/ SendFails(c, b, ownership)
  BY DEF SendTo
<1>2. memory[b] = "unused"
  BY <1>1 DEF SendOnClosedSocket, SendQueued, SendAtOnce, SendFails
<1>3. b \notin ToSet(PendingSend)
  BY <1>2 DEF Owned, PendingOwned
<1>4. ASSUME PendingSend' = PendingSend, memory' = [memory EXCEPT ![b] = "done"] PROVE Owned'
  BY <1>2, <1>3, <1>4 DEF TypeOK, Owned, PendingOnce, PendingOwned
<1>5. CASE SendOnClosedSocket(c, b, ownership) \/ SendFails(c, b, ownership)
  BY <1>4, <1>5 DEF SendOnClosedSocket, SendFails
<1>6. ASSUME PendingSend' = Append(PendingSend, b), memory' = Kept(b, ownership) PROVE Owned'
  <2>1. ToSet(PendingSend') = ToSet(PendingSend) \cup {b}
    BY <1>6, ToSetAppend DEF TypeOK
  <2>2. PendingOwned'
    BY <1>6, <2>1 DEF Kept, TypeOK, Owned, PendingOwned
  <2>3. \A i \in DOMAIN PendingSend : PendingSend[i] # b
    BY <1>3 DEF ToSet
  <2>4. /\ DOMAIN PendingSend' = 1 .. Len(PendingSend) + 1
        /\ DOMAIN PendingSend = 1 .. Len(PendingSend)
        /\ Len(PendingSend) \in Nat
        /\ PendingSend'[Len(PendingSend) + 1] = b
        /\ \A i \in 1 .. Len(PendingSend) : PendingSend'[i] = PendingSend[i]
    BY <1>6 DEF TypeOK
  <2>5. PendingOnce'
    BY <2>3, <2>4 DEF Owned, PendingOnce
  <2> QED BY <2>2, <2>5 DEF Owned
<1>7. CASE SendQueued(c, b, ownership)
  BY <1>6, <1>7 DEF SendQueued
<1>8. CASE \E k \in 0 .. Size : SendAtOnce(c, b, ownership, k)
  <2>1. PICK k \in 0 .. Size : SendAtOnce(c, b, ownership, k)
    BY <1>8
  <2>2. CASE k = Size
    BY <1>4, <2>1, <2>2 DEF SendAtOnce
  <2>3. CASE k # Size
    <3>1. PendingSend = <<>>
      BY <2>1 DEF SendAtOnce, MustQueue
    <3>2. PendingSend' = Append(PendingSend, b) /\ memory' = Kept(b, ownership)
      BY <2>1, <2>3, <3>1 DEF SendAtOnce
    <3> QED BY <1>6, <3>2
  <2> QED BY <2>2, <2>3
<1> QED BY <1>1, <1>5, <1>7, <1>8

(* Writing frees the blocks that are gone, and keeps the others. *)
LEMMA WriteKeepsOwned ==
  ASSUME TypeOK, Owned, NEW k \in 0 .. Len(PendingSend), NEW m \in 0 .. Size - 1, WriteSome(k, m)
  PROVE  Owned'
<1>1. /\ PendingSend' = SubSeq(PendingSend, k + 1, Len(PendingSend))
      /\ memory' = Freed(ToSet(SubSeq(PendingSend, 1, k)))
  BY DEF WriteSome, Gone
<1>2. PendingSend \in Seq(Block) /\ \A i, j \in DOMAIN PendingSend : PendingSend[i] = PendingSend[j] => i = j
  BY DEF TypeOK, Owned, PendingOnce
<1>3. /\ ToSet(PendingSend') = ToSet(PendingSend) \ ToSet(SubSeq(PendingSend, 1, k))
      /\ ToSet(SubSeq(PendingSend, 1, k)) \subseteq ToSet(PendingSend)
      /\ PendingOnce'
  BY <1>1, <1>2, ToSetSplit DEF PendingOnce
<1>4. PendingOwned'
  BY <1>1, <1>3 DEF Freed, TypeOK, Owned, PendingOwned
<1> QED BY <1>3, <1>4 DEF Owned

(* Every step keeps the list and its memory together. *)
LEMMA StepOwned == TypeOK /\ Owned /\ [Next]_vars => Owned'
<1> SUFFICES ASSUME TypeOK, Owned, [Next]_vars PROVE Owned'
  OBVIOUS
<1>1. ASSUME UNCHANGED ownVars PROVE Owned'
  BY <1>1 DEF ownVars, Owned, PendingOnce, PendingOwned
<1>2. Disconnect => Owned'
  BY <1>1, ClearKeepsOwned DEF Disconnect, ownVars
<1>3. ASSUME NEW c \in Caller, Resume(c) \/ ForceUnBlockChain(c) PROVE Owned'
  BY <1>1, <1>3 DEF Resume, ForceUnBlockChain, ownVars, sendVars
<1>4. CASE TimerDisconnect \/ UserDisconnects
  BY <1>2, <1>4 DEF TimerDisconnect, UserDisconnects
<1>5. CASE UserPauses \/ UserReturns \/ PreSelect \/ NothingToWrite
  BY <1>1, <1>5 DEF UserPauses, UserReturns, PreSelect, NothingToWrite, ownVars, sendVars
<1>6. CASE ConnectTo \/ ConnectAtOnce \/ UseThisSocket
  BY <1>1, <1>6 DEF ConnectTo, ConnectAtOnce, UseThisSocket, NewConnection, ownVars
<1>7. CASE PostSelect
  BY <1>1, <1>7 DEF PostSelect, PostSelectIdle, PostSelectError, PostSelectConnect, PostSelectRead,
     PostSelectResume, ownVars, sendVars
<1>8. CASE ProcessAsyncSocket
  BY <1>1, <1>2, <1>8, ClearKeepsOwned DEF ProcessAsyncSocket, ownVars
<1>9. CASE WriteAll \/ WriteFails
  BY <1>9, ClearKeepsOwned DEF WriteAll, WriteFails
<1>10. CASE UNCHANGED vars
  BY <1>1, <1>10 DEF vars, sendVars, ownVars
<1> QED
  BY <1>3, <1>4, <1>5, <1>6, <1>7, <1>8, <1>9, <1>10, SendKeepsOwned, WriteKeepsOwned
     DEF Next, Handlers, Write, Caller

-----------------------------------------------------------------------------
(* What the user is told *)
Agreed == ToldAgrees /\ ToldOnce

LEMMA InitAgreed == Init => Agreed
<1>1. ToSet(<<>>) = {}
  BY DEF ToSet
<1> QED BY <1>1 DEF Init, Agreed, ToldAgrees, ToldOnce

(* The callback that tells of the end has no socket under it. *)
LEMMA CloseKeepsAgreed ==
  TypeOK /\ Agreed /\ internalSocket /\ CloseAndTell /\ pc' # "read" => Agreed'
<1> SUFFICES ASSUME TypeOK, Agreed, internalSocket, CloseAndTell, pc' # "read" PROVE Agreed'
  OBVIOUS
<1>1. ~internalSocket' /\ told' = Append(told, Ending)
  BY DEF CloseAndTell
<1>2. CASE FinConnect = 1
  <2>1. told = <<"connected">> /\ Ending = "ended"
    BY <1>2 DEF Agreed, ToldAgrees, Ending
  <2>2. told' = <<"connected", "ended">>
    <3> DEFINE one == <<"connected">>
               both == <<"connected", "ended">>
               appended == Append(one, "ended")
    <3>1. one \in Seq(Event) /\ both \in Seq(Event) /\ "ended" \in Event
      BY DEF Event
    <3>2. Len(one) = 1 /\ one[1] = "connected"
      OBVIOUS
    <3>3. Len(both) = 2 /\ both[1] = "connected" /\ both[2] = "ended"
      OBVIOUS
    <3> HIDE DEF one, both
    <3>4. /\ appended \in Seq(Event)
          /\ Len(appended) = Len(one) + 1
          /\ \A i \in 1 .. Len(one) : appended[i] = one[i]
          /\ appended[Len(one) + 1] = "ended"
      BY <3>1, AppendProperties
    <3> HIDE DEF appended
    <3>5. Len(appended) = 2 /\ appended[1] = "connected" /\ appended[2] = "ended"
      BY <3>2, <3>4
    <3>6. \A i \in 1 .. Len(appended) : appended[i] = both[i]
      BY <3>3, <3>5
    <3>7. appended = both
      BY <3>1, <3>3, <3>4, <3>5, <3>6, SeqEqual
    <3> QED BY <1>1, <2>1, <3>7 DEF one, both, appended
  <2> QED BY <1>1, <2>2 DEF Agreed, ToldAgrees, ToldOnce
<1>3. CASE FinConnect # 1
  <2>1. told = <<>> /\ Ending = "failed"
    BY <1>3 DEF Agreed, ToldAgrees, Ending, TypeOK
  <2>2. told' = <<"failed">>
    BY <1>1, <2>1
  <2> QED BY <1>1, <2>2 DEF Agreed, ToldAgrees, ToldOnce
<1> QED BY <1>2, <1>3

(* Every step agrees with what the user was told. *)
LEMMA StepAgreed == TypeOK /\ Agreed /\ [Next]_vars => Agreed'
<1> SUFFICES ASSUME TypeOK, Agreed, [Next]_vars PROVE Agreed'
  OBVIOUS
<1>1. ASSUME UNCHANGED toldVars PROVE Agreed'
  BY <1>1 DEF toldVars, Agreed, ToldAgrees, ToldOnce
<1>2. ASSUME UNCHANGED <<internalSocket, FinConnect, told, frames, connections>>, pc' # "read"
      PROVE  Agreed'
  BY <1>2 DEF Agreed, ToldAgrees, ToldOnce
<1>3. ASSUME Disconnect, UNCHANGED <<FinConnect, connections>>, pc' # "read" PROVE Agreed'
  BY <1>2, <1>3, CloseKeepsAgreed DEF Disconnect
<1>4. ASSUME NEW c \in Caller, SendTo(c) \/ Resume(c) \/ ForceUnBlockChain(c) PROVE Agreed'
  BY <1>1, <1>4 DEF SendTo, SendOnClosedSocket, SendQueued, SendAtOnce, SendFails, Resume,
     ForceUnBlockChain, toldVars, connVars, selectVars, history
<1>5. CASE TimerDisconnect
  BY <1>3, <1>5 DEF TimerDisconnect, selectVars
<1>6. CASE UserDisconnects
  <2>1. pc # "read"
    BY <1>6 DEF UserDisconnects, Agreed, ToldAgrees
  <2> QED BY <1>3, <1>6, <2>1 DEF UserDisconnects, selectVars
<1>7. CASE UserPauses
  BY <1>1, <1>7 DEF UserPauses, toldVars, selectVars, history
<1>8. CASE UserReturns
  <2>1. frames # <<>> /\ frames' = Tail(frames) /\ pc' = pc
        /\ UNCHANGED <<internalSocket, told, connections>>
    BY <1>8 DEF UserReturns, selectVars, history
  <2>2. ToSet(frames') \subseteq ToSet(frames)
    <3>1. frames \in Seq(Callback)
      BY DEF TypeOK
    <3>2. /\ DOMAIN frames' = 1 .. Len(frames) - 1
          /\ \A i \in 1 .. Len(frames) - 1 : frames'[i] = frames[i + 1] /\ i + 1 \in DOMAIN frames
      BY <2>1, <3>1
    <3> QED BY <3>2 DEF ToSet
  <2>3. Head(frames) = "end" => "end" \in ToSet(frames)
    <3>1. frames \in Seq(Callback)
      BY DEF TypeOK
    <3>2. Head(frames) = frames[1] /\ 1 \in DOMAIN frames
      BY <2>1, <3>1
    <3> QED BY <3>2 DEF ToSet
  <2>4. internalSocket => FinConnect' = FinConnect
    BY <1>8, <2>3 DEF UserReturns, Agreed, ToldAgrees
  <2>5. pc' # "read"
    BY <2>1 DEF Agreed, ToldAgrees
  <2> QED BY <2>1, <2>2, <2>4, <2>5 DEF Agreed, ToldAgrees, ToldOnce
<1>9. CASE ConnectTo \/ ConnectAtOnce \/ UseThisSocket
  <2>1. /\ internalSocket' /\ frames' = frames /\ frames = <<>> /\ pc' = pc
        /\ told' = IF FinConnect' = 1 THEN <<"connected">> ELSE <<>>
    BY <1>9 DEF ConnectTo, ConnectAtOnce, UseThisSocket, NewConnection
  <2>2. ToSet(<<>>) = {}
    BY DEF ToSet
  <2>3. pc # "read"
    BY <1>9 DEF ConnectTo, ConnectAtOnce, UseThisSocket
  <2> QED BY <2>1, <2>2, <2>3 DEF Agreed, ToldAgrees, ToldOnce
<1>10. CASE PreSelect
  BY <1>2, <1>10 DEF PreSelect, connVars, history
<1>11. CASE PostSelect
  <2>1. PICK ready \in SUBSET Set : \/ PostSelectIdle(ready)
                                    \/ PostSelectError(ready)
                                    \/ PostSelectConnect(ready)
                                    \/ PostSelectRead(ready)
                                    \/ PostSelectResume(ready)
    BY <1>11 DEF PostSelect
  <2>2. ToSet(<<>>) = {} /\ \A e \in Callback : ToSet(<<e>>) = {e}
    BY DEF ToSet
  <2>3. CASE PostSelectIdle(ready)
    BY <1>2, <2>3 DEF PostSelectIdle, connVars, history
  <2>4. CASE PostSelectError(ready)
    BY <2>4, CloseKeepsAgreed DEF PostSelectError, Selected
  <2>5. CASE PostSelectConnect(ready)
    <3>1. CASE UNCHANGED <<FinConnect, told, frames>>
      BY <1>2, <2>5, <3>1 DEF PostSelectConnect, Selected
    <3>2. CASE /\ FinConnect' = 1 /\ told' = Append(told, "connected")
               /\ frames' = <<"connected">>
      <4>1. told = <<>> /\ internalSocket' /\ pc' = "write"
        BY <2>5 DEF PostSelectConnect, Selected, Agreed, ToldAgrees
      <4>2. told' = <<"connected">>
        BY <3>2, <4>1
      <4>3. "end" \notin ToSet(frames')
        BY <2>2, <3>2 DEF Callback
      <4> QED BY <3>2, <4>1, <4>2, <4>3 DEF Agreed, ToldAgrees, ToldOnce
    <3> QED BY <2>5, <3>1, <3>2 DEF PostSelectConnect
  <2>6. CASE PostSelectRead(ready)
    BY <2>6 DEF PostSelectRead, Selected, connVars, Agreed, ToldAgrees, ToldOnce
  <2>7. CASE PostSelectResume(ready)
    <3>1. frames' = <<>> \/ frames' = <<"data">>
      BY <2>7 DEF PostSelectResume
    <3>2. "end" \notin ToSet(frames')
      BY <2>2, <3>1 DEF Callback
    <3> QED BY <2>7, <3>2 DEF PostSelectResume, Selected, Agreed, ToldAgrees, ToldOnce
  <2> QED BY <2>1, <2>3, <2>4, <2>5, <2>6, <2>7
<1>12. CASE ProcessAsyncSocket
  <2>1. internalSocket /\ pc' = "write" /\ UNCHANGED <<FinConnect, connections>>
    BY <1>12 DEF ProcessAsyncSocket, Agreed, ToldAgrees
  <2>2. CASE frames' = <<"data">> /\ UNCHANGED <<internalSocket, told>>
    <3>1. ToSet(<<"data">>) = {"data"}
      BY DEF ToSet
    <3> QED BY <2>1, <2>2, <3>1 DEF Agreed, ToldAgrees, ToldOnce
  <2>3. CASE CloseAndTell
    BY <2>1, <2>3, CloseKeepsAgreed
  <2>4. CASE Disconnect
    BY <1>3, <2>1, <2>4
  <2> QED BY <1>12, <2>2, <2>3, <2>4 DEF ProcessAsyncSocket
<1>13. CASE WriteAll
  <2>1. /\ frames' = <<"sendok">> /\ pc' = "loop"
        /\ UNCHANGED <<internalSocket, FinConnect, told, connections>>
    BY <1>13 DEF WriteAll, Sending, connVars
  <2>2. ToSet(<<"sendok">>) = {"sendok"}
    BY DEF ToSet
  <2> QED BY <2>1, <2>2 DEF Agreed, ToldAgrees, ToldOnce
<1>14. ASSUME NEW k \in 0 .. Len(PendingSend), NEW m \in 0 .. Size - 1, WriteSome(k, m) PROVE Agreed'
  BY <1>2, <1>14 DEF WriteSome, Sending, connVars
<1>15. CASE WriteFails
  BY <1>2, <1>15 DEF WriteFails, Sending, connVars
<1>16. CASE NothingToWrite
  BY <1>2, <1>16 DEF NothingToWrite, connVars, history
<1>17. CASE UNCHANGED vars
  BY <1>1, <1>17 DEF vars, connVars, selectVars, history, toldVars
<1> QED
  BY <1>4, <1>5, <1>6, <1>7, <1>8, <1>9, <1>10, <1>11, <1>12, <1>13, <1>14, <1>15, <1>16, <1>17
     DEF Next, Handlers, Write, Caller
-----------------------------------------------------------------------------
(* The sleep *)

(* A step after which select sleeps on what it slept on before, with nothing  *)
(* new to be told of.                                                         *)
LEMMA StepWatched == TypeOK /\ ToldAgrees /\ Watched /\ [Next]_vars => Watched'
<1> SUFFICES ASSUME TypeOK, ToldAgrees, Watched, [Next]_vars,
                    pc' = "select", internalSocket', ~posted', force' = {}, ~poll', disconnects' = 0
             PROVE  /\ PendingSend' # <<>> => "write" \in asked'
                    /\ FinConnect' = 0 => {"write", "error"} \subseteq asked'
                    /\ FinConnect' # 0 /\ PAUSE' = 0 => {"read", "error"} \subseteq asked'
                    /\ PAUSE' >= 0
  BY DEF Watched
<1> DEFINE Asleep == /\ PendingSend' # <<>> => "write" \in asked'
                     /\ FinConnect' = 0 => {"write", "error"} \subseteq asked'
                     /\ FinConnect' # 0 /\ PAUSE' = 0 => {"read", "error"} \subseteq asked'
                     /\ PAUSE' >= 0
<1>1. ASSUME UNCHANGED <<connVars, PendingSend, disconnects, pc, asked, poll, unblockVars>> PROVE Asleep
  BY <1>1 DEF Watched, connVars, unblockVars
<1>2. ASSUME NEW c \in Caller, SendTo(c) PROVE Asleep
  <2>1. PICK b \in Block, ownership \in Ownership :
          \/ SendOnClosedSocket(c, b, ownership)
          \/ SendQueued(c, b, ownership)
          \/ \E k \in 0 .. Size : SendAtOnce(c, b, ownership, k)
          \/ SendFails(c, b, ownership)
    BY <1>2 DEF SendTo
  <2>2. CASE SendOnClosedSocket(c, b, ownership)
    BY <2>2 DEF SendOnClosedSocket, connVars
  <2>3. CASE SendQueued(c, b, ownership)
    BY <2>3 DEF SendQueued, Unblocks
  <2>4. CASE \E k \in 0 .. Size : SendAtOnce(c, b, ownership, k)
    <3>1. UNCHANGED <<PendingSend, force>> \/ Unblocks(c)
      BY <2>4 DEF SendAtOnce
    <3>2. UNCHANGED <<PendingSend, force>>
      BY <3>1 DEF Unblocks
    <3>3. UNCHANGED <<connVars, disconnects, pc, asked, poll, posted>>
      BY <2>4 DEF SendAtOnce, selectVars
    <3> QED BY <1>1, <3>2, <3>3 DEF unblockVars
  <2>5. CASE SendFails(c, b, ownership)
    BY <2>5 DEF SendFails, DisconnectLater, TypeOK
  <2> QED BY <2>1, <2>2, <2>3, <2>4, <2>5
<1>3. ASSUME NEW c \in Caller, Resume(c) PROVE Asleep
  BY <1>3 DEF Resume, Unblocks
<1>4. ASSUME NEW c \in Caller, ForceUnBlockChain(c) PROVE Asleep
  BY <1>4 DEF ForceUnBlockChain
<1>5. CASE TimerDisconnect
  BY <1>5 DEF TimerDisconnect, selectVars
<1>6. CASE UserDisconnects
  BY <1>6 DEF UserDisconnects, Disconnect, CloseAndTell
<1>7. CASE UserPauses
  <2>1. PAUSE' = 1 /\ UNCHANGED <<internalSocket, FinConnect, sendVars, selectVars, unblockVars>>
    BY <1>7 DEF UserPauses
  <2> QED BY <2>1 DEF Watched, sendVars, selectVars, unblockVars
<1>8. CASE UserReturns
  <2>1. internalSocket /\ frames # <<>> /\ UNCHANGED <<internalSocket, PAUSE, sendVars, selectVars, unblockVars>>
    BY <1>8 DEF UserReturns
  <2>2. Head(frames) # "end"
    <3>1. frames \in Seq(Callback)
      BY DEF TypeOK
    <3>2. Head(frames) = frames[1] /\ 1 \in DOMAIN frames
      BY <2>1, <3>1
    <3>3. Head(frames) \in ToSet(frames)
      BY <3>2 DEF ToSet
    <3> QED BY <2>1, <3>3 DEF ToldAgrees
  <2>3. FinConnect' = FinConnect
    BY <1>8, <2>2 DEF UserReturns
  <2> QED BY <1>1, <2>1, <2>3 DEF connVars, sendVars, selectVars
<1>9. CASE ConnectTo \/ ConnectAtOnce \/ UseThisSocket
  BY <1>9 DEF ConnectTo, ConnectAtOnce, UseThisSocket, NewConnection, DisconnectLater, TypeOK
<1>10. CASE PreSelect
  <2>1. /\ asked' = IF ~internalSocket THEN {}
                    ELSE (CASE FinConnect = 0 -> {"write", "error"}
                            [] FinConnect # 0 /\ PAUSE = 0 -> {"read", "error"}
                            [] OTHER -> {})
                         \cup (IF PendingSend # <<>> THEN {"write"} ELSE {})
        /\ poll' = (internalSocket /\ PAUSE < 0)
        /\ UNCHANGED <<internalSocket, FinConnect, PAUSE, PendingSend>>
    BY <1>10 DEF PreSelect, connVars, sendVars
  <2>2. PAUSE \in {-1, 0, 1} /\ internalSocket
    BY <2>1 DEF TypeOK
  <2>3. ~(PAUSE < 0)
    BY <2>1, <2>2
  <2>4. PAUSE' >= 0
    BY <2>1, <2>2, <2>3
  <2> QED BY <2>1, <2>2, <2>4
<1>11. ~(PostSelect \/ ProcessAsyncSocket \/ Write)
  BY DEF PostSelect, PostSelectIdle, PostSelectError, PostSelectConnect, PostSelectRead, PostSelectResume,
         ProcessAsyncSocket, Write, WriteAll, WriteSome, WriteFails, NothingToWrite, Sending
<1>12. CASE UNCHANGED vars
  BY <1>1, <1>12 DEF vars, sendVars, selectVars
<1> QED
  BY <1>2, <1>3, <1>4, <1>5, <1>6, <1>7, <1>8, <1>9, <1>10, <1>11, <1>12 DEF Next, Handlers, Caller
-----------------------------------------------------------------------------
(* The order of the bytes *)

(* What is pending are the last of the blocks that were accepted: those       *)
(* before have left, of those behind the first of them nothing has.           *)
Tally(pend, acc, s) ==
  /\ Len(pend) <= Len(acc)
  /\ \A i \in 1 .. Len(pend) : pend[i] = acc[Len(acc) - Len(pend) + i]
  /\ \A i \in 1 .. Len(acc) - Len(pend) : s[acc[i]] = Size
  /\ \A i \in 2 .. Len(pend) : s[pend[i]] = 0

(* A block is accepted once, and nothing was sent of one that was not.        *)
Fresh ==
  /\ \A i, j \in DOMAIN accepted : accepted[i] = accepted[j] => i = j
  /\ \A i \in DOMAIN accepted : memory[accepted[i]] # "unused"
  /\ \A b \in Block : memory[b] = "unused" => sent[b] = 0

Followed == internalSocket /\ ~failed /\ ~stale => Tally(PendingSend, accepted, sent)

Ordered(acc, s) == \A i, j \in DOMAIN acc : i < j /\ s[acc[j]] > 0 => s[acc[i]] = Size

OrderInv == Fresh /\ Followed /\ InOrder

(* What the tally says implies that blocks leave in order.                   *)
LEMMA TallyIsOrdered ==
  ASSUME NEW pend \in Seq(Block), NEW acc \in Seq(Block), NEW s, Tally(pend, acc, s)
  PROVE  Ordered(acc, s)
<1> DEFINE p == Len(acc) - Len(pend)
<1>1. /\ Len(pend) \in Nat /\ Len(acc) \in Nat /\ p \in Nat /\ DOMAIN acc = 1 .. Len(acc)
      /\ Len(acc) = p + Len(pend)
  BY DEF Tally
<1>2. /\ \A i \in 1 .. Len(pend) : pend[i] = acc[p + i]
      /\ \A i \in 1 .. p : s[acc[i]] = Size
      /\ \A i \in 2 .. Len(pend) : s[pend[i]] = 0
  BY DEF Tally
<1> HIDE DEF p
<1>3. ASSUME NEW i \in DOMAIN acc, NEW j \in DOMAIN acc, i < j, s[acc[j]] > 0 PROVE s[acc[i]] = Size
  <2>1. CASE i <= p
    <3>1. i \in 1 .. p
      BY <1>1, <2>1
    <3> QED BY <1>2, <3>1
  <2>2. CASE ~(i <= p)
    <3> DEFINE k == j - p
    <3>1. k \in 2 .. Len(pend) /\ k \in 1 .. Len(pend) /\ p + k = j
      BY <1>1, <1>3, <2>2
    <3> HIDE DEF k
    <3>2. s[acc[j]] = 0
      BY <1>2, <3>1
    <3> QED BY <1>3, <3>2
  <2> QED BY <2>1, <2>2
<1> QED BY <1>3 DEF Ordered

LEMMA InOrderIsOrdered == InOrder <=> (~failed /\ ~stale => Ordered(accepted, sent))
BY DEF InOrder, Ordered

LEMMA InitOrdered == Init => OrderInv
BY DEF Init, OrderInv, Fresh, Followed, InOrder

(* A step that takes no bytes and clears or leaves the list.                  *)
LEMMA QuietOrdered ==
  ASSUME TypeOK, OrderInv, UNCHANGED <<sent, accepted, failed, stale>>,
         internalSocket' => internalSocket /\ PendingSend' = PendingSend,
         \A b \in Block : memory[b] # "unused" <=> memory'[b] # "unused"
  PROVE  OrderInv'
<1>1. \A i \in DOMAIN accepted : accepted[i] \in Block
  BY DEF TypeOK
<1>2. Fresh'
  BY <1>1 DEF OrderInv, Fresh
<1>3. Followed'
  BY DEF OrderInv, Followed
<1>4. InOrder'
  BY DEF OrderInv, InOrder
<1> QED BY <1>2, <1>3, <1>4 DEF OrderInv

(* Clearing the list of pending sends makes no block used or unused.         *)
LEMMA ClearIsQuiet ==
  ASSUME TypeOK, PendingOwned, ClearPendingSend
  PROVE  \A b \in Block : memory[b] # "unused" <=> memory'[b] # "unused"
BY DEF ClearPendingSend, Freed, PendingOwned

(* A block that SendTo takes at once or queues comes after all of the others. *)
LEMMA SendOrdered ==
  ASSUME TypeOK, PendingOwned, OrderInv, NEW c \in Caller, SendTo(c) PROVE OrderInv'
<1>1. PICK b \in Block, ownership \in Ownership :
        \/ SendOnClosedSocket(c, b, ownership)
        \/ SendQueued(c, b, ownership)
        \/ \E k \in 0 .. Size : SendAtOnce(c, b, ownership, k)
        \/ SendFails(c, b, ownership)
  BY DEF SendTo
<1>2. memory[b] = "unused" /\ sent[b] = 0 /\ \A i \in DOMAIN accepted : accepted[i] # b
  <2>1. memory[b] = "unused"
    BY <1>1 DEF SendOnClosedSocket, SendQueued, SendAtOnce, SendFails
  <2> QED BY <2>1 DEF OrderInv, Fresh
<1>3. /\ memory \in [Block -> Memory] /\ sent \in [Block -> 0 .. Size] /\ Size \in Nat \ {0}
      /\ accepted \in Seq(Block) /\ PendingSend \in Seq(Block)
      /\ \A i \in DOMAIN accepted : accepted[i] \in Block
  BY AsyncSocketAssumption DEF TypeOK
<1>4. memory'[b] # "unused" /\ \A o \in Block : o # b => memory'[o] = memory[o]
  <2>1. Kept(b, ownership)[b] # "unused" /\ \A o \in Block : o # b => Kept(b, ownership)[o] = memory[o]
    BY <1>3 DEF Kept
  <2> QED BY <1>1, <1>3, <2>1 DEF SendOnClosedSocket, SendQueued, SendAtOnce, SendFails
<1>5. ASSUME UNCHANGED <<sent, accepted>> PROVE Fresh'
  BY <1>2, <1>3, <1>4, <1>5 DEF OrderInv, Fresh
<1>6. CASE SendOnClosedSocket(c, b, ownership)
  <2>1. ~internalSocket' /\ UNCHANGED <<sent, accepted, failed, stale>>
    BY <1>6 DEF SendOnClosedSocket, connVars, history
  <2> QED BY <1>5, <2>1 DEF OrderInv, Followed, InOrder
<1>7. CASE SendFails(c, b, ownership)
  <2>1. failed' /\ UNCHANGED <<sent, accepted>>
    BY <1>7 DEF SendFails
  <2> QED BY <1>5, <2>1 DEF OrderInv, Followed, InOrder
<1> DEFINE n == Len(accepted)
           p == Len(PendingSend)
<1>8. ASSUME accepted' = Append(accepted, b)
      PROVE  /\ accepted' \in Seq(Block) /\ Len(accepted') = n + 1 /\ n \in Nat
             /\ DOMAIN accepted = 1 .. n /\ DOMAIN accepted' = 1 .. n + 1
             /\ accepted'[n + 1] = b /\ \A i \in 1 .. n : accepted'[i] = accepted[i]
  BY <1>3, <1>8
<1>9. ASSUME accepted' = Append(accepted, b),
             \A o \in Block : o # b => sent'[o] = sent[o]
      PROVE  Fresh'
  <2> HIDE DEF n
  <2>1. \A i, j \in DOMAIN accepted' : accepted'[i] = accepted'[j] => i = j
    BY <1>2, <1>8, <1>9 DEF OrderInv, Fresh
  <2>2. \A i \in DOMAIN accepted' : memory'[accepted'[i]] # "unused"
    <3>1. \A i \in 1 .. n : accepted[i] # b /\ accepted[i] \in Block /\ memory[accepted[i]] # "unused"
      BY <1>2, <1>3, <1>8, <1>9 DEF OrderInv, Fresh
    <3>3. \A i \in 1 .. n : memory'[accepted'[i]] # "unused"
      BY <1>4, <1>8, <1>9, <3>1
    <3>2. ASSUME NEW i \in 1 .. n + 1 PROVE i \in 1 .. n \/ i = n + 1
      BY <1>8, <1>9
    <3> QED BY <1>4, <1>8, <1>9, <3>2, <3>3
  <2>3. \A o \in Block : memory'[o] = "unused" => sent'[o] = 0
    BY <1>4, <1>9 DEF OrderInv, Fresh
  <2> QED BY <2>1, <2>2, <2>3 DEF Fresh
<1>10. CASE SendQueued(c, b, ownership)
  <2>1. /\ accepted' = Append(accepted, b) /\ PendingSend' = Append(PendingSend, b)
        /\ sent' = sent /\ UNCHANGED <<internalSocket, failed, stale>>
    BY <1>10 DEF SendQueued, connVars
  <2>2. Fresh'
    BY <1>9, <2>1
  <2>3. /\ PendingSend' \in Seq(Block) /\ Len(PendingSend') = p + 1 /\ p \in Nat
        /\ PendingSend'[p + 1] = b /\ \A i \in 1 .. p : PendingSend'[i] = PendingSend[i]
    BY <1>3, <2>1
  <2> HIDE DEF n, p
  <2>4. internalSocket
    BY <1>10 DEF SendQueued
  <2>5. ASSUME ~failed', ~stale' PROVE Tally(PendingSend', accepted', sent')
    <3>1. /\ p <= n /\ \A i \in 1 .. p : PendingSend[i] = accepted[n - p + i]
          /\ \A i \in 1 .. n - p : sent[accepted[i]] = Size
          /\ \A i \in 2 .. p : sent[PendingSend[i]] = 0
      BY <2>1, <2>4, <2>5 DEF OrderInv, Followed, Tally, n, p
    <3>2. n \in Nat /\ p \in Nat /\ Len(accepted') - Len(PendingSend') = n - p /\ Len(PendingSend') <= Len(accepted')
      <4>1. Len(accepted') = n + 1 /\ n \in Nat
        BY <1>8, <2>1
      <4>2. Len(PendingSend') = p + 1 /\ p \in Nat /\ p <= n
        BY <2>3, <3>1
      <4> QED BY <4>1, <4>2
    <3>3. ASSUME NEW i \in 1 .. p + 1 PROVE PendingSend'[i] = accepted'[n - p + i]
      <4>1. CASE i \in 1 .. p
        <5>1. n - p + i \in 1 .. n
          BY <3>1, <3>2, <4>1
        <5> QED BY <1>8, <2>1, <2>3, <3>1, <4>1, <5>1
      <4>2. CASE i = p + 1
        <5>1. n - p + i = n + 1
          BY <3>2, <4>2
        <5> QED BY <1>8, <2>1, <2>3, <4>2, <5>1
      <4> QED BY <3>2, <4>1, <4>2
    <3>4. ASSUME NEW i \in 1 .. n - p PROVE sent'[accepted'[i]] = Size
      <4>1. i \in 1 .. n
        BY <3>2
      <4> QED BY <1>8, <2>1, <3>1, <4>1
    <3>5. ASSUME NEW i \in 2 .. p + 1 PROVE sent'[PendingSend'[i]] = 0
      <4>1. CASE i \in 2 .. p
        <5>1. i \in 1 .. p
          BY <3>2, <4>1
        <5> QED BY <2>1, <2>3, <3>1, <4>1, <5>1
      <4>2. CASE i = p + 1
        BY <1>2, <2>1, <2>3, <4>2
      <4> QED BY <3>2, <4>1, <4>2
    <3>6. Len(accepted') - Len(PendingSend') + 0 = n - p /\ Len(PendingSend') = p + 1
      BY <2>3, <3>2
    <3> QED BY <3>2, <3>3, <3>4, <3>5, <3>6 DEF Tally
  <2>6. Followed'
    BY <2>5 DEF Followed
  <2>7. InOrder'
    <3>1. accepted' \in Seq(Block) /\ PendingSend' \in Seq(Block)
      BY <1>8, <2>1, <2>3
    <3>2. ~failed' /\ ~stale' => Ordered(accepted', sent')
      BY <2>5, <3>1, TallyIsOrdered
    <3> QED BY <3>2 DEF InOrder, Ordered
  <2> QED BY <2>2, <2>6, <2>7 DEF OrderInv
<1>11. ASSUME NEW k \in 0 .. Size, SendAtOnce(c, b, ownership, k) PROVE OrderInv'
  <2>1. /\ accepted' = Append(accepted, b) /\ sent' = [sent EXCEPT ![b] = k]
        /\ UNCHANGED <<internalSocket, failed, stale>> /\ PendingSend = <<>> /\ internalSocket
    BY <1>11 DEF SendAtOnce, MustQueue, connVars
  <2>2. sent'[b] = k /\ \A o \in Block : o # b => sent'[o] = sent[o]
    BY <1>3, <2>1
  <2>3. Fresh'
    BY <1>9, <2>1, <2>2
  <2>4. IF k = Size THEN PendingSend' = <<>> ELSE PendingSend' = <<b>>
    BY <1>11, <2>1 DEF SendAtOnce
  <2> HIDE DEF n
  <2>5. ASSUME ~failed', ~stale' PROVE Tally(PendingSend', accepted', sent')
    <3>1. \A i \in 1 .. n : sent[accepted[i]] = Size
      BY <1>8, <2>1, <2>5 DEF OrderInv, Followed, Tally, n
    <3>2. \A i \in 1 .. n : accepted'[i] = accepted[i] /\ sent'[accepted'[i]] = Size
      BY <1>2, <1>3, <1>8, <2>1, <2>2, <3>1
    <3>3. CASE k = Size
      <4>1. Len(PendingSend') = 0
        BY <2>4, <3>3
      <4>2. \A i \in 1 .. n + 1 : sent'[accepted'[i]] = Size
        <5>1. ASSUME NEW i \in 1 .. n + 1 PROVE i \in 1 .. n \/ i = n + 1
          BY <1>8, <2>1
        <5> QED BY <1>8, <2>1, <2>2, <3>2, <3>3, <5>1
      <4> QED BY <1>8, <2>1, <4>1, <4>2 DEF Tally
    <3>4. CASE k # Size
      <4>1. Len(PendingSend') = 1 /\ PendingSend'[1] = b
        BY <2>4, <3>4
      <4>2. Len(accepted') = n + 1 /\ n \in Nat /\ accepted'[n + 1] = b
        BY <1>8, <2>1
      <4>3. n + 1 - 1 = n
        BY <4>2
      <4>4. ASSUME NEW i \in 1 .. 1 PROVE PendingSend'[i] = accepted'[n + i]
        BY <4>1, <4>2
      <4> QED BY <3>2, <4>1, <4>2, <4>3, <4>4 DEF Tally
    <3> QED BY <3>3, <3>4
  <2>6. Followed'
    BY <2>5 DEF Followed
  <2>7. InOrder'
    <3>1. accepted' \in Seq(Block) /\ PendingSend' \in Seq(Block)
      <4>1. <<>> \in Seq(Block) /\ <<b>> \in Seq(Block)
        OBVIOUS
      <4> QED BY <1>8, <2>1, <2>4, <4>1
    <3>2. ~failed' /\ ~stale' => Ordered(accepted', sent')
      BY <2>5, <3>1, TallyIsOrdered
    <3> QED BY <3>2 DEF InOrder, Ordered
  <2> QED BY <2>3, <2>6, <2>7 DEF OrderInv
<1> QED BY <1>1, <1>6, <1>7, <1>10, <1>11

(* Bytes leave from the head of the list.                                     *)
LEMMA WriteOrdered ==
  ASSUME TypeOK, PendingOwned, PendingOnce, OrderInv, NEW k \in 0 .. Len(PendingSend),
         NEW m \in 0 .. Size - 1, WriteSome(k, m) \/ WriteAll
  PROVE  OrderInv'
<1> DEFINE n == Len(accepted)
           p == Len(PendingSend)
<1>1. /\ sent \in [Block -> 0 .. Size] /\ Size \in Nat \ {0}
      /\ accepted \in Seq(Block) /\ PendingSend \in Seq(Block) /\ n \in Nat /\ p \in Nat
      /\ DOMAIN accepted = 1 .. n /\ DOMAIN PendingSend = 1 .. p
      /\ \A i \in 1 .. n : accepted[i] \in Block
      /\ \A i \in 1 .. p : PendingSend[i] \in Block
  BY AsyncSocketAssumption DEF TypeOK
<1>2. \A i \in 1 .. p : PendingSend[i] \in ToSet(PendingSend)
  BY <1>1 DEF ToSet
<1>3. UNCHANGED <<accepted, internalSocket, stale, failed>> /\ internalSocket
  BY DEF WriteSome, WriteAll, Sending, MayWrite, connVars
<1>4. /\ \A i, j \in 1 .. n : accepted[i] = accepted[j] => i = j
      /\ \A i, j \in 1 .. p : PendingSend[i] = PendingSend[j] => i = j
      /\ \A i \in 1 .. n : memory[accepted[i]] # "unused"
      /\ \A b \in Block : memory[b] = "unused" => sent[b] = 0 /\ b \notin ToSet(PendingSend)
  BY <1>1 DEF OrderInv, Fresh, PendingOnce, PendingOwned
<1>5. ASSUME ~failed, ~stale
      PROVE  /\ p <= n /\ \A i \in 1 .. p : PendingSend[i] = accepted[n - p + i]
             /\ \A i \in 1 .. n - p : sent[accepted[i]] = Size
             /\ \A i \in 2 .. p : sent[PendingSend[i]] = 0
  BY <1>3, <1>5 DEF OrderInv, Followed, Tally
<1>6. ASSUME \A b \in Block : memory'[b] = memory[b] \/ memory'[b] = "done",
             \A b \in Block : b \notin ToSet(PendingSend) => sent'[b] = sent[b]
      PROVE  Fresh'
  <2>1. \A i, j \in DOMAIN accepted' : accepted'[i] = accepted'[j] => i = j
    BY <1>1, <1>3, <1>4
  <2>2. \A i \in DOMAIN accepted' : memory'[accepted'[i]] # "unused"
    BY <1>1, <1>3, <1>4, <1>6
  <2>3. \A b \in Block : memory'[b] = "unused" => sent'[b] = 0
    BY <1>4, <1>6
  <2> QED BY <2>1, <2>2, <2>3 DEF Fresh
<1>7. ASSUME PendingSend' \in Seq(Block), ~failed /\ ~stale => Tally(PendingSend', accepted, sent')
      PROVE  Followed' /\ InOrder'
  <2>1. ~failed /\ ~stale => Ordered(accepted, sent')
    BY <1>1, <1>7, TallyIsOrdered
  <2>2. InOrder'
    BY <1>3, <2>1 DEF InOrder, Ordered
  <2> QED BY <1>3, <1>7, <2>2 DEF Followed
<1>8. CASE WriteAll
  <2>1. /\ sent' = [b \in Block |-> IF b \in ToSet(PendingSend) THEN Size ELSE sent[b]]
        /\ PendingSend' = <<>> /\ memory' = Freed(ToSet(PendingSend))
    BY <1>8 DEF WriteAll, ClearPendingSend
  <2>2. \A b \in Block : sent'[b] = IF b \in ToSet(PendingSend) THEN Size ELSE sent[b]
    BY <2>1
  <2>3. Fresh'
    BY <1>6, <2>1, <2>2 DEF Freed
  <2> HIDE DEF n, p
  <2>4. ASSUME ~failed, ~stale PROVE \A i \in 1 .. n : sent'[accepted[i]] = Size
    <3> TAKE i \in 1 .. n
    <3>1. CASE i \in 1 .. n - p
      BY <1>1, <1>5, <2>2, <2>4, <3>1
    <3>2. CASE i > n - p
      <4> DEFINE j == i - (n - p)
      <4>1. j \in 1 .. p /\ n - p + j = i
        BY <1>1, <1>5, <2>4, <3>2
      <4> HIDE DEF j
      <4>2. accepted[i] \in ToSet(PendingSend)
        BY <1>2, <1>5, <2>4, <4>1
      <4> QED BY <1>1, <2>2, <4>2
    <3>3. i \in 1 .. n - p \/ i > n - p
      BY <1>1, <1>5, <2>4
    <3> QED BY <3>1, <3>2, <3>3
  <2>5. ~failed /\ ~stale => Tally(PendingSend', accepted, sent')
    <3>1. Len(PendingSend') = 0 /\ Len(accepted) - 0 = n
      BY <1>1, <2>1 DEF n
    <3> QED BY <1>1, <2>4, <3>1 DEF Tally
  <2>6. PendingSend' \in Seq(Block)
    BY <2>1
  <2> QED BY <1>7, <2>3, <2>5, <2>6 DEF OrderInv
<1>9. CASE WriteSome(k, m)
  <2> DEFINE next == PendingSend[k + 1]
  <2>1. /\ k < p /\ m >= sent[next]
        /\ sent' = [b \in Block |-> CASE b \in Gone(k) -> Size [] b = next -> m [] OTHER -> sent[b]]
        /\ PendingSend' = SubSeq(PendingSend, k + 1, p) /\ memory' = Freed(Gone(k))
    BY <1>9 DEF WriteSome
  <2> HIDE DEF next
  <2>2. k \in Nat /\ k + 1 \in 1 .. p /\ p - k \in Nat
    BY SMTT(30), <1>1, <2>1
  <2>3. Gone(k) = {PendingSend[i] : i \in 1 .. k}
    <3>1. DOMAIN SubSeq(PendingSend, 1, k) = 1 .. k /\ \A i \in 1 .. k : SubSeq(PendingSend, 1, k)[i] = PendingSend[i]
      BY <1>1, <2>2
    <3> QED BY <3>1 DEF Gone, ToSet
  <2>4. /\ PendingSend' \in Seq(Block) /\ Len(PendingSend') = p - k
        /\ \A i \in 1 .. p - k : PendingSend'[i] = PendingSend[k + i]
    <3> DEFINE e == k + 1
    <3>1. e \in 1 .. p + 1 /\ p - e + 1 = p - k /\ p = Len(PendingSend)
      BY <1>1, <2>2
    <3>2. e \in Nat /\ p \in Nat
      BY <1>1, <2>2
    <3>3. \A i \in 1 .. p - k : e + i - 1 = k + i
      BY <2>2
    <3>4. PendingSend' = SubSeq(PendingSend, e, p)
      BY <2>1
    <3> HIDE DEF e, p
    <3>5. /\ SubSeq(PendingSend, e, p) \in Seq(Block)
          /\ Len(SubSeq(PendingSend, e, p)) = p - e + 1
          /\ \A i \in 1 .. p - e + 1 : SubSeq(PendingSend, e, p)[i] = PendingSend[e + i - 1]
      BY <1>1, <3>1, <3>2, SubSeqProperties
    <3> QED BY <3>1, <3>3, <3>4, <3>5
  <2>5. next = PendingSend[k + 1] /\ next \in ToSet(PendingSend) /\ Gone(k) \subseteq ToSet(PendingSend)
    <3>1. \A i \in 1 .. k : i \in 1 .. p
      BY <1>1, <2>2
    <3> QED BY <1>2, <2>2, <2>3, <3>1 DEF next
  <2>6. next \notin Gone(k)
    <3>1. ASSUME NEW i \in 1 .. k PROVE PendingSend[i] # next
      <4>1. i \in 1 .. p /\ i # k + 1
        BY SMTT(30), <1>1, <2>2
      <4> QED BY <1>4, <2>2, <2>5, <4>1
    <3> QED BY <2>3, <3>1
  <2>7. \A b \in Block : sent'[b] = IF b \in Gone(k) THEN Size ELSE IF b = next THEN m ELSE sent[b]
    <3> TAKE b \in Block
    <3>1. sent'[b] = CASE b \in Gone(k) -> Size [] b = next -> m [] OTHER -> sent[b]
      BY <2>1, Zenon
    <3> QED BY <3>1, <2>6
  <2> HIDE DEF n, p
  <2>8. Fresh'
    BY <1>6, <2>1, <2>7, <2>5 DEF Freed
  <2>9. ASSUME ~failed, ~stale PROVE Tally(PendingSend', accepted, sent')
    <3>1. /\ p <= n /\ \A i \in 1 .. p : PendingSend[i] = accepted[n - p + i]
          /\ \A i \in 1 .. n - p : sent[accepted[i]] = Size
          /\ \A i \in 2 .. p : sent[PendingSend[i]] = 0
      BY <1>5, <2>9
    <3>2. /\ Len(PendingSend') <= Len(accepted) /\ Len(accepted) = n
          /\ n - (p - k) = (n - p) + k /\ Len(accepted) - Len(PendingSend') = (n - p) + k
      BY <1>1, <2>2, <2>4, <3>1 DEF n
    <3>3. ASSUME NEW i \in 1 .. p - k PROVE PendingSend'[i] = accepted[(n - p) + k + i]
      <4>1. k + i \in 1 .. p /\ (n - p) + (k + i) = (n - p) + k + i
        BY <1>1, <2>2
      <4> QED BY <2>4, <3>1, <4>1
    <3>4. ASSUME NEW i \in 1 .. (n - p) + k PROVE sent'[accepted[i]] = Size
      <4>1. accepted[i] \in Block /\ i \in 1 .. n
        BY <1>1, <2>2, <3>1
      <4>2. CASE i \in 1 .. n - p
        <5>1. (n - p) + (k + 1) \in 1 .. n /\ (n - p) + (k + 1) # i
          <6>1. n \in Nat /\ p \in Nat /\ k \in Nat /\ k + 1 <= p /\ p <= n /\ i \in Nat /\ i <= n - p
            BY <1>1, <2>2, <3>1, <4>2
          <6> QED BY ONLY <6>1
        <5>2. accepted[i] # next
          BY <1>4, <2>2, <2>5, <3>1, <4>1, <5>1
        <5> QED BY <2>7, <3>1, <4>1, <4>2, <5>2
      <4>3. CASE i > n - p
        <5> DEFINE j == i - (n - p)
        <5>1. j \in 1 .. k /\ j \in 1 .. p /\ (n - p) + j = i
          <6>1. /\ n \in Nat /\ p \in Nat /\ k \in Nat /\ k + 1 <= p /\ p <= n
                /\ i \in Nat /\ i > n - p /\ i <= (n - p) + k
            BY <1>1, <2>2, <3>1, <4>3
          <6> QED BY ONLY <6>1
        <5> HIDE DEF j
        <5>2. accepted[i] \in Gone(k)
          BY <2>3, <3>1, <5>1
        <5> QED BY <2>7, <4>1, <5>2
      <4>4. i \in 1 .. n - p \/ i > n - p
        BY <1>1, <3>1
      <4> QED BY <4>2, <4>3, <4>4
    <3>5. ASSUME NEW i \in 2 .. p - k PROVE sent'[PendingSend'[i]] = 0
      <4> DEFINE j == k + i
      <4>1. j \in 2 .. p /\ j \in 1 .. p /\ i \in 1 .. p - k /\ j > k + 1
        BY <1>1, <2>2
      <4>2. PendingSend'[i] = PendingSend[j]
        BY <2>4, <4>1
      <4> HIDE DEF j
      <4>3. PendingSend[j] # next
        BY <1>4, <2>2, <2>5, <4>1
      <4>4. \A a \in 1 .. k : a \in 1 .. p /\ a # j
        BY <1>1, <2>2, <4>1
      <4>5. PendingSend[j] \notin Gone(k)
        BY <1>4, <2>3, <4>1, <4>4
      <4> QED BY <1>1, <2>7, <3>1, <4>1, <4>2, <4>3, <4>5
    <3> QED BY <2>4, <3>2, <3>3, <3>4, <3>5 DEF Tally
  <2> QED BY <1>7, <2>4, <2>8, <2>9 DEF OrderInv
<1> QED BY <1>8, <1>9

(* A new connection begins with an empty list, or with one that is stale.     *)
LEMMA NewOrdered ==
  ASSUME TypeOK, OrderInv, NewConnection PROVE OrderInv'
<1>1. /\ accepted' = <<>> /\ UNCHANGED <<PendingSend, sent, memory>> /\ stale' = (PendingSend # <<>>)
  BY DEF NewConnection
<1>2. Fresh'
  BY <1>1 DEF OrderInv, Fresh
<1>3. Followed'
  <2>1. ASSUME ~stale' PROVE Tally(PendingSend', accepted', sent')
    <3>1. PendingSend' = <<>>
      BY <1>1, <2>1
    <3> QED BY <1>1, <3>1 DEF Tally
  <2> QED BY <2>1 DEF Followed
<1>4. InOrder'
  BY <1>1 DEF InOrder
<1> QED BY <1>2, <1>3, <1>4 DEF OrderInv

LEMMA StepOrdered == TypeOK /\ PendingOwned /\ PendingOnce /\ OrderInv /\ [Next]_vars => OrderInv'
<1> SUFFICES ASSUME TypeOK, PendingOwned, PendingOnce, OrderInv, [Next]_vars PROVE OrderInv'
  OBVIOUS
<1>1. ASSUME UNCHANGED <<sent, accepted, failed, stale, memory, PendingSend, internalSocket>> PROVE OrderInv'
  BY <1>1, QuietOrdered
<1>2. ASSUME UNCHANGED <<sent, accepted, failed, stale>>, Disconnect PROVE OrderInv'
  <2>1. CASE internalSocket
    <3>1. ClearPendingSend /\ ~internalSocket'
      BY <1>2, <2>1 DEF Disconnect, CloseAndTell
    <3> QED BY <1>2, <3>1, ClearIsQuiet, QuietOrdered
  <2>2. CASE ~internalSocket
    BY <1>1, <1>2, <2>2 DEF Disconnect
  <2> QED BY <2>1, <2>2
<1>3. ASSUME NEW c \in Caller, Resume(c) \/ ForceUnBlockChain(c) PROVE OrderInv'
  BY <1>1, <1>3 DEF Resume, ForceUnBlockChain, connVars, sendVars, history
<1>4. CASE TimerDisconnect \/ UserDisconnects
  BY <1>2, <1>4 DEF TimerDisconnect, UserDisconnects
<1>5. CASE UserPauses \/ UserReturns \/ PreSelect \/ NothingToWrite
  BY <1>1, <1>5 DEF UserPauses, UserReturns, PreSelect, NothingToWrite, connVars, sendVars, history
<1>6. CASE ConnectTo \/ ConnectAtOnce \/ UseThisSocket
  BY <1>6, NewOrdered DEF ConnectTo, ConnectAtOnce, UseThisSocket
<1>7. CASE PostSelect
  <2>1. PICK ready \in SUBSET Set : \/ PostSelectIdle(ready)
                                    \/ PostSelectError(ready)
                                    \/ PostSelectConnect(ready)
                                    \/ PostSelectRead(ready)
                                    \/ PostSelectResume(ready)
    BY <1>7 DEF PostSelect
  <2>2. CASE PostSelectError(ready)
    <3>1. UNCHANGED <<sent, accepted, failed, stale, memory>> /\ ~internalSocket'
      BY <2>2 DEF PostSelectError, Selected, CloseAndTell
    <3> QED BY <3>1, QuietOrdered
  <2>3. CASE PostSelectIdle(ready)
    BY <1>1, <2>3 DEF PostSelectIdle, connVars, sendVars, history
  <2>4. CASE PostSelectConnect(ready) \/ PostSelectRead(ready) \/ PostSelectResume(ready)
    BY <1>1, <2>4 DEF PostSelectConnect, PostSelectRead, PostSelectResume, Selected, connVars
  <2> QED BY <2>1, <2>2, <2>3, <2>4
<1>8. CASE ProcessAsyncSocket
  <2>1. UNCHANGED <<sent, accepted, failed, stale>>
    BY <1>8 DEF ProcessAsyncSocket
  <2>2. CASE ClearPendingSend /\ CloseAndTell
    <3>1. ~internalSocket'
      BY <2>2 DEF CloseAndTell
    <3> QED BY <2>1, <2>2, <3>1, ClearIsQuiet, QuietOrdered
  <2> QED BY <1>1, <1>2, <1>8, <2>1, <2>2 DEF ProcessAsyncSocket
<1>9. CASE WriteFails
  <2>1. failed' /\ UNCHANGED <<sent, accepted>> /\ ClearPendingSend
    BY <1>9 DEF WriteFails, Sending
  <2>2. Fresh'
    <3>1. \A i \in DOMAIN accepted : accepted[i] \in Block
      BY DEF TypeOK
    <3>2. \A b \in Block : memory[b] # "unused" <=> memory'[b] # "unused"
      BY <2>1, ClearIsQuiet
    <3> QED BY <2>1, <3>1, <3>2 DEF OrderInv, Fresh
  <2> QED BY <2>1, <2>2 DEF OrderInv, Followed, InOrder
<1>10. CASE WriteAll
  <2>1. 0 \in 0 .. Len(PendingSend) /\ 0 \in 0 .. Size - 1
    BY AsyncSocketAssumption DEF TypeOK
  <2> QED BY <1>10, <2>1, WriteOrdered
<1>11. CASE UNCHANGED vars
  BY <1>1, <1>11 DEF vars, connVars, sendVars, history
<1> QED
  BY <1>3, <1>4, <1>5, <1>6, <1>7, <1>8, <1>9, <1>10, <1>11, SendOrdered, WriteOrdered
     DEF Next, Handlers, Write, Caller
-----------------------------------------------------------------------------
(* IInv is an invariant of every run of the socket, fair or not. *)
THEOREM InductiveInvariant == Spec => []IInv
<1>1. Init => IInv
  BY InitTypeOK, InitOwned, InitAgreed DEF IInv, Owned, Agreed
<1>2. IInv /\ [Next]_vars => IInv'
  BY StepTypeOK, StepOwned, StepAgreed DEF IInv, Owned, Agreed
<1> QED BY <1>1, <1>2, PTL DEF Spec

(* Every variable keeps its type. *)
THEOREM TypeCorrect == Spec => []TypeOK
<1>1. IInv => TypeOK
  BY DEF IInv
<1> QED BY <1>1, InductiveInvariant, PTL

(* No buffer leaks, is freed twice, or is read after its owner freed it.     *)
THEOREM BuffersOwned == Spec => []PendingOwned
<1>1. IInv => PendingOwned
  BY DEF IInv
<1> QED BY <1>1, InductiveInvariant, PTL

(* OnConnect comes once, OnDisconnect once after it, before the module is    *)
(* used for the next connection.                                            *)
THEOREM CallbacksOnce == Spec => []ToldOnce
<1>1. IInv => ToldOnce
  BY DEF IInv
<1> QED BY <1>1, InductiveInvariant, PTL

(* The bytes of one connection leave in the order SendTo was called in,       *)
(* whether a block was taken at once, queued, or sent in pieces.              *)
THEOREM BytesInOrder == Spec => []InOrder
<1>1. Init => OrderInv
  BY InitOrdered
<1>2. IInv /\ OrderInv /\ [Next]_vars => OrderInv'
  BY StepOrdered DEF IInv
<1>3. OrderInv => InOrder
  BY DEF OrderInv
<1> QED BY <1>1, <1>2, <1>3, InductiveInvariant, PTL DEF Spec

(* select never sleeps on a socket that has something to send, to read or to  *)
(* resume that it does not wait for, unless somebody is about to wake it.     *)
THEOREM NothingMissed == Spec => []Watched
<1>1. Init => Watched
  BY DEF Init, Watched
<1>2. IInv /\ Watched /\ [Next]_vars => Watched'
  BY StepWatched DEF IInv
<1> QED BY <1>1, <1>2, InductiveInvariant, PTL DEF Spec
=============================================================================

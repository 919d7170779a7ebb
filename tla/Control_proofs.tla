--------------------------- MODULE Control_proofs ---------------------------
(* Proofs about Control, for any players, ini files and requests. *)
EXTENDS Control, SequenceTheorems, FiniteSetTheorems, TLAPS

(* While the player object is replaced, the chain's thread waits for that, or *)
(* the user chose the player since the request came.                         *)
MpInv ==
  /\ mp \in {"none", "freed", "empty"} \cup Player
  /\ gui \in [at : {"pump", "create", "load"}, player : Player \cup {NULL}, chain : BOOLEAN]
  /\ sent \in Player \cup {NULL}
  /\ {"chosen", "retitled", "holds"} \subseteq DOMAIN history
  /\ gui.at = "pump" => gui = Pump
  /\ mp = "freed" => gui.at = "create"
  /\ gui.at # "pump" => /\ gui.player \in Player
                        /\ gui.chain => sent # NULL
                        /\ ~gui.chain => history.chosen
  /\ NoFreedUse

(* A step that leaves the player object, the dialog's thread and what it is   *)
(* asked alone keeps the invariant, if the circumstances are not forgotten.  *)
LEMMA MpKept ==
  ASSUME MpInv, ~crashed, UNCHANGED <<mp, gui, sent>>,
         {"chosen", "retitled", "holds"} \subseteq DOMAIN history',
         history.chosen => history'.chosen,
         crashed' => mp = "none" \/ history'.chosen \/ history'.retitled
  PROVE  MpInv'
BY DEF MpInv, NoFreedUse

(* The chain's thread keeps it: when it uses an object that is not there, no  *)
(* object was there before or the user is about to replace it.               *)
LEMMA ChainKeepsMp == ASSUME MpInv, ChainStep PROVE MpInv'
<1> USE ControlAssumption
<1>1. CASE UseFreed
  BY <1>1 DEF UseFreed, Call, Exists, MpInv, NoFreedUse, chainVars, requestVars, mpVars, guiVars
<1>2. CASE UPnPResponseGeneric
  BY <1>2, MpKept DEF UPnPResponseGeneric, Call, MpInv, chainVars, requestVars, mpVars, guiVars
<1>3. CASE CheckControlMenu
  <2>1. gui = Pump \/ (~gui.chain /\ history.chosen)
    BY <1>3 DEF CheckControlMenu, Call, MpInv
  <2>2. /\ sent' \in Player \cup {NULL}
        /\ UNCHANGED <<mp, gui, crashed>> /\ ~crashed
        /\ history' = [history EXCEPT !.touched = TRUE, !.seen = @ \cup {}]
    BY <1>3 DEF CheckControlMenu, Call, mpVars, Touch
  <2>3. QED
    BY <2>1, <2>2 DEF MpInv, Pump, NoFreedUse
<1>4. ASSUME mpGetHandle \/ SendHttp \/ SendWindow \/ FromCache \/ mpOpen \/ MRSet \/ IfPlaying
             \/ ComputeMetadata \/ UPnPResponse_Error
      PROVE  MpInv'
  <2>1. UNCHANGED <<mp, gui, sent, crashed>> /\ ~crashed
    BY ZenonT(40), <1>4 DEF mpGetHandle, SendHttp, SendWindow, FromCache, mpOpen, MRSet, IfPlaying,
                ComputeMetadata, MakeMetadata, TakeMetadata, UPnPResponse_Error, Call, mpVars,
                guiVars, historyVars
  <2>2. /\ DOMAIN history' = DOMAIN history
        /\ "chosen" \in DOMAIN history => history'.chosen = history.chosen
    BY <1>4 DEF mpGetHandle, SendHttp, SendWindow, FromCache, mpOpen, MRSet, IfPlaying,
                ComputeMetadata, MakeMetadata, TakeMetadata, UPnPResponse_Error, Touch, historyVars
  <2>3. QED
    BY <2>1, <2>2, MpKept DEF MpInv
<1>5. QED
  BY <1>1, <1>2, <1>3, <1>4 DEF ChainStep

(* A request finds the player object whole, or being replaced, which its      *)
(* history then says.                                                        *)
LEMMA RequestKeepsMp ==
  ASSUME MpInv, NEW r \in Request, UPnPProcessHTTPPacket(r) PROVE MpInv'
<1>1. /\ UNCHANGED <<mp, gui, sent, crashed>> /\ ~crashed
      /\ \E players : history' = Fresh(players, gui # Pump)
  BY DEF UPnPProcessHTTPPacket, mpVars, guiVars
<1>2. PICK players : history' = Fresh(players, gui # Pump)
  BY <1>1
<1>3. /\ {"chosen", "retitled", "holds"} \subseteq DOMAIN history'
      /\ history'.chosen = (gui # Pump)
  BY <1>2 DEF Fresh
<1>4. gui.at # "pump" => gui # Pump
  BY DEF Pump
<1>5. QED
  BY <1>1, <1>3, <1>4 DEF MpInv, NoFreedUse

(* The dialog's thread keeps it: it replaces one player object at a time.     *)
LEMMA GuiKeepsMp ==
  ASSUME MpInv, GuiStep \/ \E p \in Player : ChooseByHand(p) \/ PlayerChanges(p)
  PROVE  MpInv'
<1> USE ControlAssumption DEF chainVars, requestVars, mpVars, guiVars, historyVars
<1>1. CASE ChooseForChain
  BY <1>1 DEF ChooseForChain, MpInv, NoFreedUse, Pump
<1>2. CASE mpCreate
  BY <1>2 DEF mpCreate, MpInv, NoFreedUse, Pump
<1>3. CASE mpLoadDataINI
  BY <1>3 DEF mpLoadDataINI, MpInv, NoFreedUse, Pump
<1>4. CASE wmCopyData
  <2>1. /\ UNCHANGED <<mp, gui, sent, crashed>> /\ ~crashed
        /\ \/ history' = history
           \/ history' = [history EXCEPT !.retitled = @ \/ history.holds]
    BY <1>4 DEF wmCopyData
  <2>2. QED
    BY <2>1, MpKept DEF MpInv
<1>5. ASSUME NEW p \in Player, ChooseByHand(p) PROVE MpInv'
  BY <1>5 DEF ChooseByHand, MpInv, NoFreedUse, Pump
<1>6. ASSUME NEW p \in Player, PlayerChanges(p) PROVE MpInv'
  <2>1. /\ UNCHANGED <<mp, gui, sent, crashed>> /\ ~crashed
        /\ \/ history' = history
           \/ history' = [history EXCEPT !.seen = @ \cup {real'[p]}]
    BY <1>6 DEF PlayerChanges
  <2>2. QED
    BY <2>1, MpKept DEF MpInv
<1>7. QED
  BY <1>1, <1>2, <1>3, <1>4, <1>5, <1>6 DEF GuiStep

(* Who replaces the player object, and who waits, is an inductive invariant.  *)
THEOREM MpInductive == Spec => []MpInv
<1>1. Init => MpInv
  BY ControlAssumption DEF Init, MpInv, NoFreedUse, Pump, Fresh
<1>2. MpInv /\ [Next]_vars => MpInv'
  <2> SUFFICES ASSUME MpInv, [Next]_vars PROVE MpInv'
    OBVIOUS
  <2>1. CASE Next
    BY <2>1, ChainKeepsMp, RequestKeepsMp, GuiKeepsMp DEF Next
  <2>2. CASE UNCHANGED vars
    BY <2>2 DEF vars, chainVars, mpVars, guiVars, historyVars, MpInv, NoFreedUse
  <2>3. QED
    BY <2>1, <2>2
<1>3. QED
  BY <1>1, <1>2, PTL DEF Spec

(* The chain's thread does not use the player object while it is replaced,    *)
(* unless there never was one, or the user chose a player or the player gave *)
(* another title while the request was worked on.                            *)
THEOREM PlayerNotFreed == Spec => []NoFreedUse
<1>1. MpInv => NoFreedUse
  BY DEF MpInv
<1>2. QED
  BY <1>1, MpInductive, PTL
-----------------------------------------------------------------------------
(* The calls that have no calls of their own ... *)
Simple == {"Do", "Ask", "FromCache", "Tell", "TellVolume", "TellState", "mpOpen",
           "CheckControlMenu", "Metadata", "TakeMetadata"}

IsSeq(s) == \E T : s \in Seq(T)
SimpleSeq(s) == IsSeq(s) /\ \A i \in 1 .. Len(s) : s[i].call \in Simple

(* ... those that a sink makes, ... *)
SinkCall(c) == \/ c.call \in Simple
               \/ c.call = "IfPlaying" /\ SimpleSeq(c.then)
               \/ c.call = "mpGetHandle" /\ SimpleSeq(c.then) /\ SimpleSeq(c.else)
SinkSeq(s) == IsSeq(s) /\ \A i \in 1 .. Len(s) : SinkCall(s[i])

(* ... and those of a handler: what its sink does and then the answer, or an  *)
(* error alone.                                                              *)
Answering(s) ==
  /\ IsSeq(s) /\ s # <<>>
  /\ \A i \in 1 .. Len(s) - 1 : SinkCall(s[i])
  /\ \/ s[Len(s)].call = "Respond"
     \/ s[Len(s)].call = "Error" /\ Len(s) = 1

(* Concatenation of sequences over any two sets. *)
LEMMA Concatenated ==
  ASSUME NEW s, NEW t, IsSeq(s), IsSeq(t)
  PROVE  /\ IsSeq(s \o t)
         /\ Len(s) \in Nat /\ Len(t) \in Nat
         /\ Len(s \o t) = Len(s) + Len(t)
         /\ \A i \in 1 .. Len(s) : (s \o t)[i] = s[i]
         /\ \A i \in Len(s) + 1 .. Len(s) + Len(t) : (s \o t)[i] = t[i - Len(s)]
<1>1. PICK S : s \in Seq(S)
  BY DEF IsSeq
<1>2. PICK T : t \in Seq(T)
  BY DEF IsSeq
<1>3. s \in Seq(S \cup T) /\ t \in Seq(S \cup T)
  BY <1>1, <1>2
<1>4. s \o t \in Seq(S \cup T)
  BY <1>3
<1>5. QED
  BY <1>3, <1>4 DEF IsSeq

(* Sinks one after the other are a sink. *)
LEMMA SinkThenSink ==
  ASSUME NEW s, NEW t, SinkSeq(s), SinkSeq(t) PROVE SinkSeq(s \o t)
<1>1. IsSeq(s) /\ IsSeq(t)
  BY DEF SinkSeq
<1>2. ASSUME NEW i \in 1 .. Len(s \o t) PROVE SinkCall((s \o t)[i])
  <2>1. CASE i \in 1 .. Len(s)
    BY <2>1, <1>1, Concatenated DEF SinkSeq
  <2>2. CASE i \in Len(s) + 1 .. Len(s) + Len(t)
    <3>1. (s \o t)[i] = t[i - Len(s)] /\ i - Len(s) \in 1 .. Len(t)
      BY <2>2, <1>1, Concatenated
    <3>2. QED
      BY <3>1 DEF SinkSeq
  <2>3. QED
    BY <1>1, <2>1, <2>2, Concatenated
<1>3. QED
  BY <1>1, <1>2, Concatenated DEF SinkSeq

(* A sink and then an answer are an answer. *)
LEMMA SinkThenAnswer ==
  ASSUME NEW s, NEW t, SinkSeq(s), Answering(t), t[Len(t)].call = "Respond"
  PROVE  Answering(s \o t) /\ (s \o t)[Len(s \o t)].call = "Respond"
<1>1. IsSeq(s) /\ IsSeq(t) /\ Len(t) \in Nat \ {0}
  BY Concatenated DEF SinkSeq, Answering, IsSeq
<1>2. ASSUME NEW i \in 1 .. Len(s \o t) - 1 PROVE SinkCall((s \o t)[i])
  <2>1. CASE i \in 1 .. Len(s)
    BY <2>1, <1>1, Concatenated DEF SinkSeq
  <2>2. CASE i \in Len(s) + 1 .. Len(s) + Len(t) - 1
    <3>1. (s \o t)[i] = t[i - Len(s)] /\ i - Len(s) \in 1 .. Len(t) - 1
      BY <2>2, <1>1, Concatenated
    <3>2. QED
      BY <3>1 DEF Answering
  <2>3. QED
    BY <1>1, <2>1, <2>2, Concatenated
<1>3. (s \o t)[Len(s \o t)] = t[Len(t)] /\ Len(s \o t) # 0
  BY <1>1, Concatenated
<1>4. s \o t # <<>>
  BY <1>3
<1>5. QED
  BY <1>1, <1>2, <1>3, <1>4, Concatenated DEF Answering

(* What a sink's last call leaves is a sink. *)
LEMMA SimpleIsSink == ASSUME NEW s, SimpleSeq(s) PROVE SinkSeq(s)
BY DEF SimpleSeq, SinkSeq, SinkCall

(* The calls of one step. *)
LEMMA OneCall ==
  /\ SimpleSeq(<<>>)
  /\ \A c, v : SimpleSeq(Do(c, v)) /\ SimpleSeq(Ask(c)) /\ SimpleSeq(Tell(c, v))
                /\ SimpleSeq(Choose(c))
               /\ SimpleSeq(<<[call |-> "FromCache", command |-> c]>>)
  /\ SimpleSeq(TellVolume) /\ SimpleSeq(TellState) /\ SimpleSeq(Metadata)
  /\ SimpleSeq(<<[call |-> "mpOpen"]>>)
<1>1. ASSUME NEW c, c.call \in Simple PROVE SimpleSeq(<<c>>)
  <2>1. <<c>> \in Seq({c})
    OBVIOUS
  <2>2. Len(<<c>>) = 1 /\ <<c>>[1] = c
    OBVIOUS
  <2>3. \A i \in 1 .. Len(<<c>>) : <<c>>[i].call \in Simple
    BY <2>2, <1>1
  <2>4. QED
    BY <2>1, <2>3 DEF SimpleSeq, IsSeq
<1>2. SimpleSeq(<<>>)
  <2>1. <<>> \in Seq({})
    OBVIOUS
  <2>2. QED
    BY <2>1 DEF SimpleSeq, IsSeq
<1>3. SimpleSeq(Metadata)
  <2> DEFINE s == <<[call |-> "Metadata"], [call |-> "TakeMetadata"]>>
  <2>1. s \in Seq({s[1], s[2]}) /\ Len(s) = 2 /\ \A i \in 1 .. 2 : s[i].call \in Simple
    BY DEF Simple
  <2>2. QED
    BY <2>1 DEF SimpleSeq, IsSeq, Metadata
<1>4. QED
  BY <1>1, <1>2, <1>3 DEF Do, Ask, Tell, Choose, TellVolume, TellState, Simple

(* A handler's first call: what is left is again its sink's rest and the      *)
(* answer, and after the answer nothing is left.                             *)
LEMMA FirstCall ==
  ASSUME NEW s, Answering(s)
  PROVE  /\ Head(s) = s[1]
         /\ s[1].call \in {"Respond", "Error"} => Tail(s) = <<>>
         /\ s[1].call # "Error" /\ s[1].call # "Respond" =>
              SinkCall(s[1]) /\ Answering(Tail(s)) /\ Tail(s)[Len(Tail(s))].call = "Respond"
         /\ SinkCall(s[1]) => s[1].call # "Respond" /\ s[1].call # "Error"
         /\ Tail(s) # <<>> => s[Len(s)].call = "Respond"
<1>1. PICK T : s \in Seq(T)
  BY DEF Answering, IsSeq
<1>2. Len(s) \in Nat \ {0} /\ Head(s) = s[1]
  <2>1. Len(s) \in Nat \ {0}
    BY <1>1, EmptySeq DEF Answering
  <2>2. QED
    BY <1>1, <2>1
<1>3. SinkCall(s[1]) => s[1].call # "Respond" /\ s[1].call # "Error"
  BY DEF SinkCall, Simple
<1>4. Len(s) # 1 => SinkCall(s[1])
  <2>1. Len(s) # 1 => 1 \in 1 .. Len(s) - 1
    BY <1>2
  <2>2. \A i \in 1 .. Len(s) - 1 : SinkCall(s[i])
    BY DEF Answering
  <2>3. QED
    BY <2>1, <2>2
<1>5. Tail(s) \in Seq(T) /\ Len(Tail(s)) = Len(s) - 1
      /\ \A i \in 1 .. Len(s) - 1 : Tail(s)[i] = s[i + 1]
  <2>1. s # <<>>
    BY DEF Answering
  <2>2. QED
    BY <1>1, <2>1, HeadTailProperties
<1>6. Len(s) = 1 => Tail(s) = <<>>
  <2>1. Tail(s) # <<>> => Len(Tail(s)) \in Nat \ {0}
    BY <1>5, EmptySeq
  <2>2. QED
    BY <2>1, <1>5
<1>7. Len(s) # 1 => Answering(Tail(s)) /\ Tail(s)[Len(Tail(s))].call = "Respond"
  <2> SUFFICES ASSUME Len(s) # 1
               PROVE  Answering(Tail(s)) /\ Tail(s)[Len(Tail(s))].call = "Respond"
    OBVIOUS
  <2>1. s[Len(s)].call = "Respond"
    BY DEF Answering
  <2>2. Len(Tail(s)) \in 1 .. Len(s) - 1 /\ Len(Tail(s)) + 1 = Len(s)
    BY <1>2, <1>5
  <2>3. Tail(s)[Len(Tail(s))] = s[Len(s)]
    BY <2>2, <1>5
  <2>4. Tail(s) # <<>>
    <3>1. Len(<<>>) = 0
      OBVIOUS
    <3>2. Len(Tail(s)) # 0
      BY <2>2, <1>2
    <3>3. QED
      BY <3>1, <3>2
  <2>5. ASSUME NEW i \in 1 .. Len(Tail(s)) - 1 PROVE SinkCall(Tail(s)[i])
    <3>1. i \in 1 .. Len(s) - 1 /\ i + 1 \in 1 .. Len(s) - 1
      BY <1>2, <1>5
    <3>2. QED
      BY <3>1, <1>5 DEF Answering
  <2>6. IsSeq(Tail(s))
    BY <1>5 DEF IsSeq
  <2>7. QED
    BY <2>1, <2>3, <2>4, <2>5, <2>6 DEF Answering
<1>8. Len(s) = 1 => s[1].call \in {"Respond", "Error"}
  BY DEF Answering
<1>9. Tail(s) # <<>> => s[Len(s)].call = "Respond"
  BY <1>6 DEF Answering
<1>10. QED
  BY <1>2, <1>3, <1>4, <1>6, <1>7, <1>8, <1>9
(* The calls that a sink makes in a row under a condition. *)
LEMMA SimpleThenSimple ==
  ASSUME NEW s, NEW t, SimpleSeq(s), SimpleSeq(t) PROVE SimpleSeq(s \o t)
<1>1. IsSeq(s) /\ IsSeq(t)
  BY DEF SimpleSeq
<1>2. ASSUME NEW i \in 1 .. Len(s \o t) PROVE (s \o t)[i].call \in Simple
  <2>1. CASE i \in 1 .. Len(s)
    BY <2>1, <1>1, Concatenated DEF SimpleSeq
  <2>2. CASE i \in Len(s) + 1 .. Len(s) + Len(t)
    <3>1. (s \o t)[i] = t[i - Len(s)] /\ i - Len(s) \in 1 .. Len(t)
      BY <2>2, <1>1, Concatenated
    <3>2. QED
      BY <3>1 DEF SimpleSeq
  <2>3. QED
    BY <1>1, <2>1, <2>2, Concatenated
<1>3. QED
  BY <1>1, <1>2, Concatenated DEF SimpleSeq

(* A condition and the calls it leads to. *)
LEMMA Conditional ==
  /\ \A s, t : SimpleSeq(s) /\ SimpleSeq(t) => SinkSeq(IfPlayer(s, t))
  /\ \A s : SimpleSeq(s) => SinkSeq(<<[call |-> "IfPlaying", then |-> s]>>)
<1>1. ASSUME NEW c, SinkCall(c) PROVE SinkSeq(<<c>>)
  <2>1. <<c>> \in Seq({c}) /\ Len(<<c>>) = 1 /\ <<c>>[1] = c
    OBVIOUS
  <2>2. \A i \in 1 .. Len(<<c>>) : SinkCall(<<c>>[i])
    BY <2>1, <1>1
  <2>3. QED
    BY <2>1, <2>2 DEF SinkSeq, IsSeq
<1>2. QED
  BY <1>1 DEF IfPlayer, SinkCall

(* Every sink of the application is a sequence of calls without an answer.    *)
LEMMA Sinks ==
  /\ \A channel, v : /\ SinkSeq(MROnVolumeChangeRequestSink(channel, v))
                     /\ SinkSeq(MROnMuteChangeRequestSink(channel, v))
                     /\ SinkSeq(MROnMediaChangeRequestSink(channel, v))
  /\ \A v : /\ SinkSeq(MROnSeekRequestSink(v)) /\ SinkSeq(MROnNextPreviousRequestSink(v))
            /\ SinkSeq(MROnStateChangeRequestSink(v)) /\ SinkSeq(MROnSetMediaPlayerSink(v))
  /\ SinkSeq(MROnGetPositionRequestSink) /\ SinkSeq(MROnGetMediaRequestSink)
  /\ SinkSeq(MROnPlayModeChangeRequestSink) /\ SinkSeq(MROnGetTransportRequestSink)
  /\ SinkSeq(MROnGetMediaPlayersListSink)
  /\ SinkSeq(Metadata)
<1> USE OneCall, SimpleThenSimple, SinkThenSink, SimpleIsSink, Conditional
<1>1. ASSUME NEW channel, NEW v PROVE SinkSeq(MROnVolumeChangeRequestSink(channel, v))
  BY DEF MROnVolumeChangeRequestSink
<1>2. ASSUME NEW channel, NEW v PROVE SinkSeq(MROnMuteChangeRequestSink(channel, v))
  BY DEF MROnMuteChangeRequestSink
<1>3. ASSUME NEW uri, NEW v PROVE SinkSeq(MROnMediaChangeRequestSink(uri, v))
  BY DEF MROnMediaChangeRequestSink
<1>4. ASSUME NEW v
      PROVE  /\ SinkSeq(MROnSeekRequestSink(v)) /\ SinkSeq(MROnNextPreviousRequestSink(v))
             /\ SinkSeq(MROnStateChangeRequestSink(v)) /\ SinkSeq(MROnSetMediaPlayerSink(v))
  BY DEF MROnSeekRequestSink, MROnNextPreviousRequestSink, MROnStateChangeRequestSink,
         MROnSetMediaPlayerSink
<1>5. SinkSeq(MROnGetPositionRequestSink) /\ SinkSeq(MROnGetMediaRequestSink)
  BY DEF MROnGetPositionRequestSink, MROnGetMediaRequestSink
<1>6. /\ SinkSeq(MROnPlayModeChangeRequestSink) /\ SinkSeq(MROnGetTransportRequestSink)
      /\ SinkSeq(MROnGetMediaPlayersListSink)
  BY DEF MROnPlayModeChangeRequestSink, MROnGetTransportRequestSink, MROnGetMediaPlayersListSink
<1>7. QED
  BY <1>1, <1>2, <1>3, <1>4, <1>5, <1>6

(* An error alone, an answer alone, and an answer after a sink.               *)
LEMMA Answers ==
  /\ \A code : Answering(Error(code))
  /\ \A what : Answering(Respond(what))
  /\ \A what, c : Answering(<<[call |-> "Respond", what |-> what, channel |-> c]>>)
  /\ \A s, what : SinkSeq(s) => Answering(s \o Respond(what))
  /\ \A s, what, c : SinkSeq(s) =>
       Answering(s \o <<[call |-> "Respond", what |-> what, channel |-> c]>>)
  /\ \A r, s : Answering(s) => Answering(OfInstance(r, s))
<1>1. ASSUME NEW c, c.call \in {"Error", "Respond"}
      PROVE  Answering(<<c>>) /\ <<c>>[Len(<<c>>)].call = c.call
  <2>1. <<c>> \in Seq({c}) /\ Len(<<c>>) = 1 /\ <<c>>[1] = c /\ <<c>> # <<>>
    OBVIOUS
  <2>2. <<c>>[Len(<<c>>)] = c /\ 1 .. Len(<<c>>) - 1 = {}
    BY <2>1
  <2>3. QED
    BY <1>1, <2>1, <2>2 DEF Answering, IsSeq
<1>2. QED
  BY <1>1, SinkThenAnswer DEF Error, Respond, OfInstance

(* The dispatch functions let only the actions pass that have a handler, and *)
(* a seek only in one of the modes that are allowed.                         *)
LEMMA Dispatched ==
  ASSUME NEW r, NEW e, UPnPProcessPOST(r, e).fault = 0
  PROVE  /\ r.action \in {"GetCurrentTransportActions", "GetDeviceCapabilities", "GetMediaInfo",
                          "GetPositionInfo", "GetTransportInfo", "GetTransportSettings", "Next",
                          "Previous", "Play", "Pause", "Stop", "Seek", "SetAVTransportURI",
                          "SetPlayMode", "GetCurrentConnectionIDs", "GetProtocolInfo",
                          "GetCurrentConnectionInfo", "GetMute", "GetVolume", "SetMute",
                          "SetVolume", "upnpRenderer_GetMediaPlayersList",
                          "upnpRenderer_SetMediaPlayer"}
         /\ r.action = "Seek" => r.args["Unit"] \in SeekModes
<1>1. ListPresets(r, e).fault # 0 /\ SelectPreset(r, e).fault # 0
  BY DEF ListPresets, SelectPreset, NoHandler, Result
<1>2. Seek(r, e).fault = 0 => r.args["Unit"] \in SeekModes
  BY DEF Seek, Checked, Result
<1>3. Result(401, e).fault # 0
  BY DEF Result
<1>4. QED
  BY <1>1, <1>2, <1>3 DEF UPnPProcessPOST

(* Every handler of an action that was let pass answers once, and refuses     *)
(* before it has called its sink.                                            *)
LEMMA HandlerAnswers ==
  ASSUME NEW r, NEW e, UPnPProcessPOST(r, e).fault = 0 PROVE Answering(Handler(r))
<1>1. CASE r.action \in {"GetCurrentTransportActions", "GetDeviceCapabilities",
                        "GetTransportSettings", "GetMute", "GetCurrentConnectionIDs",
     "GetProtocolInfo",
                        "GetCurrentConnectionInfo"}
  BY <1>1, Sinks, Answers, SinkThenSink DEF Handler, UPnPAVTransport_GetCurrentTransportActions,
       UPnPAVTransport_GetDeviceCapabilities,
    UPnPAVTransport_GetTransportSettings, UPnPRenderingControl_GetMute,
    UPnPConnectionManager_GetCurrentConnectionIDs, UPnPConnectionManager_GetProtocolInfo,
    UPnPConnectionManager_GetCurrentConnectionInfo, UPnPResponse_AVTransport,
    UPnPResponse_ConnectionManager, UPnPResponse_RenderingControl
<1>2. CASE r.action \in {"GetMediaInfo", "GetPositionInfo", "GetTransportInfo"}
  BY <1>2, Sinks, Answers, SinkThenSink DEF Handler, UPnPAVTransport_GetMediaInfo,
       UPnPAVTransport_GetPositionInfo,
              UPnPAVTransport_GetTransportInfo, UPnPResponse_AVTransport
<1>3. CASE r.action \in {"Next", "Previous", "Play", "Pause", "Stop", "SetAVTransportURI", "SetPlayMode"}
  BY <1>3, Sinks, Answers, SinkThenSink DEF Handler, UPnPAVTransport_Next,
       UPnPAVTransport_Previous, UPnPAVTransport_Play,
    UPnPAVTransport_Pause, UPnPAVTransport_Stop, UPnPAVTransport_SetAVTransportURI,
    UPnPAVTransport_SetPlayMode, UPnPResponse_AVTransport
<1>4. CASE r.action = "Seek"
  <2>1. r.args["Unit"] \in {"ABS_COUNT", "TRACK_NR", "REL_TIME"}
    BY <1>4, Dispatched DEF SeekModes
  <2>2. \E n : \/ UPnPAVTransport_Seek(r) = OfInstance(r, Error(710))
               \/ UPnPAVTransport_Seek(r) = OfInstance(r, Error(711))
               \/ UPnPAVTransport_Seek(r) = OfInstance(r, MROnSeekRequestSink(n) \o Respond("none"))
    BY <2>1 DEF UPnPAVTransport_Seek, UPnPResponse_AVTransport
  <2>3. Answering(UPnPAVTransport_Seek(r))
    BY <2>2, Sinks, Answers
  <2>4. QED
    BY <1>4, <2>3 DEF Handler
<1>5. CASE r.action \in {"GetVolume", "SetMute", "SetVolume", "upnpRenderer_GetMediaPlayersList",
                        "upnpRenderer_SetMediaPlayer"}
  BY <1>5, Sinks, Answers, SinkThenSink DEF Handler, UPnPRenderingControl_GetVolume,
       UPnPRenderingControl_SetMute,
    UPnPRenderingControl_SetVolume, UPnPRenderingControl_upnpRenderer_GetMediaPlayersList,
    UPnPRenderingControl_upnpRenderer_SetMediaPlayer, UPnPResponse_RenderingControl
<1>6. QED
  BY <1>1, <1>2, <1>3, <1>4, <1>5, Dispatched

(* What is to be done for a request ends with its answer, which has not been  *)
(* given; a refusal is all there is to do, and nothing was touched.          *)
WorkInv ==
  /\ "touched" \in DOMAIN history
  /\ work # <<>> => /\ Answering(work)
                    /\ answers = <<>>
                    /\ work[Len(work)].call = "Error" => ~history.touched
  /\ work = <<>> => \/ request = NULL /\ answers = <<>>
                    \/ \E a : answers = <<a>> /\ (a.fault # 0 => ~history.touched)

(* A step of the chain's thread that makes the first call, leaving what that  *)
(* call leads to and the rest.                                               *)
LEMMA CallKeeps ==
  ASSUME WorkInv, work # <<>>, NEW calls, SimpleSeq(calls), work' = calls \o Tail(work),
         Head(work).call \notin {"Error", "Respond"},
         answers' = answers, DOMAIN history' = DOMAIN history
  PROVE  WorkInv'
<1>1. Answering(work)
  BY DEF WorkInv
<1>2. Answering(Tail(work)) /\ Tail(work)[Len(Tail(work))].call = "Respond"
  BY <1>1, FirstCall
<1>3. SinkSeq(calls)
  BY SimpleIsSink
<1>4. /\ Answering(calls \o Tail(work))
      /\ (calls \o Tail(work))[Len(calls \o Tail(work))].call = "Respond"
  BY <1>2, <1>3, SinkThenAnswer
<1>5. work' # <<>>
  BY <1>4 DEF Answering
<1>6. QED
  BY <1>4, <1>5 DEF WorkInv

(* The same for a call that leads to nothing.                                *)
LEMMA LastKeeps ==
  ASSUME WorkInv, work # <<>>, work' = Tail(work),
         Head(work).call \notin {"Error", "Respond"},
         answers' = answers, DOMAIN history' = DOMAIN history
  PROVE  WorkInv'
<1>1. Answering(work') /\ work'[Len(work')].call = "Respond"
  <2>1. Answering(work)
    BY DEF WorkInv
  <2>2. QED
    BY <2>1, FirstCall
<1>2. work' # <<>>
  BY <1>1 DEF Answering
<1>3. QED
  BY <1>1, <1>2 DEF WorkInv

(* What changes neither the work nor the answers nor what was touched.       *)
LEMMA WorkKept ==
  ASSUME WorkInv, UNCHANGED <<work, answers, request>>, DOMAIN history' = DOMAIN history,
         "touched" \in DOMAIN history => history'.touched = history.touched
  PROVE  WorkInv'
BY DEF WorkInv

(* Every call but an answer leaves what it leads to and the rest.             *)
LEMMA CallsLeft ==
  ASSUME WorkInv, mpGetHandle \/ SendHttp \/ SendWindow \/ FromCache \/ mpOpen \/ CheckControlMenu
                  \/ MRSet \/ IfPlaying \/ ComputeMetadata
  PROVE  /\ work # <<>> /\ Head(work).call \notin {"Error", "Respond"}
         /\ answers' = answers /\ request' = request /\ DOMAIN history' = DOMAIN history
         /\ \/ work' = Tail(work)
            \/ \E calls : SimpleSeq(calls) /\ work' = calls \o Tail(work)
<1> DEFINE Kept == answers' = answers /\ request' = request /\ DOMAIN history' = DOMAIN history
<1>1. ASSUME FromCache \/ mpOpen \/ MRSet \/ ComputeMetadata \/ CheckControlMenu
      PROVE  /\ Call({"FromCache", "mpOpen", "Tell", "TellVolume", "TellState", "Metadata",
                      "TakeMetadata", "CheckControlMenu"})
             /\ work' = Tail(work) /\ Kept
  <2>1. CASE FromCache
    BY <2>1 DEF FromCache, Call, requestVars, historyVars
  <2>2. CASE mpOpen
    BY <2>2 DEF mpOpen, Call, requestVars, Touch
  <2>3. CASE MRSet
    <3>1. /\ Call({"Tell", "TellVolume", "TellState"}) /\ work' = Tail(work) /\ history' = Touch({})
          /\ UNCHANGED <<requestVars, value, playerHandle, answers, mpVars, real, guiVars, crashed, hand, parted>>
      BY <2>3, Zenon DEF MRSet
    <3>2. QED
      BY <3>1 DEF Call, requestVars, Touch
  <2>4. CASE ComputeMetadata
    BY <2>4 DEF ComputeMetadata, MakeMetadata, TakeMetadata, Call, requestVars, Touch
  <2>5. CASE CheckControlMenu
    BY <2>5 DEF CheckControlMenu, Call, requestVars, Touch
  <2>6. QED
    BY <1>1, <2>1, <2>2, <2>3, <2>4, <2>5
<1>2. ASSUME SendHttp PROVE Call({"Do", "Ask"}) /\ work' = Tail(work) /\ Kept
  <2>1. /\ Call({"Do", "Ask"}) /\ work' = Tail(work)
        /\ UNCHANGED <<requestVars, playerHandle, answers, mr, mp, hMP, guiVars, crashed, hand>>
    BY <1>2, Zenon DEF SendHttp
  <2>2. DOMAIN history' = DOMAIN history
    <3>1. \E players, b : history' = [Touch(players) EXCEPT !.failed = b]
      BY <1>2, Zenon DEF SendHttp
    <3>2. QED
      BY <3>1 DEF Touch
  <2>3. QED
    BY <2>1, <2>2 DEF requestVars
<1>3. ASSUME SendWindow
      PROVE  /\ Call({"Do", "Ask"}) /\ Kept
             /\ \E c : \/ work' = <<[call |-> "FromCache", command |-> c]>> \o Tail(work)
                      \/ work' = <<>> \o Tail(work)
  <2>1. /\ Call({"Do", "Ask"})
        /\ UNCHANGED <<requestVars, playerHandle, answers, mr, mp, hMP, gui, sent, crashed, hand>>
    BY <1>3, Zenon DEF SendWindow
  <2>2. \E players : history' = Touch(players)
    BY <1>3, Zenon DEF SendWindow
  <2>3. DOMAIN history' = DOMAIN history
    BY <2>2 DEF Touch
  <2>4. \E c : \/ work' = <<[call |-> "FromCache", command |-> c]>> \o Tail(work)
             \/ work' = <<>> \o Tail(work)
    BY <1>3, Zenon DEF SendWindow
  <2>5. QED
    BY <2>1, <2>3, <2>4 DEF requestVars
<1>4. ASSUME mpGetHandle \/ IfPlaying
      PROVE  /\ Call({"mpGetHandle", "IfPlaying"}) /\ Kept
             /\ \/ work' = Head(work).then \o Tail(work) \/ work' = <<>> \o Tail(work)
                \/ Head(work).call = "mpGetHandle" /\ work' = Head(work).else \o Tail(work)
  <2>1. CASE mpGetHandle
    BY <2>1 DEF mpGetHandle, Call, Touch, requestVars
  <2>2. CASE IfPlaying
    BY <2>2 DEF IfPlaying, Call, historyVars, requestVars
  <2>3. QED
    BY <1>4, <2>1, <2>2
<1>5. CASE FromCache \/ mpOpen \/ MRSet \/ ComputeMetadata \/ CheckControlMenu
  BY <1>1, <1>5 DEF Call
<1>6. CASE SendHttp
  BY <1>2, <1>6 DEF Call
<1>7. CASE SendWindow
  <2>1. \A c : SimpleSeq(<<[call |-> "FromCache", command |-> c]>>) /\ SimpleSeq(<<>>)
    BY OneCall
  <2>2. \E calls : SimpleSeq(calls) /\ work' = calls \o Tail(work)
    BY <1>3, <1>7, <2>1
  <2>3. QED
    BY <1>3, <1>7, <2>2 DEF Call
<1>8. CASE mpGetHandle \/ IfPlaying
  <2>1. work # <<>> /\ Head(work).call \in {"mpGetHandle", "IfPlaying"}
    BY <1>4, <1>8 DEF Call
  <2>2. SinkCall(Head(work))
    BY <2>1, FirstCall DEF WorkInv
  <2>3. /\ SimpleSeq(Head(work).then) /\ SimpleSeq(<<>>)
        /\ Head(work).call = "mpGetHandle" => SimpleSeq(Head(work).else)
    BY <2>1, <2>2, OneCall DEF SinkCall, Simple
  <2>4. \E calls : SimpleSeq(calls) /\ work' = calls \o Tail(work)
    BY <1>4, <1>8, <2>3
  <2>5. QED
    BY <1>4, <1>8, <2>1, <2>4
<1>9. QED
  BY <1>5, <1>6, <1>7, <1>8

(* The chain's thread keeps it.                                              *)
LEMMA ChainKeepsWork == ASSUME WorkInv, ChainStep PROVE WorkInv'
<1>1. CASE UseFreed
  BY <1>1, WorkKept DEF UseFreed, chainVars, requestVars
<1>2. ASSUME mpGetHandle \/ SendHttp \/ SendWindow \/ FromCache \/ mpOpen \/ CheckControlMenu
             \/ MRSet \/ IfPlaying \/ ComputeMetadata
      PROVE  WorkInv'
  BY <1>2, CallsLeft, CallKeeps, LastKeeps
<1>5. CASE UPnPResponse_Error
  <2>1. /\ work # <<>> /\ work' = Tail(work) /\ Head(work).call = "Error"
        /\ answers' = Append(answers, [fault |-> Head(work).code, what |-> "none", value |-> 0])
        /\ history' = history
    BY <1>5 DEF UPnPResponse_Error, Call, historyVars
  <2>2. work' = <<>> /\ work[Len(work)].call = "Error" /\ answers = <<>>
    <3>1. Answering(work) /\ Head(work) = work[1]
      BY <2>1, FirstCall DEF WorkInv
    <3>2. Len(work) = 1
      BY <2>1, <3>1, FirstCall DEF Answering, SinkCall, Simple
    <3>3. QED
      BY <2>1, <3>1, <3>2, FirstCall DEF WorkInv
  <2>3. answers' = <<[fault |-> Head(work).code, what |-> "none", value |-> 0]>>
    BY <2>1, <2>2
  <2>4. QED
    BY <2>1, <2>2, <2>3 DEF WorkInv
<1>6. CASE UPnPResponseGeneric
  <2>1. /\ work # <<>> /\ work' = Tail(work) /\ Head(work).call = "Respond"
        /\ \E v : answers' = Append(answers, [fault |-> 0, what |-> Head(work).what, value |-> v])
        /\ DOMAIN history' = DOMAIN history
    BY <1>6 DEF UPnPResponseGeneric, Call
  <2>2. work' = <<>> /\ answers = <<>>
    BY <2>1, FirstCall DEF WorkInv
  <2>3. PICK v : answers' = Append(answers, [fault |-> 0, what |-> Head(work).what, value |-> v])
    BY <2>1
  <2>4. answers' = <<[fault |-> 0, what |-> Head(work).what, value |-> v]>>
    BY <2>2, <2>3
  <2>5. [fault |-> 0, what |-> Head(work).what, value |-> v].fault = 0
    OBVIOUS
  <2>6. QED
    BY <2>1, <2>2, <2>4, <2>5 DEF WorkInv
<1>7. QED
  BY <1>1, <1>2, <1>5, <1>6 DEF ChainStep

(* A request that comes is given to its handler or refused.                  *)
LEMMA RequestKeepsWork ==
  ASSUME WorkInv, NEW r \in Request, UPnPProcessHTTPPacket(r) PROVE WorkInv'
<1>1. UPnPProcessPOST(r, errno).fault # 0 => work' = Error(UPnPProcessPOST(r, errno).fault)
  BY DEF UPnPProcessHTTPPacket
<1>2. UPnPProcessPOST(r, errno).fault = 0 => work' = Handler(r)
  BY DEF UPnPProcessHTTPPacket
<1>3. answers' = <<>> /\ \E players : history' = Fresh(players, gui # Pump)
  BY DEF UPnPProcessHTTPPacket
<1>4. "touched" \in DOMAIN history' /\ ~history'.touched
  BY <1>3 DEF Fresh
<1>5. Answering(work')
  BY <1>1, <1>2, HandlerAnswers, Answers
<1>6. work' # <<>>
  BY <1>5 DEF Answering
<1>7. QED
  BY <1>3, <1>4, <1>5, <1>6 DEF WorkInv

(* The dialog's thread and the users neither answer nor touch.               *)
LEMMA GuiKeepsWork ==
  ASSUME WorkInv, GuiStep \/ \E p \in Player : ChooseByHand(p) \/ PlayerChanges(p)
  PROVE  WorkInv'
<1>1. UNCHANGED <<work, answers, request>>
  BY DEF GuiStep, ChooseForChain, mpCreate, mpLoadDataINI, wmCopyData, ChooseByHand,
         PlayerChanges, chainVars, requestVars
<1>2. \/ history' = history
      \/ history' = [history EXCEPT !.retitled = @ \/ history.holds]
      \/ history' = [history EXCEPT !.chosen = TRUE]
      \/ \E p \in Player : history' = [history EXCEPT !.seen = @ \cup {real'[p]}]
  BY DEF GuiStep, ChooseForChain, mpCreate, mpLoadDataINI, wmCopyData, ChooseByHand,
         PlayerChanges, historyVars
<1>3. QED
  BY <1>1, <1>2, WorkKept

(* Each request has one answer coming or given is an inductive invariant.    *)
THEOREM WorkInductive == Spec => []WorkInv
<1>1. Init => WorkInv
  BY DEF Init, WorkInv, Fresh
<1>2. WorkInv /\ [Next]_vars => WorkInv'
  <2> SUFFICES ASSUME WorkInv, [Next]_vars PROVE WorkInv'
    OBVIOUS
  <2>1. CASE Next
    BY <2>1, ChainKeepsWork, RequestKeepsWork, GuiKeepsWork DEF Next
  <2>2. CASE UNCHANGED vars
    BY <2>2, WorkKept DEF vars, chainVars, requestVars, historyVars
  <2>3. QED
    BY <2>1, <2>2
<1>3. QED
  BY <1>1, <1>2, PTL DEF Spec

(* Whatever request comes to whatever players, it is answered exactly once.   *)
THEOREM AnsweredOnce == Spec => []OneAnswer
<1>1. WorkInv => OneAnswer
  <2> SUFFICES ASSUME WorkInv PROVE OneAnswer
    OBVIOUS
  <2>1. ASSUME NEW a, answers = <<a>> PROVE Len(answers) = 1
    BY <2>1
  <2>2. CASE \E a : answers = <<a>>
    BY <2>1, <2>2 DEF OneAnswer
  <2>3. CASE answers = <<>> /\ ~\E a : answers = <<a>>
    <3>1. Len(answers) = 0
      BY <2>3
    <3>2. ~(work = <<>> /\ request # NULL)
      BY <2>3 DEF WorkInv
    <3>3. QED
      BY <3>1, <3>2 DEF OneAnswer
  <2>4. QED
    BY <2>2, <2>3 DEF WorkInv
<1>2. QED
  BY <1>1, WorkInductive, PTL

(* A request that is refused has touched neither the renderer nor a player.   *)
THEOREM RefusalsTouchNothing == Spec => []RefusedUntouched
<1>1. WorkInv => RefusedUntouched
  <2> SUFFICES ASSUME WorkInv, NEW i \in DOMAIN answers, answers[i].fault # 0
               PROVE  ~history.touched
    BY DEF RefusedUntouched
  <2>1. DOMAIN <<>> = {}
    OBVIOUS
  <2>2. answers # <<>>
    BY <2>1
  <2>3. PICK a : answers = <<a>> /\ (a.fault # 0 => ~history.touched)
    BY <2>2 DEF WorkInv
  <2>4. answers[i] = a
    BY <2>3
  <2>5. QED
    BY <2>3, <2>4
<1>2. QED
  BY <1>1, WorkInductive, PTL
-----------------------------------------------------------------------------
(* Short sequences, joined. *)
LEMMA Joined ==
  ASSUME NEW S, NEW s \in Seq(S), NEW t \in Seq(S), NEW w \in Seq(S),
         Len(w) = Len(s) + Len(t),
         \A i \in 1 .. Len(s) : w[i] = s[i],
         \A i \in 1 .. Len(t) : w[Len(s) + i] = t[i]
  PROVE  s \o t = w
<1>1. /\ s \o t \in Seq(S) /\ Len(s \o t) = Len(s) + Len(t)
      /\ \A i \in 1 .. Len(s) + Len(t) : (s \o t)[i] = IF i <= Len(s) THEN s[i] ELSE t[i - Len(s)]
  BY ConcatProperties
<1>2. ASSUME NEW i \in 1 .. Len(s \o t) PROVE (s \o t)[i] = w[i]
  <2>1. CASE i \in 1 .. Len(s)
    BY <1>1, <2>1
  <2>2. CASE i - Len(s) \in 1 .. Len(t)
    <3>1. w[Len(s) + (i - Len(s))] = t[i - Len(s)]
      BY <2>2
    <3>2. Len(s) + (i - Len(s)) = i /\ ~(i <= Len(s))
      BY <2>2
    <3>3. QED
      BY <1>1, <3>1, <3>2
  <2>3. QED
    BY <1>1, <2>1, <2>2
<1>3. QED
  BY <1>1, <1>2, SeqEqual

(* Short sequences of calls, joined.                                         *)
LEMMA Tuples ==
  /\ \A a, b : <<a>> \o <<b>> = <<a, b>>
  /\ \A a, b, c : <<a, b>> \o <<c>> = <<a, b, c>>
  /\ \A a, b, c : <<a>> \o <<b, c>> = <<a, b, c>>
  /\ \A a, b, c, d : <<a, b, c>> \o <<d>> = <<a, b, c, d>>
<1>1. ASSUME NEW a, NEW b PROVE <<a>> \o <<b>> = <<a, b>>
  <2> DEFINE s == <<a>>  t == <<b>>  w == <<a, b>>
  <2>1. s \in Seq({a, b}) /\ t \in Seq({a, b}) /\ w \in Seq({a, b})
    OBVIOUS
  <2>2. Len(s) = 1 /\ Len(t) = 1 /\ Len(w) = 2
    OBVIOUS
  <2>3. \A i \in 1 .. 1 : w[i] = s[i]
    OBVIOUS
  <2>4. \A i \in 1 .. 1 : w[1 + i] = t[i]
    OBVIOUS
  <2> HIDE DEF s, t, w
  <2>5. s \o t = w
    <3>1. Len(w) = Len(s) + Len(t)
      BY <2>2
    <3>2. \A i \in 1 .. Len(s) : w[i] = s[i]
      BY <2>2, <2>3
    <3>3. \A i \in 1 .. Len(t) : w[Len(s) + i] = t[i]
      BY <2>2, <2>4
    <3>4. QED
      BY <2>1, <3>1, <3>2, <3>3, Joined
  <2>6. QED
    BY <2>5 DEF s, t, w
<1>2. ASSUME NEW a, NEW b, NEW c PROVE <<a, b>> \o <<c>> = <<a, b, c>>
  <2> DEFINE s == <<a, b>>  t == <<c>>  w == <<a, b, c>>
  <2>1. s \in Seq({a, b, c}) /\ t \in Seq({a, b, c}) /\ w \in Seq({a, b, c})
    OBVIOUS
  <2>2. Len(s) = 2 /\ Len(t) = 1 /\ Len(w) = 3
    OBVIOUS
  <2>3. \A i \in 1 .. 2 : w[i] = s[i]
    OBVIOUS
  <2>4. \A i \in 1 .. 1 : w[2 + i] = t[i]
    OBVIOUS
  <2> HIDE DEF s, t, w
  <2>5. s \o t = w
    <3>1. Len(w) = Len(s) + Len(t)
      BY <2>2
    <3>2. \A i \in 1 .. Len(s) : w[i] = s[i]
      BY <2>2, <2>3
    <3>3. \A i \in 1 .. Len(t) : w[Len(s) + i] = t[i]
      BY <2>2, <2>4
    <3>4. QED
      BY <2>1, <3>1, <3>2, <3>3, Joined
  <2>6. QED
    BY <2>5 DEF s, t, w
<1>3. ASSUME NEW a, NEW b, NEW c PROVE <<a>> \o <<b, c>> = <<a, b, c>>
  <2> DEFINE s == <<a>>  t == <<b, c>>  w == <<a, b, c>>
  <2>1. s \in Seq({a, b, c}) /\ t \in Seq({a, b, c}) /\ w \in Seq({a, b, c})
    OBVIOUS
  <2>2. Len(s) = 1 /\ Len(t) = 2 /\ Len(w) = 3
    OBVIOUS
  <2>3. \A i \in 1 .. 1 : w[i] = s[i]
    OBVIOUS
  <2>4. \A i \in 1 .. 2 : w[1 + i] = t[i]
    OBVIOUS
  <2> HIDE DEF s, t, w
  <2>5. s \o t = w
    <3>1. Len(w) = Len(s) + Len(t)
      BY <2>2
    <3>2. \A i \in 1 .. Len(s) : w[i] = s[i]
      BY <2>2, <2>3
    <3>3. \A i \in 1 .. Len(t) : w[Len(s) + i] = t[i]
      BY <2>2, <2>4
    <3>4. QED
      BY <2>1, <3>1, <3>2, <3>3, Joined
  <2>6. QED
    BY <2>5 DEF s, t, w
<1>4. ASSUME NEW a, NEW b, NEW c, NEW d PROVE <<a, b, c>> \o <<d>> = <<a, b, c, d>>
  <2> DEFINE s == <<a, b, c>>  t == <<d>>  w == <<a, b, c, d>>
  <2>1. s \in Seq({a, b, c, d}) /\ t \in Seq({a, b, c, d}) /\ w \in Seq({a, b, c, d})
    OBVIOUS
  <2>2. Len(s) = 3 /\ Len(t) = 1 /\ Len(w) = 4
    OBVIOUS
  <2>3. \A i \in 1 .. 3 : w[i] = s[i]
    OBVIOUS
  <2>4. \A i \in 1 .. 1 : w[3 + i] = t[i]
    OBVIOUS
  <2> HIDE DEF s, t, w
  <2>5. s \o t = w
    <3>1. Len(w) = Len(s) + Len(t)
      BY <2>2
    <3>2. \A i \in 1 .. Len(s) : w[i] = s[i]
      BY <2>2, <2>3
    <3>3. \A i \in 1 .. Len(t) : w[Len(s) + i] = t[i]
      BY <2>2, <2>4
    <3>4. QED
      BY <2>1, <3>1, <3>2, <3>3, Joined
  <2>6. QED
    BY <2>5 DEF s, t, w
<1>5. QED
  BY <1>1, <1>2, <1>3, <1>4

(* The commands for mute, volume and state have numbers of their own, so a    *)
(* player takes none of them for another command, nor another one for them.  *)
LEMMA NumberOf ==
  ASSUME NEW c \in Command, mp \in Player
  PROVE  /\ Number(c) # 0 => \E t \in Table : Ini[mp][t][c] = Number(c)
         /\ \A n : TableOf(n) \in Table
<1>1. Number(c) # 0 => \E t \in Table : Ini[mp][t][c] = Number(c)
  <2> DEFINE given == {t \in Table : Ini[mp][t][c] # 0}
  <2>1. Number(c) = IF given = {} THEN 0 ELSE Ini[mp][CHOOSE t \in given : TRUE][c]
    BY DEF Number
  <2>2. given # {} => (CHOOSE t \in given : TRUE) \in given
    OBVIOUS
  <2>3. QED
    BY <2>1, <2>2
<1>2. \A n : TableOf(n) \in Table
  BY DEF TableOf, Table
<1>3. QED
  BY <1>1, <1>2

(* The commands to toggle mute and to ask share their numbers with none.     *)
LEMMA OwnCommand ==
  ASSUME NEW c \in Command, NEW d \in Understood(c),
         c \in {"TOGGLE_MUTE", "GET_VOLUME", "GET_STATE"}
           \/ d \in {"TOGGLE_MUTE", "GET_VOLUME", "GET_STATE"}
  PROVE  c = d
<1>1. /\ mp \in Player /\ Number(c) # 0 /\ d \in Command
      /\ Ini[mp][TableOf(Number(c))][d] = Number(c)
  BY DEF Understood
<1>2. PICK t \in Table : Ini[mp][t][c] = Number(c)
  BY <1>1, NumberOf
<1>3. TableOf(Number(c)) \in Table
  BY <1>1, NumberOf
<1>4. QED
  BY <1>1, <1>2, <1>3, IniAssumption

(* What the proofs need to know of the shape of the players, the renderer's   *)
(* variables and the history.                                                *)
PlayerShape(s) == /\ DOMAIN s = {"open", "volume", "muted", "state"}
                  /\ s.muted \in BOOLEAN /\ s.state \in PlayState
ShapesOK ==
  /\ DOMAIN real = Player
  /\ \A p \in Player : PlayerShape(real[p])
  /\ DOMAIN mr = {"volume", "mute", "state", "status", "metadata"}
  /\ "Master" \in DOMAIN mr.mute /\ "Master" \in DOMAIN mr.volume
  /\ mr.mute["Master"] \in {"0", "1"}

(* Calls that have nothing to do with mute, and sequences of such calls.      *)
QuietCall(c) == /\ c.call \in {"Do", "Ask"} => c.command \in Command \ {"TOGGLE_MUTE"}
                /\ c.call = "Tell" => c.field \notin {"mute", "volume"}
SimpleQuiet(s) == SimpleSeq(s) /\ \A i \in 1 .. Len(s) : QuietCall(s[i])
QuietSinkCall(c) ==
  /\ QuietCall(c)
  /\ c.call \in {"mpGetHandle", "IfPlaying"} => SimpleQuiet(c.then)
  /\ c.call = "mpGetHandle" => SimpleQuiet(c.else)
Quiet(s) == IsSeq(s) /\ \A i \in 1 .. Len(s) : QuietSinkCall(s[i])

(* What is left of a request to change mute: before and after the handle was  *)
(* asked for, and when the player was toggled and the renderer not yet told. *)
Toggle == [call |-> "Do", command |-> "TOGGLE_MUTE", to |-> 0]
TellMute(v) == [call |-> "Tell", field |-> "mute", to |-> v]
Done == [call |-> "Respond", what |-> "none"]

ToStart(v) ==
  <<[call |-> "mpGetHandle", then |-> <<Toggle, TellMute(v)>>, else |-> <<>>], Done>>
ToToggle(v) == <<Toggle, TellMute(v), Done>>
ToTell(v) == <<TellMute(v), Done>>

Agree(v) == mp \in Player => (v = "1") = real[mp].muted

(* Unless they parted, the player is as the renderer says, or as it will say  *)
(* with the next call; and a change that was asked for is a change.          *)
MuteInv ==
  /\ ShapesOK
  /\ gui.at # "pump" => parted
  /\ \/ Quiet(work) /\ (~parted => Agree(mr.mute["Master"]))
     \/ \E v \in {"0", "1"} :
          /\ work \in {ToStart(v), ToToggle(v)}
          /\ ~parted => Agree(mr.mute["Master"]) /\ mr.mute["Master"] # v
     \/ \E v \in {"0", "1"} : work = ToTell(v) /\ (~parted => Agree(v))

(* Sequences of quiet calls are closed under what the steps do with them.     *)
LEMMA QuietThenQuiet == ASSUME NEW s, NEW t, Quiet(s), Quiet(t) PROVE Quiet(s \o t)
<1>1. IsSeq(s) /\ IsSeq(t)
  BY DEF Quiet
<1>2. ASSUME NEW i \in 1 .. Len(s \o t) PROVE QuietSinkCall((s \o t)[i])
  <2>1. CASE i \in 1 .. Len(s)
    BY <2>1, <1>1, Concatenated DEF Quiet
  <2>2. CASE i \in Len(s) + 1 .. Len(s) + Len(t)
    <3>1. (s \o t)[i] = t[i - Len(s)] /\ i - Len(s) \in 1 .. Len(t)
      BY <2>2, <1>1, Concatenated
    <3>2. QED
      BY <3>1 DEF Quiet
  <2>3. QED
    BY <1>1, <2>1, <2>2, Concatenated
<1>3. QED
  BY <1>1, <1>2, Concatenated DEF Quiet

(* Quiet calls after quiet calls are quiet.                                  *)
LEMMA SimpleQuietThen ==
  ASSUME NEW s, NEW t, SimpleQuiet(s), SimpleQuiet(t) PROVE SimpleQuiet(s \o t)
<1>1. IsSeq(s) /\ IsSeq(t) /\ SimpleSeq(s \o t)
  BY SimpleThenSimple DEF SimpleQuiet, SimpleSeq
<1>2. ASSUME NEW i \in 1 .. Len(s \o t) PROVE QuietCall((s \o t)[i])
  <2>1. CASE i \in 1 .. Len(s)
    BY <2>1, <1>1, Concatenated DEF SimpleQuiet
  <2>2. CASE i \in Len(s) + 1 .. Len(s) + Len(t)
    <3>1. (s \o t)[i] = t[i - Len(s)] /\ i - Len(s) \in 1 .. Len(t)
      BY <2>2, <1>1, Concatenated
    <3>2. QED
      BY <3>1 DEF SimpleQuiet
  <2>3. QED
    BY <1>1, <2>1, <2>2, Concatenated
<1>3. QED
  BY <1>1, <1>2 DEF SimpleQuiet

LEMMA SimpleQuietIsQuiet == ASSUME NEW s, SimpleQuiet(s) PROVE Quiet(s)
<1>1. \A i \in 1 .. Len(s) : s[i].call \notin {"mpGetHandle", "IfPlaying"}
  BY DEF SimpleQuiet, SimpleSeq, Simple
<1>2. QED
  BY <1>1 DEF SimpleQuiet, SimpleSeq, Quiet, QuietSinkCall

(* What is left after the first call.                                        *)
LEMMA FirstQuiet ==
  ASSUME NEW s, Quiet(s), s # <<>> PROVE QuietSinkCall(Head(s)) /\ Quiet(Tail(s))
<1>1. PICK T : s \in Seq(T)
  BY DEF Quiet, IsSeq
<1>2. Len(s) \in Nat \ {0} /\ Head(s) = s[1]
  BY <1>1, EmptySeq
<1>3. /\ Tail(s) \in Seq(T) /\ Len(Tail(s)) = Len(s) - 1
      /\ \A i \in 1 .. Len(s) - 1 : Tail(s)[i] = s[i + 1]
  BY <1>1, HeadTailProperties
<1>4. ASSUME NEW i \in 1 .. Len(Tail(s)) PROVE QuietSinkCall(Tail(s)[i])
  <2>1. i \in 1 .. Len(s) - 1 /\ i + 1 \in 1 .. Len(s)
    BY <1>2, <1>3
  <2>2. QED
    BY <2>1, <1>3 DEF Quiet
<1>5. QED
  BY <1>2, <1>3, <1>4 DEF Quiet, IsSeq

(* The calls that sinks are built from are quiet, but for mute.              *)
LEMMA OneQuiet ==
  /\ SimpleQuiet(<<>>)
  /\ \A c \in Command \ {"TOGGLE_MUTE"} : \A v : SimpleQuiet(Do(c, v)) /\ SimpleQuiet(Ask(c))
  /\ \A c : SimpleQuiet(<<[call |-> "FromCache", command |-> c]>>) /\ SimpleQuiet(Choose(c))
  /\ \A f, v : f \notin {"mute", "volume"} => SimpleQuiet(Tell(f, v))
  /\ SimpleQuiet(TellVolume) /\ SimpleQuiet(TellState) /\ SimpleQuiet(Metadata)
  /\ SimpleQuiet(<<[call |-> "mpOpen"]>>)
  /\ \A code : Quiet(Error(code))
  /\ \A what : Quiet(Respond(what))
  /\ \A what, c : Quiet(<<[call |-> "Respond", what |-> what, channel |-> c]>>)
<1>1. ASSUME NEW c, c.call \in Simple, QuietCall(c) PROVE SimpleQuiet(<<c>>)
  <2>1. <<c>> \in Seq({c}) /\ Len(<<c>>) = 1 /\ <<c>>[1] = c
    OBVIOUS
  <2>2. \A i \in 1 .. Len(<<c>>) : <<c>>[i].call \in Simple /\ QuietCall(<<c>>[i])
    BY <2>1, <1>1
  <2>3. QED
    BY <2>1, <2>2 DEF SimpleQuiet, SimpleSeq, IsSeq
<1>2. ASSUME NEW c, QuietSinkCall(c) PROVE Quiet(<<c>>)
  <2>1. <<c>> \in Seq({c}) /\ Len(<<c>>) = 1 /\ <<c>>[1] = c
    OBVIOUS
  <2>2. \A i \in 1 .. Len(<<c>>) : QuietSinkCall(<<c>>[i])
    BY <2>1, <1>2
  <2>3. QED
    BY <2>1, <2>2 DEF Quiet, IsSeq
<1>3. SimpleQuiet(<<>>)
  <2>1. Len(<<>>) = 0
    OBVIOUS
  <2>2. QED
    BY <2>1, OneCall DEF SimpleQuiet
<1>4. /\ \A c \in Command \ {"TOGGLE_MUTE"} : \A v : SimpleQuiet(Do(c, v)) /\ SimpleQuiet(Ask(c))
      /\ \A c : SimpleQuiet(<<[call |-> "FromCache", command |-> c]>>) /\ SimpleQuiet(Choose(c))
  BY <1>1 DEF Do, Ask, Choose, Simple, QuietCall
<1>5. /\ \A f, v : f \notin {"mute", "volume"} => SimpleQuiet(Tell(f, v))
      /\ SimpleQuiet(TellVolume) /\ SimpleQuiet(TellState)
      /\ SimpleQuiet(<<[call |-> "mpOpen"]>>)
  BY <1>1 DEF Tell, TellVolume, TellState, Simple, QuietCall
<1>6. /\ \A code : Quiet(Error(code))
      /\ \A what : Quiet(Respond(what))
      /\ \A what, c : Quiet(<<[call |-> "Respond", what |-> what, channel |-> c]>>)
  BY <1>2 DEF Error, Respond, QuietSinkCall, QuietCall
<1>7. SimpleQuiet(Metadata)
  <2> DEFINE s == <<[call |-> "Metadata"], [call |-> "TakeMetadata"]>>
  <2>1. Len(s) = 2 /\ \A i \in 1 .. 2 : QuietCall(s[i])
    BY DEF QuietCall
  <2>2. QED
    BY <2>1, OneCall DEF SimpleQuiet, Metadata
<1>8. QED
  BY <1>3, <1>4, <1>5, <1>6, <1>7

(* A call with calls to come is quiet when those are.                        *)
LEMMA QuietConditional ==
  /\ \A s, t : SimpleQuiet(s) /\ SimpleQuiet(t) => Quiet(IfPlayer(s, t))
  /\ \A s : SimpleQuiet(s) => Quiet(<<[call |-> "IfPlaying", then |-> s]>>)
<1>1. ASSUME NEW c, QuietSinkCall(c) PROVE Quiet(<<c>>)
  <2>1. <<c>> \in Seq({c}) /\ Len(<<c>>) = 1 /\ <<c>>[1] = c
    OBVIOUS
  <2>2. \A i \in 1 .. Len(<<c>>) : QuietSinkCall(<<c>>[i])
    BY <2>1, <1>1
  <2>3. QED
    BY <2>1, <2>2 DEF Quiet, IsSeq
<1>2. QED
  BY <1>1 DEF IfPlayer, QuietSinkCall, QuietCall

(* Only the sink for a change of mute, and only on the channel Master, has to *)
(* do with mute.                                                             *)
LEMMA QuietSinks ==
  /\ \A channel, v : /\ Quiet(MROnVolumeChangeRequestSink(channel, v))
                     /\ channel # "Master" => Quiet(MROnMuteChangeRequestSink(channel, v))
                     /\ Quiet(MROnMediaChangeRequestSink(channel, v))
  /\ \A v : /\ Quiet(MROnSeekRequestSink(v)) /\ Quiet(MROnNextPreviousRequestSink(v))
            /\ v \in PlayState => Quiet(MROnStateChangeRequestSink(v))
            /\ Quiet(MROnSetMediaPlayerSink(v))
  /\ Quiet(MROnGetPositionRequestSink) /\ Quiet(MROnGetMediaRequestSink)
  /\ Quiet(MROnPlayModeChangeRequestSink) /\ Quiet(MROnGetTransportRequestSink)
  /\ Quiet(MROnGetMediaPlayersListSink)
  /\ Quiet(Metadata)
<1> USE OneQuiet, SimpleQuietThen, QuietThenQuiet, SimpleQuietIsQuiet, QuietConditional
<1>1. ASSUME NEW channel, NEW v PROVE Quiet(MROnVolumeChangeRequestSink(channel, v))
  <2>1. SimpleQuiet(IF v = -1 THEN <<>> ELSE Do("SET_VOLUME", v))
    BY DEF Command
  <2>2. SimpleQuiet(Ask("GET_VOLUME"))
    BY DEF Command
  <2>3. QED
    BY <2>1, <2>2 DEF MROnVolumeChangeRequestSink
<1>2. ASSUME NEW channel, NEW v, channel # "Master"
      PROVE  Quiet(MROnMuteChangeRequestSink(channel, v))
  BY <1>2 DEF MROnMuteChangeRequestSink
<1>3. ASSUME NEW uri, NEW v PROVE Quiet(MROnMediaChangeRequestSink(uri, v))
  <2>1. SimpleQuiet(Ask("GET_VOLUME")) /\ SimpleQuiet(Tell("metadata", v))
    BY DEF Command
  <2>2. SimpleQuiet(IF uri.player = NULL THEN <<>> ELSE Choose(uri.player))
    OBVIOUS
  <2>3. QED
    BY <2>1, <2>2 DEF MROnMediaChangeRequestSink
<1>4. ASSUME NEW v
      PROVE  /\ Quiet(MROnSeekRequestSink(v)) /\ Quiet(MROnNextPreviousRequestSink(v))
             /\ v \in PlayState => Quiet(MROnStateChangeRequestSink(v))
             /\ Quiet(MROnSetMediaPlayerSink(v))
  BY DEF MROnSeekRequestSink, MROnNextPreviousRequestSink, MROnStateChangeRequestSink,
         MROnSetMediaPlayerSink, Command, PlayState
<1>5. Quiet(MROnGetPositionRequestSink) /\ Quiet(MROnGetMediaRequestSink)
  <2>1. /\ SimpleQuiet(Ask("GET_POSITION")) /\ SimpleQuiet(Ask("GET_DURATION"))
        /\ SimpleQuiet(Do("GET_FILENAME", 0))
    BY DEF Command
  <2>2. QED
    BY <2>1 DEF MROnGetPositionRequestSink, MROnGetMediaRequestSink
<1>6. /\ Quiet(MROnPlayModeChangeRequestSink) /\ Quiet(MROnGetTransportRequestSink)
      /\ Quiet(MROnGetMediaPlayersListSink)
  <2>1. /\ SimpleQuiet(Ask("GET_STATE")) /\ SimpleQuiet(Tell("status", "OK"))
        /\ SimpleQuiet(Tell("state", "NO_MEDIA_PRESENT"))
        /\ SimpleQuiet(Tell("status", "ERROR_OCCURRED"))
    BY DEF Command
  <2>2. QED
    BY <2>1 DEF MROnPlayModeChangeRequestSink, MROnGetTransportRequestSink,
                MROnGetMediaPlayersListSink
<1>7. QED
  BY <1>1, <1>2, <1>3, <1>4, <1>5, <1>6

(* What a change of mute comes to, call by call.                             *)
LEMMA MuteSink ==
  ASSUME NEW v
  PROVE  MROnMuteChangeRequestSink("Master", v) \o Respond("none") = ToStart(v)
<1>1. Do("TOGGLE_MUTE", 0) \o Tell("mute", v) = <<Toggle, TellMute(v)>>
  BY Tuples DEF Do, Tell, Toggle, TellMute
<1>2. MROnMuteChangeRequestSink("Master", v)
        = <<[call |-> "mpGetHandle", then |-> <<Toggle, TellMute(v)>>, else |-> <<>>]>>
  BY <1>1 DEF MROnMuteChangeRequestSink, IfPlayer
<1>3. QED
  BY <1>2, Tuples DEF ToStart, Respond, Done

(* Every handler of an action that was let pass is quiet, or a change of mute *)
(* of the player.                                                            *)
LEMMA HandlerQuiet ==
  ASSUME NEW r, NEW e, UPnPProcessPOST(r, e).fault = 0
  PROVE  \/ Quiet(Handler(r))
         \/ r.action = "SetMute" /\ Handler(r) = ToStart(MuteOf(r.args["DesiredMute"]))
<1>1. \A s, what, c : Quiet(s) => /\ Quiet(s \o Respond(what))
                                  /\ Quiet(s \o <<[call |-> "Respond", what |-> what, channel |-> c]>>)
  BY OneQuiet, QuietThenQuiet
<1>2. \A s : Quiet(s) => Quiet(OfInstance(r, s))
  BY OneQuiet DEF OfInstance
<1> USE QuietSinks, OneQuiet, QuietThenQuiet, <1>1, <1>2
<1>3. CASE r.action \in {"GetCurrentTransportActions", "GetDeviceCapabilities",
                        "GetTransportSettings", "GetMute", "GetCurrentConnectionIDs",
     "GetProtocolInfo",
                        "GetCurrentConnectionInfo"}
  BY <1>3 DEF Handler, UPnPAVTransport_GetCurrentTransportActions,
       UPnPAVTransport_GetDeviceCapabilities,
    UPnPAVTransport_GetTransportSettings, UPnPRenderingControl_GetMute,
    UPnPConnectionManager_GetCurrentConnectionIDs, UPnPConnectionManager_GetProtocolInfo,
    UPnPConnectionManager_GetCurrentConnectionInfo, UPnPResponse_AVTransport,
    UPnPResponse_ConnectionManager, UPnPResponse_RenderingControl
<1>4. CASE r.action \in {"GetMediaInfo", "GetPositionInfo", "GetTransportInfo"}
  BY <1>4 DEF Handler, UPnPAVTransport_GetMediaInfo, UPnPAVTransport_GetPositionInfo,
              UPnPAVTransport_GetTransportInfo, UPnPResponse_AVTransport
<1>5. CASE r.action \in {"Next", "Previous", "Play", "Pause", "Stop", "SetAVTransportURI",
                        "SetPlayMode"}
  <2>1. \A v \in PlayState : Quiet(MROnStateChangeRequestSink(v))
    OBVIOUS
  <2>2. {"PLAYING", "PAUSED_PLAYBACK", "STOPPED"} \subseteq PlayState
    BY DEF PlayState
  <2>3. QED
    BY <2>1, <2>2, <1>5 DEF Handler, UPnPAVTransport_Next, UPnPAVTransport_Previous,
       UPnPAVTransport_Play, UPnPAVTransport_Pause, UPnPAVTransport_Stop,
       UPnPAVTransport_SetAVTransportURI, UPnPAVTransport_SetPlayMode, UPnPResponse_AVTransport
<1>6. CASE r.action = "Seek"
  <2>1. r.args["Unit"] \in {"ABS_COUNT", "TRACK_NR", "REL_TIME"}
    BY <1>6, Dispatched DEF SeekModes
  <2>2. \E n : \/ UPnPAVTransport_Seek(r) = OfInstance(r, Error(710))
               \/ UPnPAVTransport_Seek(r) = OfInstance(r, Error(711))
               \/ UPnPAVTransport_Seek(r) = OfInstance(r, MROnSeekRequestSink(n) \o Respond("none"))
    BY <2>1 DEF UPnPAVTransport_Seek, UPnPResponse_AVTransport
  <2>3. QED
    BY <2>2, <1>6 DEF Handler
<1>7. CASE r.action \in {"GetVolume", "SetVolume", "upnpRenderer_GetMediaPlayersList",
                        "upnpRenderer_SetMediaPlayer"}
  BY <1>7 DEF Handler, UPnPRenderingControl_GetVolume, UPnPRenderingControl_SetVolume,
    UPnPRenderingControl_upnpRenderer_GetMediaPlayersList,
    UPnPRenderingControl_upnpRenderer_SetMediaPlayer, UPnPResponse_RenderingControl
<1>8. CASE r.action = "SetMute"
  <2> DEFINE v == MuteOf(r.args["DesiredMute"])
  <2>1. Handler(r) = OfInstance(r, MROnMuteChangeRequestSink(r.args["Channel"], v) \o Respond("none"))
    BY <1>8 DEF Handler, UPnPRenderingControl_SetMute, UPnPResponse_RenderingControl
  <2>2. CASE r.args["Channel"] # "Master"
    BY <2>1, <2>2
  <2>3. CASE r.args["Channel"] = "Master"
    <3>1. Handler(r) = OfInstance(r, ToStart(v))
      BY <2>1, <2>3, MuteSink
    <3>2. Handler(r) \in {ToStart(v), Error(718)}
      BY <3>1 DEF OfInstance
    <3>3. Quiet(Error(718))
      OBVIOUS
    <3>4. QED
      BY <1>8, <3>2, <3>3
  <2>4. QED
    BY <2>2, <2>3
<1>9. QED
  BY <1>3, <1>4, <1>5, <1>6, <1>7, <1>8, Dispatched

(* The next call of a change of mute, and what is left then.                  *)
LEMMA MuteCalls ==
  ASSUME NEW v
  PROVE  /\ Head(ToStart(v)).call = "mpGetHandle" /\ Head(ToToggle(v)) = Toggle
         /\ Head(ToTell(v)) = TellMute(v)
         /\ Head(ToToggle(v)).call = "Do" /\ Head(ToTell(v)).call = "Tell"
         /\ Head(ToStart(v)).then \o Tail(ToStart(v)) = ToToggle(v)
         /\ Quiet(Head(ToStart(v)).else \o Tail(ToStart(v)))
         /\ Tail(ToToggle(v)) = ToTell(v) /\ Quiet(Tail(ToTell(v)))
<1>1. /\ Head(ToStart(v)) = [call |-> "mpGetHandle", then |-> <<Toggle, TellMute(v)>>, else |-> <<>>]
      /\ Tail(ToStart(v)) = <<Done>>
  BY DEF ToStart
<1>2. Head(ToToggle(v)) = Toggle /\ Tail(ToToggle(v)) = <<TellMute(v), Done>>
  BY DEF ToToggle
<1>3. Head(ToTell(v)) = TellMute(v) /\ Tail(ToTell(v)) = <<Done>>
  BY DEF ToTell
<1>4. Quiet(<<Done>>)
  BY OneQuiet DEF Respond, Done
<1>5. Quiet(<<>> \o <<Done>>)
  BY <1>4, OneQuiet, SimpleQuietIsQuiet, QuietThenQuiet
<1>6. <<Toggle, TellMute(v)>> \o <<Done>> = ToToggle(v)
  BY Tuples DEF ToToggle
<1>7. /\ Head(ToStart(v)).call = "mpGetHandle"
      /\ Head(ToStart(v)).then = <<Toggle, TellMute(v)>> /\ Head(ToStart(v)).else = <<>>
  BY <1>1
<1>8. /\ Head(ToStart(v)).then \o Tail(ToStart(v)) = ToToggle(v)
      /\ Quiet(Head(ToStart(v)).else \o Tail(ToStart(v)))
  BY <1>1, <1>5, <1>6, <1>7, Zenon
<1>9. Head(ToToggle(v)).call = "Do" /\ Head(ToTell(v)).call = "Tell"
  BY <1>2, <1>3 DEF Toggle, TellMute
<1>10. QED
  BY <1>2, <1>3, <1>4, <1>7, <1>8, <1>9 DEF ToTell

(* What leaves the calls, the renderer's mute and whether a player is muted   *)
(* alone keeps the invariant, and so does parting.                           *)
LEMMA MuteKeeps ==
  ASSUME MuteInv, ShapesOK', work' = work, mr'.mute = mr.mute,
         gui'.at # "pump" => parted', parted => parted',
         ~parted' /\ mp' \in Player => mp' = mp /\ real'[mp].muted = real[mp].muted
  PROVE  MuteInv'
<1>1. \A v : ~parted' /\ Agree(v) => Agree(v)'
  BY DEF Agree
<1>2. QED
  BY <1>1 DEF MuteInv

(* The same for a call that leaves quiet ones.                               *)
LEMMA QuietCallKeeps ==
  ASSUME MuteInv, ShapesOK', Quiet(work), Quiet(work'), mr'.mute = mr.mute, gui' = gui,
         parted => parted', mp' = mp,
         ~parted' /\ mp \in Player => real'[mp].muted = real[mp].muted
  PROVE  MuteInv'
<1>1. \A v \in {"0", "1"} : work \notin {ToStart(v), ToToggle(v), ToTell(v)}
  <2> SUFFICES ASSUME NEW v \in {"0", "1"}, work \in {ToStart(v), ToToggle(v), ToTell(v)}
               PROVE  FALSE
    OBVIOUS
  <2>1. work # <<>>
    <3>1. Len(work) # 0
      BY DEF ToStart, ToToggle, ToTell
    <3>2. QED
      BY <3>1
  <2>2. QuietSinkCall(Head(work))
    BY <2>1, FirstQuiet
  <2>3. Head(work) # Toggle /\ Head(work) # TellMute(v)
    BY <2>2 DEF QuietSinkCall, QuietCall, Toggle, TellMute
  <2>4. work = ToStart(v)
    BY <2>3, MuteCalls
  <2>5. SimpleQuiet(<<Toggle, TellMute(v)>>)
    BY <2>2, <2>4 DEF ToStart, QuietSinkCall
  <2>6. QuietCall(<<Toggle, TellMute(v)>>[1])
    BY <2>5 DEF SimpleQuiet
  <2>7. QED
    BY <2>6 DEF QuietCall, Toggle
<1>2. ~parted => Agree(mr.mute["Master"])
  BY <1>1 DEF MuteInv
<1>3. ~parted' => Agree(mr.mute["Master"])'
  BY <1>2 DEF Agree
<1>4. QED
  BY <1>3 DEF MuteInv

(* The steps keep the shapes.                                                *)
LEMMA PlayerDoesShape ==
  ASSUME NEW s, PlayerShape(s), NEW c, NEW v
  PROVE  /\ PlayerShape(PlayerDoes(s, c, v))
         /\ PlayerDoes(s, c, v).muted = IF c = "TOGGLE_MUTE" THEN ~s.muted ELSE s.muted
         /\ c \in {"GET_VOLUME", "GET_STATE"} => PlayerDoes(s, c, v) = s
<1>1. CASE c = "TOGGLE_MUTE"
  BY <1>1 DEF PlayerDoes, PlayerShape
<1>2. CASE c = "SET_VOLUME"
  BY <1>2 DEF PlayerDoes, PlayerShape
<1>3. CASE c \in {"PLAY", "PAUSE", "STOP"}
  BY <1>3 DEF PlayerDoes, PlayerShape, PlayState
<1>4. CASE c \notin {"TOGGLE_MUTE", "SET_VOLUME", "PLAY", "PAUSE", "STOP"}
  BY <1>4 DEF PlayerDoes, PlayerShape
<1>5. QED
  BY <1>1, <1>2, <1>3, <1>4

(* One player changes, and has the shape of a player.                        *)
LEMMA RealKept ==
  ASSUME ShapesOK, NEW p \in Player, NEW s, PlayerShape(s), real' = [real EXCEPT ![p] = s]
  PROVE  /\ DOMAIN real' = Player /\ real'[p] = s
         /\ \A q \in Player : PlayerShape(real'[q])
BY DEF ShapesOK

(* What keeps the shapes of the players and of the renderer.                 *)
LEMMA ShapesFrom ==
  ASSUME ShapesOK, DOMAIN real' = Player, \A p \in Player : PlayerShape(real[p])',
         DOMAIN mr' = DOMAIN mr, DOMAIN mr'.volume = DOMAIN mr.volume,
         DOMAIN mr'.mute = DOMAIN mr.mute, mr'.mute["Master"] \in {"0", "1"}
  PROVE  ShapesOK'
BY DEF ShapesOK, PlayerShape

(* What a command that is sent does to the player: nothing, what another      *)
(* command than that for mute does, or, for this one, the toggle.            *)
LEMMA SentEffect ==
  ASSUME ShapesOK, SendHttp \/ SendWindow
  PROVE  /\ work # <<>> /\ Head(work).call \in {"Do", "Ask"}
         /\ UNCHANGED <<mr, mp, gui>> /\ (parted => parted')
         /\ \/ work' = Tail(work) \/ work' = <<>> \o Tail(work)
            \/ Head(work).call = "Ask"
               /\ work' = <<[call |-> "FromCache", command |-> Head(work).command]>> \o Tail(work)
         /\ DOMAIN real' = Player /\ \A p \in Player : PlayerShape(real'[p])
         /\ Head(work).command \in Command \ {"TOGGLE_MUTE"} =>
              \A p \in Player : real'[p].muted = real[p].muted
         /\ Head(work).call = "Do" /\ Head(work).command = "TOGGLE_MUTE" /\ ~parted' =>
              mp \in Player /\ real'[mp].muted = ~real[mp].muted
<1> DEFINE c == Head(work).command
<1>1. CASE SendHttp
  <2>1. /\ work # <<>> /\ Head(work).call \in {"Do", "Ask"} /\ mp \in Player
        /\ UNCHANGED <<mr, mp, gui>> /\ (parted => parted') /\ work' = Tail(work)
    BY <1>1 DEF SendHttp, Call, ByHttp, guiVars
  <2>2. \/ real' = real /\ (Head(work).call = "Do" /\ c = "TOGGLE_MUTE" => parted')
        \/ real' = [real EXCEPT ![mp] = PlayerDoes(real[mp], c, Head(work).to)]
    BY <1>1 DEF SendHttp, Asked
  <2>3. CASE real' = real /\ (Head(work).call = "Do" /\ c = "TOGGLE_MUTE" => parted')
    BY <2>1, <2>3 DEF ShapesOK
  <2>4. CASE real' = [real EXCEPT ![mp] = PlayerDoes(real[mp], c, Head(work).to)]
    <3>1. PlayerShape(real[mp])
      BY <2>1 DEF ShapesOK
    <3>6. PICK s : s = PlayerDoes(real[mp], c, Head(work).to)
      OBVIOUS
    <3>7. PlayerShape(s) /\ real' = [real EXCEPT ![mp] = s]
      BY <2>4, <3>1, <3>6, PlayerDoesShape
    <3>8. mp \in Player
      BY <2>1
    <3>9. DOMAIN real' = Player /\ real'[mp] = s /\ \A q \in Player : PlayerShape(real'[q])
      BY <3>7, <3>8, RealKept
    <3>2. /\ DOMAIN real' = Player /\ real'[mp] = PlayerDoes(real[mp], c, Head(work).to)
          /\ \A q \in Player : PlayerShape(real'[q])
      BY <3>6, <3>9
    <3>3. \A q \in Player : q # mp => real'[q] = real[q]
      BY <2>4 DEF ShapesOK
    <3>4. real'[mp].muted = IF c = "TOGGLE_MUTE" THEN ~real[mp].muted ELSE real[mp].muted
      BY <3>1, <3>2, PlayerDoesShape
    <3>5. QED
      BY <2>1, <3>2, <3>3, <3>4
  <2>5. QED
    BY <2>2, <2>3, <2>4
<1>2. CASE SendWindow
  <2>1. /\ work # <<>> /\ Head(work).call \in {"Do", "Ask"}
        /\ UNCHANGED <<mr, mp, gui>>
    <3>1. Call({"Do", "Ask"})
      BY <1>2, Zenon DEF SendWindow
    <3>2. UNCHANGED <<requestVars, playerHandle, answers, mr, mp, hMP, gui, sent, crashed, hand>>
      BY <1>2, Zenon DEF SendWindow
    <3>3. QED
      BY <3>1, <3>2 DEF Call
  <2>7. parted => parted'
    BY <1>2, Zenon DEF SendWindow
  <2>6. \/ work' = <<>> \o Tail(work)
        \/ /\ Head(work).call = "Ask"
           /\ work' = <<[call |-> "FromCache", command |-> Head(work).command]>> \o Tail(work)
    BY <1>2, Zenon DEF SendWindow, Asked
  <2>2. /\ c = "TOGGLE_MUTE" /\ ~parted' => Understood(c) = {c}
        /\ Understood(c) = {} => real' = real
        /\ Understood(c) # {} =>
             \E v : real' = [real EXCEPT ![mp] = PlayerDoes(real[mp], CHOOSE d \in Understood(c) : TRUE, v)]
    <3>1. /\ parted' = (parted \/ (c = "TOGGLE_MUTE" /\ Understood(c) # {c}))
          /\ \E v : real' = IF Understood(c) = {} THEN real
                         ELSE [real EXCEPT ![mp] = PlayerDoes(real[mp], CHOOSE d \in Understood(c) : TRUE, v)]
      BY <1>2, Zenon DEF SendWindow
    <3>2. QED
      BY <3>1
  <2>3. CASE Understood(c) = {}
    BY <2>1, <2>2, <2>3, <2>6, <2>7 DEF ShapesOK
  <2>4. CASE Understood(c) # {}
    <3>1. PICK v : real' = [real EXCEPT ![mp] = PlayerDoes(real[mp], CHOOSE d \in Understood(c) : TRUE, v)]
      BY <2>2, <2>4
    <3>2. PICK d \in Understood(c) : d = CHOOSE e \in Understood(c) : TRUE
      BY <2>4
    <3>3. mp \in Player
      BY <2>4 DEF Understood
    <3>4. PlayerShape(real[mp])
      BY <3>3 DEF ShapesOK
    <3>5. real' = [real EXCEPT ![mp] = PlayerDoes(real[mp], d, v)]
      BY <3>1, <3>2
    <3>6. /\ DOMAIN real' = Player /\ real'[mp] = PlayerDoes(real[mp], d, v)
          /\ \A q \in Player : PlayerShape(real'[q])
      BY <3>3, <3>4, <3>5, PlayerDoesShape, RealKept
    <3>7. \A q \in Player : q # mp => real'[q] = real[q]
      BY <3>5 DEF ShapesOK
    <3>8. real'[mp].muted = IF d = "TOGGLE_MUTE" THEN ~real[mp].muted ELSE real[mp].muted
      BY <3>4, <3>6, PlayerDoesShape
    <3>9. /\ c \in Command \ {"TOGGLE_MUTE"} => d # "TOGGLE_MUTE"
          /\ c = "TOGGLE_MUTE" /\ ~parted' => d = "TOGGLE_MUTE"
      BY <2>2, OwnCommand
    <3>10. QED
      BY <2>1, <2>6, <2>7, <3>3, <3>6, <3>7, <3>8, <3>9
  <2>5. QED
    BY <2>3, <2>4
<1>3. QED
  BY <1>1, <1>2

(* A call that is none of those for mute has only quiet ones after it.        *)
LEMMA QuietUnless ==
  ASSUME MuteInv, Head(work).call \notin {"mpGetHandle", "Do", "Tell"} PROVE Quiet(work)
<1>1. ASSUME NEW v, work \in {ToStart(v), ToToggle(v), ToTell(v)} PROVE FALSE
  <2>1. Head(work).call \in {"mpGetHandle", "Do", "Tell"}
    BY <1>1, MuteCalls
  <2>2. QED
    BY <2>1
<1>2. QED
  BY <1>1 DEF MuteInv

LEMMA EmptyThen == ASSUME NEW s, IsSeq(s) PROVE <<>> \o s = s
BY ConcatEmptySeq DEF IsSeq

LEMMA SendKeepsMute == ASSUME MuteInv, SendHttp \/ SendWindow PROVE MuteInv'
<1>1. ShapesOK
  BY DEF MuteInv
<1>2. /\ work # <<>> /\ Head(work).call \in {"Do", "Ask"}
      /\ UNCHANGED <<mr, mp, gui>> /\ (parted => parted')
      /\ \/ work' = Tail(work) \/ work' = <<>> \o Tail(work)
         \/ Head(work).call = "Ask"
            /\ work' = <<[call |-> "FromCache", command |-> Head(work).command]>> \o Tail(work)
      /\ Head(work).command \in Command \ {"TOGGLE_MUTE"} =>
           \A p \in Player : real'[p].muted = real[p].muted
      /\ Head(work).call = "Do" /\ Head(work).command = "TOGGLE_MUTE" /\ ~parted' =>
           mp \in Player /\ real'[mp].muted = ~real[mp].muted
  BY <1>1, SentEffect
<1>3. ShapesOK'
  BY <1>1, SentEffect DEF ShapesOK
<1>4. CASE Quiet(work)
  <2>1. QuietSinkCall(Head(work)) /\ Quiet(Tail(work))
    BY <1>2, <1>4, FirstQuiet
  <2>2. Head(work).command \in Command \ {"TOGGLE_MUTE"}
    BY <1>2, <2>1 DEF QuietSinkCall, QuietCall
  <2>3. Quiet(work')
    <3>1. Quiet(<<>>) /\ \A c : Quiet(<<[call |-> "FromCache", command |-> c]>>)
      BY OneQuiet, SimpleQuietIsQuiet
    <3>2. QED
      BY <1>2, <2>1, <3>1, QuietThenQuiet
  <2>4. QED
    BY <1>2, <1>3, <1>4, <2>2, <2>3, QuietCallKeeps
<1>5. ASSUME NEW v \in {"0", "1"}, work = ToToggle(v),
             ~parted => Agree(mr.mute["Master"]) /\ mr.mute["Master"] # v
      PROVE  MuteInv'
  <2>1. Head(work) = Toggle /\ Tail(work) = ToTell(v)
    BY <1>5, MuteCalls
  <2>2. IsSeq(ToTell(v))
    <3>1. ToTell(v) \in Seq({TellMute(v), Done})
      BY DEF ToTell
    <3>2. QED
      BY <3>1 DEF IsSeq
  <2>3. work' = ToTell(v)
    <3>1. Head(work).call = "Do"
      BY <1>5, MuteCalls
    <3>2. <<>> \o Tail(work) = ToTell(v)
      BY <2>1, <2>2, EmptyThen
    <3>3. QED
      BY <1>2, <2>1, <3>1, <3>2
  <2>4. ~parted' => Agree(v)'
    <3>1. mr.mute["Master"] \in {"0", "1"}
      BY <1>1 DEF ShapesOK
    <3>2. ASSUME ~parted'
          PROVE  mp' = mp /\ mp \in Player /\ real'[mp].muted = ~real[mp].muted
      BY <1>2, <2>1, <3>2 DEF Toggle
    <3>3. mp \in Player => real[mp].muted \in BOOLEAN
      BY <1>1 DEF ShapesOK, PlayerShape
    <3>4. ~parted' => (mr.mute["Master"] = "1") = real[mp].muted /\ mr.mute["Master"] # v
      BY <1>2, <1>5, <3>2 DEF Agree
    <3>5. ~parted' => (v = "1") = real'[mp].muted
      BY <3>1, <3>2, <3>3, <3>4
    <3>6. QED
      BY <3>2, <3>5 DEF Agree
  <2>5. QED
    BY <1>2, <1>3, <2>3, <2>4 DEF MuteInv
<1>6. ASSUME NEW v, work \in {ToStart(v), ToTell(v)} PROVE FALSE
  <2>1. Head(work).call \in {"mpGetHandle", "Tell"}
    BY <1>6, MuteCalls
  <2>2. QED
    BY <1>2, <2>1
<1>7. QED
  BY <1>4, <1>5, <1>6 DEF MuteInv

LEMMA HandleKeepsMute == ASSUME MuteInv, mpGetHandle PROVE MuteInv'
<1>1. /\ work # <<>> /\ Head(work).call = "mpGetHandle"
      /\ UNCHANGED <<mr, mp, gui, real, parted>>
      /\ \/ work' = Head(work).then \o Tail(work) \/ work' = Head(work).else \o Tail(work)
  BY DEF mpGetHandle, Call, guiVars
<1>2. ShapesOK'
  BY <1>1 DEF MuteInv, ShapesOK, PlayerShape
<1>3. CASE Quiet(work)
  <2>1. QuietSinkCall(Head(work)) /\ Quiet(Tail(work))
    BY <1>1, <1>3, FirstQuiet
  <2>2. Quiet(Head(work).then) /\ Quiet(Head(work).else)
    BY <1>1, <2>1, SimpleQuietIsQuiet DEF QuietSinkCall
  <2>3. Quiet(work')
    BY <1>1, <2>1, <2>2, QuietThenQuiet
  <2>4. QED
    BY <1>1, <1>2, <1>3, <2>3, QuietCallKeeps
<1>4. ASSUME NEW v \in {"0", "1"}, work = ToStart(v),
             ~parted => Agree(mr.mute["Master"]) /\ mr.mute["Master"] # v
      PROVE  MuteInv'
  <2>1. work' = ToToggle(v) \/ Quiet(work')
    BY <1>1, <1>4, MuteCalls
  <2>2. ~parted' => Agree(mr.mute["Master"])' /\ mr'.mute["Master"] # v
    BY <1>1, <1>4 DEF Agree
  <2>3. QED
    BY <1>1, <1>2, <2>1, <2>2 DEF MuteInv
<1>5. ASSUME NEW v, work \in {ToToggle(v), ToTell(v)} PROVE FALSE
  <2>1. Head(work).call \in {"Do", "Tell"}
    BY <1>5, MuteCalls
  <2>2. QED
    BY <1>1, <2>1
<1>6. QED
  BY <1>3, <1>4, <1>5 DEF MuteInv

LEMMA TellKeepsMute == ASSUME MuteInv, MRSet PROVE MuteInv'
<1> DEFINE h == Head(work)
<1>1. /\ work # <<>> /\ h.call \in {"Tell", "TellVolume", "TellState"} /\ work' = Tail(work)
      /\ UNCHANGED <<mp, gui, real, parted>>
      /\ mr' = CASE h.call = "TellVolume" -> [mr EXCEPT !.volume["Master"] = value]
                 [] h.call = "TellState" -> [mr EXCEPT !.state = StateOf(value)]
                 [] h.call = "Tell" /\ h.field = "mute" -> [mr EXCEPT !.mute["Master"] = h.to]
                 [] OTHER -> [mr EXCEPT ![h.field] = h.to]
  BY DEF MRSet, Call, mpVars, guiVars
<1>2. ShapesOK
  BY DEF MuteInv
<1>3. CASE Quiet(work)
  <2>1. QuietSinkCall(h) /\ Quiet(work')
    BY <1>1, <1>3, FirstQuiet
  <2>2. h.call = "Tell" => h.field \notin {"mute", "volume"}
    BY <2>1 DEF QuietSinkCall, QuietCall
  <2>3. \/ mr' = [mr EXCEPT !.volume["Master"] = value]
        \/ \E f, v : f \notin {"mute", "volume"} /\ mr' = [mr EXCEPT ![f] = v]
    BY <1>1, <2>2
  <2>4. /\ mr'.mute = mr.mute /\ DOMAIN mr' = DOMAIN mr /\ DOMAIN mr'.volume = DOMAIN mr.volume
    BY <2>3, <1>2 DEF ShapesOK
  <2>5. ShapesOK'
    BY <1>1, <1>2, <2>4 DEF ShapesOK, PlayerShape
  <2>6. QED
    BY <1>1, <1>3, <2>1, <2>4, <2>5, QuietCallKeeps
<1>4. ASSUME NEW v \in {"0", "1"}, work = ToTell(v), ~parted => Agree(v) PROVE MuteInv'
  <2>1. Head(work) = TellMute(v) /\ Quiet(work')
    BY <1>1, <1>4, MuteCalls
  <2>2. mr' = [mr EXCEPT !.mute["Master"] = v]
    BY <1>1, <2>1 DEF TellMute
  <2>3. /\ mr'.mute["Master"] = v /\ DOMAIN mr' = DOMAIN mr /\ mr'.volume = mr.volume
        /\ DOMAIN mr'.mute = DOMAIN mr.mute
    BY <2>2, <1>2 DEF ShapesOK
  <2>4. ShapesOK'
    BY <1>1, <1>2, <2>3 DEF ShapesOK, PlayerShape
  <2>5. ~parted' => Agree(mr.mute["Master"])'
    BY <1>1, <1>4, <2>3 DEF Agree
  <2>6. QED
    BY <1>1, <2>1, <2>4, <2>5 DEF MuteInv
<1>5. ASSUME NEW v, work \in {ToStart(v), ToToggle(v)} PROVE FALSE
  <2>1. Head(work).call \in {"mpGetHandle", "Do"}
    BY <1>5, MuteCalls
  <2>2. QED
    BY <1>1, <2>1
<1>6. QED
  BY <1>3, <1>4, <1>5 DEF MuteInv

LEMMA ChainKeepsMute == ASSUME MuteInv, ChainStep PROVE MuteInv'
<1>1. CASE UseFreed
  <2>1. UNCHANGED <<work, mr, mp, real, gui, parted>>
    BY <1>1 DEF UseFreed, chainVars, mpVars, guiVars
  <2>2. ShapesOK'
    BY <2>1 DEF MuteInv, ShapesOK, PlayerShape
  <2>3. gui'.at # "pump" => parted'
    BY <2>1 DEF MuteInv
  <2>4. QED
    BY <2>1, <2>2, <2>3, MuteKeeps
<1>2. CASE FromCache \/ CheckControlMenu \/ UPnPResponse_Error \/ UPnPResponseGeneric
           \/ ComputeMetadata \/ mpOpen
  <2>1. /\ work # <<>> /\ work' = Tail(work) /\ UNCHANGED <<mp, gui, parted>>
        /\ Head(work).call \notin {"mpGetHandle", "Do", "Tell"}
    <3>1. CASE FromCache
      BY <3>1 DEF FromCache, Call, mpVars, guiVars, historyVars
    <3>2. CASE CheckControlMenu
      BY <3>2 DEF CheckControlMenu, Call, mpVars
    <3>3. CASE UPnPResponse_Error
      BY <3>3 DEF UPnPResponse_Error, Call, mpVars, guiVars, historyVars
    <3>4. CASE UPnPResponseGeneric
      <4>1. Call({"Respond"}) /\ work' = Tail(work) /\ UNCHANGED <<mpVars, guiVars, parted>>
        BY <3>4, Zenon DEF UPnPResponseGeneric
      <4>2. QED
        BY <4>1 DEF Call, mpVars, guiVars
    <3>5. CASE ComputeMetadata
      BY <3>5 DEF ComputeMetadata, MakeMetadata, TakeMetadata, Call, mpVars, guiVars
    <3>6. CASE mpOpen
      BY <3>6 DEF mpOpen, Call, guiVars
    <3>7. QED
      BY <1>2, <3>1, <3>2, <3>3, <3>4, <3>5, <3>6
  <2>2. \/ mr' = mr \/ mr' = [mr EXCEPT !.metadata = "generated"]
    BY <1>2 DEF FromCache, CheckControlMenu, UPnPResponse_Error, UPnPResponseGeneric,
                ComputeMetadata, MakeMetadata, TakeMetadata, mpOpen
  <2>3. \/ real' = real
        \/ mp \in Player /\ real' = [real EXCEPT ![mp].open = TRUE]
    BY <1>2 DEF FromCache, CheckControlMenu, UPnPResponse_Error, UPnPResponseGeneric,
                ComputeMetadata, MakeMetadata, TakeMetadata, mpOpen
  <2>4. ShapesOK /\ Quiet(work) /\ Quiet(work')
    BY <2>1, QuietUnless, FirstQuiet DEF MuteInv
  <2>5. mr'.mute = mr.mute /\ mr'.volume = mr.volume /\ DOMAIN mr' = DOMAIN mr
    BY <2>2, <2>4 DEF ShapesOK
  <2>6. /\ DOMAIN real' = Player
        /\ \A p \in Player : PlayerShape(real'[p]) /\ real'[p].muted = real[p].muted
    BY <2>3, <2>4 DEF ShapesOK, PlayerShape
  <2>7. ShapesOK'
    BY <2>4, <2>5, <2>6 DEF ShapesOK, PlayerShape
  <2>8. QED
    BY <2>1, <2>4, <2>5, <2>6, <2>7, QuietCallKeeps
<1>3. CASE IfPlaying
  <2>1. /\ work # <<>> /\ Head(work).call = "IfPlaying"
        /\ UNCHANGED <<mr, mp, gui, real, parted>>
        /\ \/ work' = Head(work).then \o Tail(work) \/ work' = <<>> \o Tail(work)
    BY <1>3 DEF IfPlaying, Call, mpVars, guiVars, historyVars
  <2>2. ShapesOK'
    BY <2>1 DEF MuteInv, ShapesOK, PlayerShape
  <2>3. Quiet(work)
    BY <2>1, QuietUnless
  <2>4. QuietSinkCall(Head(work)) /\ Quiet(Tail(work))
    BY <2>1, <2>3, FirstQuiet
  <2>5. Quiet(<<>>) /\ Quiet(Head(work).then)
    BY <2>1, <2>4, SimpleQuietIsQuiet, OneQuiet DEF QuietSinkCall
  <2>6. Quiet(work')
    BY <2>1, <2>4, <2>5, QuietThenQuiet
  <2>7. QED
    BY <2>1, <2>2, <2>3, <2>6, QuietCallKeeps
<1>4. QED
  BY <1>1, <1>2, <1>3, SendKeepsMute, HandleKeepsMute, TellKeepsMute DEF ChainStep

(* A request to change mute that is not a change parts them.                  *)
LEMMA RequestKeepsMute ==
  ASSUME MuteInv, NEW r \in Request, UPnPProcessHTTPPacket(r) PROVE MuteInv'
<1>1. /\ UNCHANGED <<mr, mp, gui, real>>
      /\ work' = IF UPnPProcessPOST(r, errno).fault # 0 THEN Error(UPnPProcessPOST(r, errno).fault)
                 ELSE Handler(r)
      /\ parted' = (parted \/ (r.action = "SetMute" /\ UPnPProcessPOST(r, errno).fault = 0
                               /\ mr.mute["Master"] = MuteOf(r.args["DesiredMute"])))
      /\ work = <<>>
  BY DEF UPnPProcessHTTPPacket, mpVars, guiVars
<1>2. ShapesOK'
  BY <1>1 DEF MuteInv, ShapesOK, PlayerShape
<1>3. Quiet(work)
  BY <1>1, OneQuiet, SimpleQuietIsQuiet
<1>4. CASE Quiet(work')
  BY <1>1, <1>2, <1>3, <1>4, QuietCallKeeps
<1>5. CASE /\ UPnPProcessPOST(r, errno).fault = 0 /\ r.action = "SetMute"
           /\ work' = ToStart(MuteOf(r.args["DesiredMute"]))
  <2> DEFINE v == MuteOf(r.args["DesiredMute"])
  <2>1. v \in {"0", "1"}
    BY DEF MuteOf
  <2>2. work = <<>> => \A w \in {"0", "1"} : work \notin {ToStart(w), ToToggle(w), ToTell(w)}
    <3>1. \A w : Len(ToStart(w)) # 0 /\ Len(ToToggle(w)) # 0 /\ Len(ToTell(w)) # 0
      BY DEF ToStart, ToToggle, ToTell
    <3>2. QED
      BY <3>1
  <2>3. ~parted => Agree(mr.mute["Master"])
    BY <1>1, <2>2 DEF MuteInv
  <2>4. ~parted' => ~parted /\ mr.mute["Master"] # v
    BY <1>1, <1>5
  <2>5. ~parted' => Agree(mr.mute["Master"])' /\ mr'.mute["Master"] # v
    BY <1>1, <2>3, <2>4 DEF Agree
  <2>6. gui'.at # "pump" => parted'
    BY <1>1 DEF MuteInv
  <2> HIDE DEF v
  <2>7. work' = ToStart(v)
    BY <1>5 DEF v
  <2>8. QED
    BY <1>2, <2>1, <2>5, <2>6, <2>7 DEF MuteInv
<1>6. QED
  BY <1>1, <1>4, <1>5, HandlerQuiet, OneQuiet

(* The dialog's thread and the user part them when another player is chosen   *)
(* or this one is muted.                                                     *)
LEMMA GuiKeepsMute ==
  ASSUME MuteInv, GuiStep \/ \E p \in Player : ChooseByHand(p) \/ PlayerChanges(p)
  PROVE  MuteInv'
<1> USE DEF chainVars, requestVars, mpVars, guiVars, historyVars
<1>1. CASE ChooseForChain \/ mpCreate \/ mpLoadDataINI \/ \E p \in Player : ChooseByHand(p)
  <2>1. UNCHANGED <<work, mr, real>> /\ (parted' \/ (parted' = parted /\ gui.at # "pump"))
    <3>1. ASSUME ChooseForChain PROVE UNCHANGED <<work, mr, real>> /\ parted'
      BY <3>1 DEF ChooseForChain
    <3>2. ASSUME mpCreate \/ mpLoadDataINI
          PROVE  UNCHANGED <<work, mr, real>> /\ parted' = parted /\ gui.at # "pump"
      BY <3>2 DEF mpCreate, mpLoadDataINI
    <3>3. ASSUME NEW p \in Player, ChooseByHand(p)
          PROVE  UNCHANGED <<work, mr, real>> /\ parted'
      BY <3>3 DEF ChooseByHand
    <3>4. QED
      BY <1>1, <3>1, <3>2, <3>3, Zenon
  <2>2. parted'
    BY <2>1 DEF MuteInv
  <2>3. ShapesOK'
    BY <2>1 DEF MuteInv, ShapesOK, PlayerShape
  <2>4. QED
    BY <2>1, <2>2, <2>3, MuteKeeps
<1>2. CASE wmCopyData
  <2>1. /\ UNCHANGED <<work, mp, real, gui, parted>>
        /\ \/ mr' = mr \/ mr' = [mr EXCEPT !.metadata = "none"]
    BY <1>2 DEF wmCopyData
  <2>2. ShapesOK
    BY DEF MuteInv
  <2>3. mr'.mute = mr.mute /\ mr'.volume = mr.volume /\ DOMAIN mr' = DOMAIN mr
    BY <2>1, <2>2 DEF ShapesOK
  <2>4. ShapesOK' /\ (gui'.at # "pump" => parted')
    BY <2>1, <2>2, <2>3 DEF ShapesOK, PlayerShape, MuteInv
  <2>5. QED
    BY <2>1, <2>3, <2>4, MuteKeeps
<1>3. ASSUME NEW p \in Player, PlayerChanges(p) PROVE MuteInv'
  <2>1. /\ UNCHANGED <<work, mr, mp, gui>>
        /\ parted' = (parted \/ real'[p].muted # real[p].muted)
        /\ real' \in {[real EXCEPT ![p] = s] :
                  s \in {[real[p] EXCEPT !.open = ~@], [real[p] EXCEPT !.volume = MaxVolume - @],
                         [real[p] EXCEPT !.muted = ~@]}
                        \cup {[real[p] EXCEPT !.state = t] : t \in PlayState}}
    BY <1>3 DEF PlayerChanges
  <2>2. ShapesOK /\ PlayerShape(real[p])
    BY DEF MuteInv, ShapesOK
  <2>9. PICK s : /\ real' = [real EXCEPT ![p] = s]
                 /\ \/ s = [real[p] EXCEPT !.open = ~real[p].open]
                    \/ s = [real[p] EXCEPT !.volume = MaxVolume - real[p].volume]
                    \/ s = [real[p] EXCEPT !.muted = ~real[p].muted]
                    \/ \E t \in PlayState : s = [real[p] EXCEPT !.state = t]
    BY <2>1
  <2>3. PlayerShape(s) /\ real' = [real EXCEPT ![p] = s]
    BY <2>9, <2>2 DEF PlayerShape
  <2>4. /\ DOMAIN real' = Player /\ real'[p] = s
        /\ \A q \in Player : PlayerShape(real'[q])
    BY <2>2, <2>3, RealKept
  <2>5. \A q \in Player : q # p => real'[q] = real[q]
    BY <2>2, <2>3 DEF ShapesOK
  <2>6. ShapesOK'
    BY <2>1, <2>2, <2>4 DEF ShapesOK, PlayerShape
  <2>7. /\ gui'.at # "pump" => parted'
        /\ ~parted' /\ mp' \in Player => mp' = mp /\ real'[mp].muted = real[mp].muted
    BY <2>1, <2>5 DEF MuteInv
  <2>8. QED
    BY <2>1, <2>6, <2>7, MuteKeeps
<1>4. QED
  BY <1>1, <1>2, <1>3 DEF GuiStep

(* Renderer and player agree about mute, or will with the next call, is an    *)
(* inductive invariant.                                                      *)
THEOREM MuteInductive == Spec => []MuteInv
<1>1. Init => MuteInv
  <2> SUFFICES ASSUME Init PROVE MuteInv
    OBVIOUS
  <2>1. Quiet(work)
    BY OneQuiet, SimpleQuietIsQuiet DEF Init
  <2>2. \A p \in Player : /\ DOMAIN real[p] = {"open", "volume", "muted", "state"}
                          /\ real[p].muted = FALSE /\ real[p].state = "STOPPED"
    BY DEF Init
  <2>3. DOMAIN real = Player
    BY DEF Init
  <2>4. /\ DOMAIN mr = {"volume", "mute", "state", "status", "metadata"}
        /\ "Master" \in DOMAIN mr.mute /\ "Master" \in DOMAIN mr.volume
        /\ mr.mute["Master"] = "0"
    BY DEF Init, Channels
  <2>5. ShapesOK
    BY <2>2, <2>3, <2>4 DEF ShapesOK, PlayerShape, PlayState
  <2>6. Agree(mr.mute["Master"]) /\ gui.at = "pump"
    BY <2>2, <2>4 DEF Agree, Init, Pump
  <2>7. QED
    BY <2>1, <2>5, <2>6 DEF MuteInv
<1>2. MuteInv /\ [Next]_vars => MuteInv'
  <2> SUFFICES ASSUME MuteInv, [Next]_vars PROVE MuteInv'
    OBVIOUS
  <2>1. CASE Next
    BY <2>1, ChainKeepsMute, RequestKeepsMute, GuiKeepsMute DEF Next
  <2>2. CASE UNCHANGED vars
    <3>1. UNCHANGED <<work, mr, mp, real, gui, parted>>
      BY <2>2 DEF vars, chainVars, requestVars, mpVars, guiVars, historyVars
    <3>2. ShapesOK'
      BY <3>1 DEF MuteInv, ShapesOK, PlayerShape
    <3>3. gui'.at # "pump" => parted'
      BY <3>1 DEF MuteInv
    <3>4. QED
      BY <3>1, <3>2, <3>3, MuteKeeps
  <2>3. QED
    BY <2>1, <2>2
<1>3. QED
  BY <1>1, <1>2, PTL DEF Spec

(* As long as only requests that ask for a change touch mute and no command   *)
(* is lost, the renderer says a player is muted just when it is.             *)
THEOREM MuteToggled == Spec => []MuteKept
<1>1. MuteInv => MuteKept
  <2> SUFFICES ASSUME MuteInv, work = <<>>, mp \in Player, ~parted
               PROVE  (mr.mute["Master"] = "1") = real[mp].muted
    BY DEF MuteKept
  <2>1. \A v : Len(ToStart(v)) # 0 /\ Len(ToToggle(v)) # 0 /\ Len(ToTell(v)) # 0
    BY DEF ToStart, ToToggle, ToTell
  <2>2. \A v : work \notin {ToStart(v), ToToggle(v), ToTell(v)}
    BY <2>1
  <2>3. QED
    BY <2>2 DEF MuteInv, Agree
<1>2. QED
  BY <1>1, MuteInductive, PTL
-----------------------------------------------------------------------------
(* The answers to GetVolume and GetTransportInfo, k in {"volume", "state"}:    *)
(* what is left of such a request r, call by call.                           *)
Question(k) == IF k = "volume" THEN "GET_VOLUME" ELSE "GET_STATE"
AskFor(k) == [call |-> "Ask", command |-> Question(k)]
ReadFor(k) == [call |-> "FromCache", command |-> Question(k)]
Teller(k) == [call |-> IF k = "volume" THEN "TellVolume" ELSE "TellState"]
AnswerTo(k, r) == IF k = "volume"
                  THEN [call |-> "Respond", what |-> "volume", channel |-> r.args["Channel"]]
                  ELSE [call |-> "Respond", what |-> "state"]
TellOk == [call |-> "Tell", field |-> "status", to |-> "OK"]
TellNoMedia == [call |-> "Tell", field |-> "state", to |-> "NO_MEDIA_PRESENT"]
TellError == [call |-> "Tell", field |-> "status", to |-> "ERROR_OCCURRED"]

GetHandle(k) ==
  IF k = "volume"
  THEN [call |-> "mpGetHandle", then |-> <<AskFor(k), Teller(k)>>, else |-> <<>>]
  ELSE [call |-> "mpGetHandle", then |-> <<TellOk, AskFor(k), Teller(k)>>,
        else |-> <<TellNoMedia, TellError>>]

Finding(k, r) == <<GetHandle(k), AnswerTo(k, r)>>
Preparing(k, r) == <<TellOk, AskFor(k), Teller(k), AnswerTo(k, r)>>
Asking(k, r) == <<AskFor(k), Teller(k), AnswerTo(k, r)>>
Reading(k, r) == <<ReadFor(k), Teller(k), AnswerTo(k, r)>>
Telling(k, r) == <<Teller(k), AnswerTo(k, r)>>
Missing(k, r) == <<TellNoMedia, TellError, AnswerTo(k, r)>>
Failing(k, r) == <<TellError, AnswerTo(k, r)>>
Closing(k, r) == <<AnswerTo(k, r)>>

(* The volume of other channels is not a player's.                            *)
About(k, r) == k = "volume" => r.args["Channel"] = "Master"

(* Nothing happened that excuses the player, and then the handle is still the *)
(* one that was found.                                                       *)
Calm == /\ mp \in Player /\ ~history.failed /\ ~history.chosen
        /\ \A s \in history.seen : s.open
HandleFound == playerHandle /\ Calm => hMP \in {"live", "other"}

(* What was heard of the player, and what the renderer has of it, is how the  *)
(* player was at some time since the request came.                           *)
Knows(k, v) ==
  AskedAtOnce(Question(k)) =>
    \E s \in history.seen : v = IF k = "volume" THEN s.volume ELSE StateCode[mp][s.state]
HasTold(k, v) ==
  AskedAtOnce(Question(k)) =>
    \E s \in history.seen : v = IF k = "volume" THEN s.volume ELSE s.state

Stage(k, r) ==
  \/ work = Finding(k, r)
  \/ /\ HandleFound
     /\ \/ work \in {Preparing(k, r), Asking(k, r)}
        \/ work = Reading(k, r) /\ ~AskedAtOnce(Question(k))
        \/ work = Telling(k, r) /\ Knows(k, value)
        \/ work \in {Missing(k, r), Failing(k, r)} /\ ~playerHandle
        \/ /\ work = Closing(k, r)
           /\ HasTold(k, IF k = "volume" THEN mr.volume["Master"] ELSE mr.state)
        \/ \E a : work = <<>> /\ answers = <<a>> /\ a.what = k /\ HasTold(k, a.value)

(* The other requests are not answered with these.                           *)
Unheard(what, r) == \A k \in {"volume", "state"} : what = k => ~About(k, r)
Apart(s, r) ==
  /\ s # <<>>
  /\ \/ s[Len(s)].call = "Error"
     \/ s[Len(s)].call = "Respond" /\ Unheard(s[Len(s)].what, r)

FreshInv ==
  /\ {"seen", "failed", "chosen"} \subseteq DOMAIN history
  /\ \A s \in history.seen : PlayerShape(s)
  /\ DOMAIN pos = {"volume", "state"}
  /\ work = <<>> => sent = NULL
  /\ \/ Apart(work, request)
     \/ work = <<>> /\ (answers = <<>> \/ \E a : answers = <<a>> /\ Unheard(a.what, request))
     \/ \E k \in {"volume", "state"} : About(k, request) /\ sent = NULL /\ Stage(k, request)

(* A step that leaves the request's handle and the circumstances, or adds     *)
(* something that excuses the player, keeps what is known.                   *)
LEMMA CalmKeeps ==
  ASSUME playerHandle' = playerHandle, history.seen \subseteq history'.seen,
         history.failed => history'.failed, history.chosen => history'.chosen,
         Calm' => mp' = mp /\ (hMP \in {"live", "other"} => hMP' = hMP), HandleFound
  PROVE  /\ HandleFound'
         /\ \A c : AskedAtOnce(c)' => AskedAtOnce(c) /\ mp' = mp
         /\ \A k, v : (Knows(k, v) => Knows(k, v)') /\ (HasTold(k, v) => HasTold(k, v)')
<1>1. Calm' => Calm /\ mp' = mp
  BY DEF Calm
<1>2. HandleFound'
  BY <1>1 DEF HandleFound
<1>3. ASSUME NEW c, AskedAtOnce(c)' PROVE AskedAtOnce(c) /\ mp' = mp
  <2>1. Calm' /\ playerHandle' /\ hMP' = "live"
    BY <1>3 DEF AskedAtOnce, Calm
  <2>2. Calm /\ mp' = mp /\ hMP \in {"live", "other"}
    BY <1>1, <2>1 DEF HandleFound
  <2>3. hMP = "live"
    BY <2>1, <2>2
  <2>4. QED
    BY <1>3, <2>1, <2>2, <2>3 DEF AskedAtOnce, Calm, ByHttp
<1>4. ASSUME NEW k, NEW v, Knows(k, v) PROVE Knows(k, v)'
  BY <1>3, <1>4 DEF Knows
<1>5. ASSUME NEW k, NEW v, HasTold(k, v) PROVE HasTold(k, v)'
  BY <1>3, <1>5 DEF HasTold
<1>6. QED
  BY <1>2, <1>3, <1>4, <1>5

(* The next call of each stage, and what is left then.                        *)
LEMMA StageCalls ==
  ASSUME NEW k \in {"volume", "state"}, NEW r
  PROVE  /\ Head(Finding(k, r)) = GetHandle(k) /\ Tail(Finding(k, r)) = Closing(k, r)
         /\ Head(Preparing(k, r)) = TellOk /\ Tail(Preparing(k, r)) = Asking(k, r)
         /\ Head(Asking(k, r)) = AskFor(k) /\ Tail(Asking(k, r)) = Telling(k, r)
         /\ Head(Reading(k, r)) = ReadFor(k) /\ Tail(Reading(k, r)) = Telling(k, r)
         /\ Head(Telling(k, r)) = Teller(k) /\ Tail(Telling(k, r)) = Closing(k, r)
         /\ Head(Missing(k, r)) = TellNoMedia /\ Tail(Missing(k, r)) = Failing(k, r)
         /\ Head(Failing(k, r)) = TellError /\ Tail(Failing(k, r)) = Closing(k, r)
         /\ Head(Closing(k, r)) = AnswerTo(k, r) /\ Tail(Closing(k, r)) = <<>>
BY DEF Finding, Preparing, Asking, Reading, Telling, Missing, Failing, Closing

(* What a request for volume or state has left, joined as a stage.           *)
LEMMA StageJoins ==
  ASSUME NEW k \in {"volume", "state"}, NEW r
  PROVE  /\ GetHandle(k).then \o Closing(k, r) \in {Preparing(k, r), Asking(k, r)}
         /\ GetHandle(k).else \o Closing(k, r) \in {Missing(k, r), Closing(k, r)}
         /\ <<>> \o Telling(k, r) = Telling(k, r)
         /\ <<ReadFor(k)>> \o Telling(k, r) = Reading(k, r)
<1>1. ASSUME k = "volume"
      PROVE  /\ GetHandle(k).then \o Closing(k, r) \in {Preparing(k, r), Asking(k, r)}
             /\ GetHandle(k).else \o Closing(k, r) \in {Missing(k, r), Closing(k, r)}
  <2>1. GetHandle(k).then = <<AskFor(k), Teller(k)>> /\ GetHandle(k).else = <<>>
    BY <1>1 DEF GetHandle
  <2>2. <<AskFor(k), Teller(k)>> \o <<AnswerTo(k, r)>> = Asking(k, r)
    BY Tuples DEF Asking
  <2>3. <<>> \o <<AnswerTo(k, r)>> = Closing(k, r)
    BY DEF Closing
  <2>4. /\ GetHandle(k).then \o Closing(k, r) = Asking(k, r)
        /\ GetHandle(k).else \o Closing(k, r) = Closing(k, r)
    BY <2>1, <2>2, <2>3, Zenon DEF Closing
  <2>5. QED
    BY <2>4
<1>2. ASSUME k = "state"
      PROVE  /\ GetHandle(k).then \o Closing(k, r) \in {Preparing(k, r), Asking(k, r)}
             /\ GetHandle(k).else \o Closing(k, r) \in {Missing(k, r), Closing(k, r)}
  <2>1. /\ GetHandle(k).then = <<TellOk, AskFor(k), Teller(k)>>
        /\ GetHandle(k).else = <<TellNoMedia, TellError>>
    BY <1>2 DEF GetHandle
  <2>2. <<TellOk, AskFor(k), Teller(k)>> \o <<AnswerTo(k, r)>> = Preparing(k, r)
    BY Tuples DEF Preparing
  <2>3. <<TellNoMedia, TellError>> \o <<AnswerTo(k, r)>> = Missing(k, r)
    BY Tuples DEF Missing
  <2>4. /\ GetHandle(k).then \o Closing(k, r) = Preparing(k, r)
        /\ GetHandle(k).else \o Closing(k, r) = Missing(k, r)
    BY <2>1, <2>2, <2>3, Zenon DEF Closing
  <2>5. QED
    BY <2>4
<1>3. <<>> \o Telling(k, r) = Telling(k, r)
  <2>1. Telling(k, r) \in Seq({Teller(k), AnswerTo(k, r)})
    BY DEF Telling
  <2>2. IsSeq(Telling(k, r))
    BY <2>1 DEF IsSeq
  <2>3. QED
    BY <2>2, EmptyThen
<1>4. <<ReadFor(k)>> \o Telling(k, r) = Reading(k, r)
  BY Tuples DEF Telling, Reading
<1>5. (GetHandle(k).then \o Closing(k, r) \in {Preparing(k, r), Asking(k, r)})
      /\ (GetHandle(k).else \o Closing(k, r) \in {Missing(k, r), Closing(k, r)})
  BY <1>1, <1>2
<1>6. QED
  BY <1>3, <1>4, <1>5

(* Which steps make a call.                                                  *)
LEMMA WhoCalls ==
  ASSUME ChainStep
  PROVE  /\ work # <<>>
         /\ Head(work).call = "mpGetHandle" => UseFreed \/ mpGetHandle
         /\ Head(work).call = "Ask" => UseFreed \/ SendHttp \/ SendWindow
         /\ Head(work).call = "FromCache" => UseFreed \/ FromCache
         /\ Head(work).call \in {"Tell", "TellVolume", "TellState"} => UseFreed \/ MRSet
         /\ Head(work).call = "Respond" => UPnPResponseGeneric
         /\ mpGetHandle => Head(work).call = "mpGetHandle"
         /\ mpOpen => Head(work).call = "mpOpen"
         /\ CheckControlMenu => Head(work).call = "CheckControlMenu"
<1>1. mpGetHandle => work # <<>> /\ Head(work).call = "mpGetHandle"
  BY DEF mpGetHandle, Call
<1>2. SendHttp => Call({"Do", "Ask"})
  BY Zenon DEF SendHttp
<1>3. SendWindow => Call({"Do", "Ask"})
  BY Zenon DEF SendWindow
<1>4. FromCache => work # <<>> /\ Head(work).call = "FromCache"
  BY DEF FromCache, Call
<1>5. mpOpen => work # <<>> /\ Head(work).call = "mpOpen"
  BY DEF mpOpen, Call
<1>6. CheckControlMenu => work # <<>> /\ Head(work).call = "CheckControlMenu"
  BY DEF CheckControlMenu, Call
<1>7. MRSet => Call({"Tell", "TellVolume", "TellState"})
  BY Zenon DEF MRSet
<1>8. IfPlaying => work # <<>> /\ Head(work).call = "IfPlaying"
  BY DEF IfPlaying, Call
<1>9. ComputeMetadata => work # <<>> /\ Head(work).call \in {"Metadata", "TakeMetadata"}
  BY DEF ComputeMetadata, MakeMetadata, TakeMetadata, Call
<1>10. UPnPResponse_Error => work # <<>> /\ Head(work).call = "Error"
  BY DEF UPnPResponse_Error, Call
<1>11. UPnPResponseGeneric => Call({"Respond"})
  BY Zenon DEF UPnPResponseGeneric
<1>12. UseFreed => /\ work # <<>>
                   /\ Head(work).call \in {"mpGetHandle", "Do", "Ask", "FromCache", "mpOpen", "TellState"}
  BY DEF UseFreed, Call
<1>13. Call({"Do", "Ask"}) => work # <<>> /\ Head(work).call \in {"Do", "Ask"}
  BY DEF Call
<1>14. Call({"Tell", "TellVolume", "TellState"}) =>
         work # <<>> /\ Head(work).call \in {"Tell", "TellVolume", "TellState"}
  BY DEF Call
<1>15. Call({"Respond"}) => work # <<>> /\ Head(work).call = "Respond"
  BY DEF Call
<1>16. QED
  BY <1>1, <1>2, <1>3, <1>4, <1>5, <1>6, <1>7, <1>8, <1>9, <1>10, <1>11, <1>12, <1>13, <1>14, <1>15
     DEF ChainStep

(* A question in a table for immediate answers is understood as it is, and    *)
(* answered at once.                                                         *)
LEMMA OneTable ==
  ASSUME NEW p \in Player, NEW c \in Command, NEW t \in Table, NEW u \in Table,
         Ini[p][t][c] # 0, Ini[p][u][c] # 0
  PROVE  t = u
<1> DEFINE given == {x \in Table : Ini[p][x][c] # 0}
<1>1. IsFiniteSet(Table)
  <2>1. IsFiniteSet({"cm"}) /\ IsFiniteSet({"cd"}) /\ IsFiniteSet({"us"}) /\ IsFiniteSet({"ap"})
    BY FS_Singleton
  <2>2. IsFiniteSet({"cm"} \cup {"cd"}) /\ IsFiniteSet({"us"} \cup {"ap"})
    BY <2>1, FS_Union
  <2>3. IsFiniteSet(({"cm"} \cup {"cd"}) \cup ({"us"} \cup {"ap"}))
    BY <2>2, FS_Union
  <2>4. ({"cm"} \cup {"cd"}) \cup ({"us"} \cup {"ap"}) = Table
    BY DEF Table
  <2>5. QED
    BY <2>3, <2>4
<1>2. given \in SUBSET Table /\ {t, u} \in SUBSET given
  OBVIOUS
<1>3. IsFiniteSet(given) /\ Cardinality(given) <= 1
  BY <1>1, <1>2, FS_Subset, ControlAssumption
<1>4. Cardinality({t, u}) <= Cardinality(given) /\ Cardinality(given) \in Nat
  BY <1>2, <1>3, FS_Subset, FS_CardinalityType
<1>5. t # u => Cardinality({t, u}) = 2
  <2>1. IsFiniteSet({t}) /\ Cardinality({t}) = 1
    BY FS_Singleton
  <2>2. IsFiniteSet({t} \cup {u}) /\ Cardinality({t} \cup {u}) =
          IF u \in {t} THEN Cardinality({t}) ELSE Cardinality({t}) + 1
    BY <2>1, FS_AddElement
  <2>3. {t, u} = {t} \cup {u}
    OBVIOUS
  <2>4. QED
    BY <2>1, <2>2, <2>3
<1>6. QED
  BY <1>3, <1>4, <1>5

(* A player that has a number to be asked by understands just the question.  *)
LEMMA AskNumber ==
  ASSUME NEW c \in {"GET_VOLUME", "GET_STATE"}, mp \in Player, hMP = "live",
         Ini[mp]["cm"][c] # 0 \/ Ini[mp]["us"][c] # 0
  PROVE  Understood(c) = {c} /\ TableOf(Number(c)) # "ap" /\ Ini[mp]["cd"][c] = 0
<1>1. c \in Command /\ {"cm", "cd", "us", "ap"} = Table
  BY DEF Command, Table
<1>2. PICK t \in {"cm", "us"} : Ini[mp][t][c] # 0
  OBVIOUS
<1>3. \A u \in Table : Ini[mp][u][c] # 0 => u = t
  BY <1>1, <1>2, OneTable
<1>4. Ini[mp]["cd"][c] = 0
  BY <1>1, <1>2, <1>3
<1>5. Number(c) = Ini[mp][t][c]
  <2> DEFINE given == {x \in Table : Ini[mp][x][c] # 0}
  <2>1. given = {t}
    BY <1>1, <1>2, <1>3
  <2>2. Number(c) = IF given = {} THEN 0 ELSE Ini[mp][CHOOSE x \in given : TRUE][c]
    BY DEF Number
  <2>3. QED
    BY <2>1, <2>2
<1>6. \A u \in Table : Has(u, Number(c)) => Ini[mp][u][c] = Number(c)
  <2> SUFFICES ASSUME NEW u \in Table, NEW d \in Command, Ini[mp][u][d] = Number(c)
               PROVE  Ini[mp][u][c] = Number(c)
    BY DEF Has
  <2>1. d = c
    BY <1>1, <1>2, <1>5, IniAssumption
  <2>2. QED
    BY <2>1
<1>7. \A u \in Table : Has(u, Number(c)) => u = t
  BY <1>2, <1>3, <1>5, <1>6
<1>8. Has(t, Number(c))
  BY <1>1, <1>5 DEF Has
<1>9. TableOf(Number(c)) = t
  BY <1>1, <1>2, <1>7, <1>8 DEF TableOf
<1>10. c \in Understood(c)
  BY <1>1, <1>2, <1>5, <1>9 DEF Understood
<1>11. \A d \in Understood(c) : d = c
  BY <1>1, OwnCommand
<1>12. QED
  BY <1>2, <1>4, <1>9, <1>10, <1>11

(* What the renderer makes of the code of a state is the state.               *)
LEMMA StateRead ==
  ASSUME mp \in Player, NEW t \in PlayState PROVE StateOf(StateCode[mp][t]) = t
BY IniAssumption DEF StateOf, PlayState

(* A question that is sent: the player's answer is known when it comes at     *)
(* once, and else the cache is to be read.                                   *)
LEMMA AskedByHttp ==
  ASSUME ShapesOK, DOMAIN pos = {"volume", "state"}, {"seen", "failed"} \subseteq DOMAIN history,
         NEW k \in {"volume", "state"}, Head(work) = AskFor(k), SendHttp
  PROVE  work' = Tail(work) /\ Knows(k, value)'
<1>1. Head(work).command = Question(k) /\ Head(work).call = "Ask"
  BY DEF AskFor
<1>2. work' = Tail(work) /\ mp' = mp /\ mp \in Player
  BY DEF SendHttp, ByHttp
<1>3. PICK ok \in BOOLEAN :
        /\ real' = IF ok /\ ~Asked THEN [real EXCEPT ![mp] = PlayerDoes(@, Question(k), Head(work).to)]
                   ELSE real
        /\ pos' = CASE Question(k) = "SET_VOLUME" -> [pos EXCEPT !.volume = Head(work).to]
                    [] Asked /\ ok -> Cached(Question(k), PlayerSays(mp, real[mp], Question(k)))
                    [] Asked /\ ~ok /\ Question(k) = "GET_VOLUME" -> [pos EXCEPT !.volume = 0]
                    [] OTHER -> pos
        /\ value' = CASE ~Asked -> value
                      [] Question(k) = "GET_VOLUME" -> pos'.volume
                      [] Question(k) = "GET_STATE" -> pos'.state
                      [] OTHER -> 0
        /\ history' = [Touch({real'[mp]}) EXCEPT !.failed = @ \/ ~ok]
  BY <1>1, Zenon DEF SendHttp
<1>4. Asked /\ Question(k) \in {"GET_VOLUME", "GET_STATE"}
      /\ (Question(k) = "GET_VOLUME" <=> k = "volume")
  BY <1>1 DEF Asked, Question
<1>5. real' = real
  BY <1>3, <1>4
<1>6. history'.failed = (history.failed \/ ~ok) /\ history'.seen = history.seen \cup {real[mp]}
  BY <1>3, <1>5 DEF Touch
<1>7. ASSUME ok
      PROVE  value' = IF k = "volume" THEN real[mp].volume ELSE StateCode[mp][real[mp].state]
  <2>1. pos' = Cached(Question(k), PlayerSays(mp, real[mp], Question(k)))
    BY <1>3, <1>4, <1>7
  <2>2. CASE k = "volume"
    BY <1>3, <1>4, <2>1, <2>2 DEF Cached, PlayerSays
  <2>3. CASE k = "state"
    BY <1>3, <1>4, <2>1, <2>3 DEF Cached, PlayerSays, Question
  <2>4. QED
    BY <2>2, <2>3
<1>8. AskedAtOnce(Question(k))' => ok
  BY <1>6 DEF AskedAtOnce
<1>9. QED
  BY <1>2, <1>6, <1>7, <1>8 DEF Knows

(* A question by window message: the answer is known, or was not at once.    *)
LEMMA AskedByWindow ==
  ASSUME ShapesOK, {"seen", "failed"} \subseteq DOMAIN history,
         NEW k \in {"volume", "state"}, Head(work) = AskFor(k), SendWindow
  PROVE  \/ work' = <<>> \o Tail(work) /\ Knows(k, value)'
         \/ work' = <<ReadFor(k)>> \o Tail(work) /\ ~AskedAtOnce(Question(k))'
<1>1. PICK c : c = Question(k)
  OBVIOUS
<1>2. Head(work).command = c /\ Head(work).call = "Ask" /\ c \in {"GET_VOLUME", "GET_STATE"}
      /\ (c = "GET_VOLUME" <=> k = "volume")
  BY <1>1 DEF AskFor, Question
<1>3. Asked
  BY <1>2 DEF Asked
<1> DEFINE Late(d) == mp \in Player /\ Ini[mp]["cd"][d] # 0
           Says(d) == IF Understood(d) = {} \/ TableOf(Number(d)) = "ap" THEN 0
                      ELSE PlayerSays(mp, real[mp], CHOOSE e \in Understood(d) : TRUE)
<1>4. ~ByHttp(c)
  <2>1. ~ByHttp(Head(work).command)
    BY Zenon DEF SendWindow
  <2>2. QED
    BY <1>2, <2>1
<1>5. real' = IF Understood(c) = {} THEN real
              ELSE [real EXCEPT ![mp] = PlayerDoes(@, CHOOSE d \in Understood(c) : TRUE,
                                                   IF Asked THEN 0 ELSE Head(work).to)]
  <2>1. real' = IF Understood(Head(work).command) = {} THEN real
                ELSE [real EXCEPT ![mp] = PlayerDoes(@, CHOOSE d \in Understood(Head(work).command) : TRUE,
                                                     IF Asked THEN 0 ELSE Head(work).to)]
    BY Zenon DEF SendWindow
  <2>2. QED
    BY <1>2, <2>1, Zenon
<1>10. /\ value' = IF ~Late(c) THEN Says(c) ELSE value
      /\ work' = (IF Late(c) THEN <<[call |-> "FromCache", command |-> c]>> ELSE <<>>) \o Tail(work)
  <2>1. /\ value' = IF Asked /\ ~Late(Head(work).command) THEN Says(Head(work).command) ELSE value
        /\ work' = (IF Asked /\ Late(Head(work).command)
                    THEN <<[call |-> "FromCache", command |-> Head(work).command]>> ELSE <<>>)
                    \o Tail(work)
    BY Zenon DEF SendWindow
  <2>2. /\ value' = IF Asked /\ ~Late(c) THEN Says(c) ELSE value
        /\ work' = (IF Asked /\ Late(c) THEN <<[call |-> "FromCache", command |-> c]>> ELSE <<>>)
                    \o Tail(work)
    <3> HIDE DEF Late, Says
    <3>1. QED
      BY <1>2, <2>1
  <2> HIDE DEF Late, Says
  <2>3. QED
    BY <1>3, <2>2
<1>11. history' = Touch(IF mp \in Player THEN {real'[mp]} ELSE {})
  BY Zenon DEF SendWindow
<1>6. UNCHANGED <<requestVars, playerHandle, answers, mr, mp, hMP, gui, sent, crashed, hand>>
  BY Zenon DEF SendWindow
<1>7. ASSUME AskedAtOnce(c)'
      PROVE  /\ mp \in Player /\ Understood(c) = {c} /\ TableOf(Number(c)) # "ap"
             /\ Ini[mp]["cd"][c] = 0
  <2>1. mp \in Player /\ hMP = "live" /\ (Ini[mp]["cm"][c] # 0 \/ Ini[mp]["us"][c] # 0)
    BY <1>4, <1>6, <1>7 DEF AskedAtOnce, ByHttp
  <2>2. QED
    BY <1>2, <2>1, AskNumber
<1>8. CASE Late(c)
  <2>1. ~AskedAtOnce(c)'
    BY <1>7, <1>8
  <2>2. work' = <<[call |-> "FromCache", command |-> c]>> \o Tail(work)
    BY <1>8, <1>10
  <2>3. ReadFor(k) = [call |-> "FromCache", command |-> c]
    BY <1>1 DEF ReadFor
  <2>4. QED
    BY <1>1, <2>1, <2>2, <2>3
<1>9. CASE ~Late(c)
  <2>1. ASSUME AskedAtOnce(c)'
        PROVE  \E s \in history'.seen :
                 value' = IF k = "volume" THEN s.volume ELSE StateCode[mp'][s.state]
    <3>1. mp \in Player /\ Understood(c) = {c} /\ TableOf(Number(c)) # "ap"
      BY <1>7, <2>1
    <3>2. (CHOOSE d \in Understood(c) : TRUE) = c
      BY <3>1
    <3>3. value' = PlayerSays(mp, real[mp], c)
      BY <1>9, <1>10, <3>1, <3>2
    <3>4. real'[mp] = real[mp]
      <4>1. PlayerDoes(real[mp], c, IF Asked THEN 0 ELSE Head(work).to) = real[mp]
        BY <1>2 DEF PlayerDoes
      <4>2. QED
        BY <1>5, <3>1, <3>2, <4>1 DEF ShapesOK
    <3>5. real[mp] \in history'.seen
      <4>1. history' = Touch({real[mp]})
        BY <1>11, <3>1, <3>4
      <4>2. QED
        BY <4>1 DEF Touch
    <3>6. value' = IF k = "volume" THEN real[mp].volume ELSE StateCode[mp][real[mp].state]
      BY <1>2, <3>3 DEF PlayerSays
    <3>7. QED
      BY <1>6, <3>5, <3>6
  <2>2. work' = <<>> \o Tail(work)
    BY <1>9, <1>10
  <2>3. QED
    BY <1>1, <2>1, <2>2 DEF Knows
<1>12. QED
  BY <1>8, <1>9

(* The history of a request only grows while it is worked on.                *)
HistoryGrows ==
  /\ {"seen", "failed", "chosen"} \subseteq DOMAIN history'
  /\ history.seen \subseteq history'.seen
  /\ \A s \in history'.seen : s \in history.seen \/ \E p \in Player : s = real'[p]
  /\ history.failed => history'.failed
  /\ history.chosen => history'.chosen

(* What is noted when players change is only added to.                       *)
LEMMA TouchGrows ==
  ASSUME {"seen", "failed", "chosen"} \subseteq DOMAIN history, NEW players,
         \A s \in players : \E p \in Player : s = real'[p]
  PROVE  /\ history' = Touch(players) => HistoryGrows
         /\ \A h, t : history' = [Touch(players) EXCEPT !.holds = h, !.retitled = t] => HistoryGrows
         /\ \A h : history' = [Touch(players) EXCEPT !.holds = h] => HistoryGrows
         /\ \A b \in BOOLEAN :
              history' = [Touch(players) EXCEPT !.failed = @ \/ ~b] => HistoryGrows
<1>1. history' = Touch(players) => HistoryGrows
  BY DEF Touch, HistoryGrows
<1>2. /\ \A h, t : history' = [Touch(players) EXCEPT !.holds = h, !.retitled = t] => HistoryGrows
      /\ \A h : history' = [Touch(players) EXCEPT !.holds = h] => HistoryGrows
  BY DEF Touch, HistoryGrows
<1>3. ASSUME NEW b \in BOOLEAN, history' = [Touch(players) EXCEPT !.failed = @ \/ ~b]
      PROVE  HistoryGrows
  <2>1. /\ DOMAIN history' = DOMAIN history
        /\ history'.seen = history.seen \cup players
        /\ history'.chosen = history.chosen
    BY <1>3 DEF Touch
  <2>2. history'.failed = (history.failed \/ ~b)
    BY <1>3 DEF Touch
  <2>3. QED
    BY <2>1, <2>2 DEF HistoryGrows
<1>4. QED
  BY <1>1, <1>2, <1>3

(* What every step of the chain's thread leaves alone.                       *)
LEMMA ChainLeaves ==
  ASSUME ChainStep, FreshInv
  PROVE  /\ request' = request /\ mp' = mp /\ sent = NULL /\ gui' = gui
         /\ mpGetHandle \/ playerHandle' = playerHandle
         /\ mpGetHandle \/ mpOpen \/ hMP' = hMP
         /\ CheckControlMenu \/ sent' = sent
         /\ HistoryGrows
         /\ DOMAIN pos' = {"volume", "state"}
<1>1. {"seen", "failed", "chosen"} \subseteq DOMAIN history /\ DOMAIN pos = {"volume", "state"}
  BY DEF FreshInv
<1>2. history' = history => HistoryGrows
  BY <1>1 DEF HistoryGrows
<1>3. /\ history' = Touch({}) => HistoryGrows
      /\ \A h, t : history' = [Touch({}) EXCEPT !.holds = h, !.retitled = t] => HistoryGrows
      /\ \A h : history' = [Touch({}) EXCEPT !.holds = h] => HistoryGrows
  BY <1>1, TouchGrows
<1>4. CASE UseFreed
  BY <1>1, <1>2, <1>4 DEF UseFreed, Call, chainVars, requestVars, mpVars, guiVars
<1>5. CASE mpGetHandle
  BY <1>1, <1>3, <1>5 DEF mpGetHandle, Call, requestVars, guiVars
<1>6. CASE FromCache
  BY <1>1, <1>2, <1>6 DEF FromCache, Call, requestVars, mpVars, guiVars, historyVars
<1>7. CASE mpOpen
  BY <1>1, <1>3, <1>7 DEF mpOpen, Call, requestVars, guiVars
<1>8. CASE CheckControlMenu
  BY <1>1, <1>3, <1>8 DEF CheckControlMenu, Call, requestVars, mpVars
<1>9. CASE MRSet
  <2>1. /\ Call({"Tell", "TellVolume", "TellState"}) /\ history' = Touch({})
        /\ UNCHANGED <<requestVars, value, playerHandle, answers, mpVars, real, guiVars, crashed, hand, parted>>
    BY <1>9, Zenon DEF MRSet
  <2>2. QED
    BY <1>1, <1>3, <2>1 DEF Call, requestVars, mpVars, guiVars
<1>10. CASE IfPlaying
  BY <1>1, <1>2, <1>10 DEF IfPlaying, Call, requestVars, mpVars, guiVars, historyVars
<1>11. CASE ComputeMetadata
  <2>1. HistoryGrows
    BY <1>3, <1>11 DEF ComputeMetadata, MakeMetadata, TakeMetadata
  <2>2. QED
    BY <1>1, <2>1, <1>11 DEF ComputeMetadata, MakeMetadata, TakeMetadata, Call, requestVars, mpVars,
       guiVars
<1>12. CASE UPnPResponse_Error
  BY <1>1, <1>2, <1>12 DEF UPnPResponse_Error, Call, requestVars, mpVars, guiVars, historyVars
<1>13. CASE UPnPResponseGeneric
  <2>1. /\ Call({"Respond"}) /\ history' = [history EXCEPT !.holds = FALSE]
        /\ UNCHANGED <<requestVars, value, playerHandle, mr, mpVars, real, guiVars, hand, parted>>
    BY <1>13, Zenon DEF UPnPResponseGeneric
  <2>2. HistoryGrows
    BY <1>1, <2>1 DEF HistoryGrows
  <2>3. QED
    BY <1>1, <2>1, <2>2 DEF Call, requestVars, mpVars, guiVars
<1>14. CASE SendHttp
  <2>1. /\ Call({"Do", "Ask"}) /\ ByHttp(Head(work).command)
        /\ UNCHANGED <<requestVars, playerHandle, answers, mr, mp, hMP, guiVars, crashed, hand>>
    BY <1>14, Zenon DEF SendHttp
  <2>2. PICK ok \in BOOLEAN : history' = [Touch({real'[mp]}) EXCEPT !.failed = @ \/ ~ok]
    BY <1>14, Zenon DEF SendHttp
  <2>3. HistoryGrows
    <3>1. mp \in Player
      BY <2>1 DEF ByHttp
    <3>2. \A s \in {real'[mp]} : \E p \in Player : s = real'[p]
      BY <3>1
    <3>3. \A b \in BOOLEAN :
            history' = [Touch({real'[mp]}) EXCEPT !.failed = @ \/ ~b] => HistoryGrows
      BY <1>1, <3>2, TouchGrows, Zenon
    <3>4. QED
      BY <2>2, <3>3, Zenon
  <2>4. PICK done \in BOOLEAN :
          pos' = CASE Head(work).command = "SET_VOLUME" -> [pos EXCEPT !.volume = Head(work).to]
                   [] Asked /\ done -> Cached(Head(work).command, PlayerSays(mp, real[mp], Head(work).command))
                   [] Asked /\ ~done /\ Head(work).command = "GET_VOLUME" -> [pos EXCEPT !.volume = 0]
                   [] OTHER -> pos
    BY <1>14, Zenon DEF SendHttp
  <2>5. DOMAIN pos' = {"volume", "state"}
    BY <1>1, <2>4 DEF Cached
  <2>6. QED
    BY <2>1, <2>3, <2>5 DEF Call, requestVars, guiVars
<1>15. CASE SendWindow
  <2>1. /\ Call({"Do", "Ask"})
        /\ UNCHANGED <<requestVars, playerHandle, answers, mr, mp, hMP, gui, sent, crashed, hand>>
    BY <1>15, Zenon DEF SendWindow
  <2>2. history' = Touch(IF mp \in Player THEN {real'[mp]} ELSE {})
    BY <1>15, Zenon DEF SendWindow
  <2>3. HistoryGrows
    <3>1. \A s \in (IF mp \in Player THEN {real'[mp]} ELSE {}) : \E p \in Player : s = real'[p]
      OBVIOUS
    <3>2. QED
      BY <1>1, <2>2, <3>1, TouchGrows
  <2> DEFINE Says(c) == IF Understood(c) = {} \/ TableOf(Number(c)) = "ap" THEN 0
                        ELSE PlayerSays(mp, real[mp], CHOOSE d \in Understood(c) : TRUE)
             Late(c) == mp \in Player /\ Ini[mp]["cd"][c] # 0
  <2>4. pos' = CASE Head(work).command = "SET_VOLUME" -> [pos EXCEPT !.volume = Head(work).to]
                 [] Asked /\ ~Late(Head(work).command) -> Cached(Head(work).command, Says(Head(work).command))
                 [] OTHER -> pos
    BY <1>15, Zenon DEF SendWindow
  <2> HIDE DEF Says, Late
  <2>5. DOMAIN pos' = {"volume", "state"}
    BY <1>1, <2>4 DEF Cached
  <2>6. QED
    BY <2>1, <2>3, <2>5 DEF Call, requestVars
<1>16. QED
  BY <1>4, <1>5, <1>6, <1>7, <1>8, <1>9, <1>10, <1>11, <1>12, <1>13, <1>14, <1>15 DEF ChainStep

(* A request about the volume or the state, past the question for the handle: *)
(* the chain's thread keeps what is known of the player.                     *)
LEMMA StageKnows ==
  ASSUME ChainStep, FreshInv, HandleFound,
         Head(work).call \notin {"mpGetHandle", "mpOpen", "CheckControlMenu"}
  PROVE  /\ HandleFound' /\ playerHandle' = playerHandle
         /\ \A c : AskedAtOnce(c)' => AskedAtOnce(c) /\ mp' = mp
         /\ \A k, v : (Knows(k, v) => Knows(k, v)') /\ (HasTold(k, v) => HasTold(k, v)')
<1>1. playerHandle' = playerHandle /\ hMP' = hMP /\ mp' = mp /\ HistoryGrows
  BY WhoCalls, ChainLeaves
<1>2. /\ history.seen \subseteq history'.seen
      /\ history.failed => history'.failed
      /\ history.chosen => history'.chosen
  BY <1>1 DEF HistoryGrows
<1>3. Calm' => mp' = mp /\ (hMP \in {"live", "other"} => hMP' = hMP)
  BY <1>1
<1>4. QED
  BY <1>1, <1>2, <1>3, CalmKeeps

(* ... from the question for the handle: ...                                 *)
LEMMA HandleStage ==
  ASSUME mpGetHandle, NEW k \in {"volume", "state"}, NEW r, work = Finding(k, r)
  PROVE  Stage(k, r)'
<1>1. /\ playerHandle' = (hMP' # "null") /\ hMP' = Found /\ mp' = mp
      /\ work' = (IF playerHandle' THEN Head(work).then ELSE Head(work).else) \o Tail(work)
  BY DEF mpGetHandle
<1>2. Head(work) = GetHandle(k) /\ Tail(work) = Closing(k, r)
  BY StageCalls
<1>3. HandleFound'
  BY <1>1 DEF Found, HandleFound, Calm
<1>4. CASE playerHandle'
  <2>1. work' = GetHandle(k).then \o Closing(k, r)
    BY <1>1, <1>2, <1>4
  <2>2. work' \in {Preparing(k, r), Asking(k, r)}
    BY <2>1, StageJoins
  <2>3. QED
    BY <1>3, <2>2 DEF Stage
<1>5. CASE ~playerHandle'
  <2>1. work' = GetHandle(k).else \o Closing(k, r)
    BY <1>1, <1>2, <1>5
  <2>2. work' \in {Missing(k, r), Closing(k, r)}
    BY <2>1, StageJoins
  <2>3. \A v : HasTold(k, v)'
    BY <1>5 DEF HasTold, AskedAtOnce
  <2>4. QED
    BY <1>3, <1>5, <2>2, <2>3 DEF Stage
<1>6. QED
  BY <1>4, <1>5

(* ... telling the renderer: ...                                             *)
LEMMA TellStage ==
  ASSUME MRSet, ChainStep, FreshInv, ShapesOK, NEW k \in {"volume", "state"}, NEW r, HandleFound,
         \/ work = Preparing(k, r)
         \/ work = Telling(k, r) /\ Knows(k, value)
         \/ work \in {Missing(k, r), Failing(k, r)} /\ ~playerHandle
  PROVE  Stage(k, r)'
<1>1. work' = Tail(work)
  BY Zenon DEF MRSet
<1>2. Head(work).call \in {"Tell", "TellVolume", "TellState"}
  BY Zenon, WhoCalls, StageCalls DEF MRSet, Call
<1>3. /\ HandleFound' /\ playerHandle' = playerHandle
      /\ \A c : AskedAtOnce(c)' => AskedAtOnce(c) /\ mp' = mp
      /\ \A v : HasTold(k, v) => HasTold(k, v)'
  BY <1>2, StageKnows
<1>4. CASE work = Preparing(k, r)
  BY <1>1, <1>3, <1>4, StageCalls DEF Stage
<1>5. CASE work = Telling(k, r) /\ Knows(k, value)
  <2>1. work' = Closing(k, r) /\ Head(work) = Teller(k)
    BY <1>1, <1>5, StageCalls
  <2>2. mr' = CASE Head(work).call = "TellVolume" -> [mr EXCEPT !.volume["Master"] = value]
                [] Head(work).call = "TellState" -> [mr EXCEPT !.state = StateOf(value)]
                [] Head(work).call = "Tell" /\ Head(work).field = "mute" ->
                     [mr EXCEPT !.mute["Master"] = Head(work).to]
                [] OTHER -> [mr EXCEPT ![Head(work).field] = Head(work).to]
    BY Zenon DEF MRSet
  <2>3. CASE k = "volume"
    <3>1. Head(work).call = "TellVolume"
      BY <2>1, <2>3 DEF Teller
    <3>2. mr' = [mr EXCEPT !.volume["Master"] = value]
      BY <2>2, <3>1
    <3>3. PICK v : v = value
      OBVIOUS
    <3>4. mr'.volume["Master"] = v
      BY <3>2, <3>3 DEF ShapesOK
    <3>5. HasTold(k, v)'
      <4>1. HasTold(k, v)
        BY <1>5, <2>3, <3>3 DEF Knows, HasTold
      <4>2. QED
        BY <1>3, <4>1
    <3>6. QED
      BY <1>3, <2>1, <2>3, <3>4, <3>5 DEF Stage
  <2>4. CASE k = "state"
    <3>1. Head(work).call = "TellState"
      BY <2>1, <2>4 DEF Teller
    <3>2. mr' = [mr EXCEPT !.state = StateOf(value)]
      BY <2>2, <3>1
    <3>3. PICK v : v = StateOf(value)
      OBVIOUS
    <3>4. mr'.state = v
      BY <3>2, <3>3 DEF ShapesOK
    <3>5. HasTold(k, v)
      <4>1. SUFFICES ASSUME AskedAtOnce(Question(k)) PROVE \E s \in history.seen : v = s.state
        BY <2>4 DEF HasTold
      <4>2. PICK s \in history.seen : value = StateCode[mp][s.state]
        BY <1>5, <2>4, <4>1 DEF Knows
      <4>3. s.state \in PlayState /\ mp \in Player
        BY <4>1 DEF FreshInv, PlayerShape, AskedAtOnce
      <4>4. QED
        BY <3>3, <4>2, <4>3, StateRead
    <3>6. HasTold(k, v)'
      BY <1>3, <3>5
    <3>7. QED
      BY <1>3, <2>1, <2>4, <3>4, <3>6 DEF Stage
  <2>5. QED
    BY <2>3, <2>4
<1>6. CASE work \in {Missing(k, r), Failing(k, r)} /\ ~playerHandle
  <2>1. work' \in {Failing(k, r), Closing(k, r)}
    BY <1>1, <1>6, StageCalls
  <2>2. \A v : HasTold(k, v)'
    BY <1>3, <1>6 DEF HasTold, AskedAtOnce
  <2>3. QED
    BY <1>3, <1>6, <2>1, <2>2 DEF Stage
<1>7. QED
  BY <1>4, <1>5, <1>6

(* ... the player asked: ...                                                 *)
LEMMA AskStage ==
  ASSUME SendHttp \/ SendWindow, ChainStep, FreshInv, ShapesOK, NEW k \in {"volume", "state"}, NEW r,
         HandleFound, work = Asking(k, r)
  PROVE  Stage(k, r)'
<1>1. Head(work) = AskFor(k) /\ Tail(work) = Telling(k, r)
  BY StageCalls
<1>2. Head(work).call = "Ask"
  BY <1>1 DEF AskFor
<1>3. HandleFound'
  BY <1>2, StageKnows
<1>4. DOMAIN pos = {"volume", "state"} /\ {"seen", "failed"} \subseteq DOMAIN history
  BY DEF FreshInv
<1>5. CASE SendHttp
  <2>1. work' = Telling(k, r) /\ Knows(k, value)'
    BY <1>1, <1>4, <1>5, AskedByHttp
  <2>2. QED
    BY <1>3, <2>1 DEF Stage
<1>6. CASE SendWindow
  <2>1. \/ work' = Telling(k, r) /\ Knows(k, value)'
        \/ work' = Reading(k, r) /\ ~AskedAtOnce(Question(k))'
    BY <1>1, <1>4, <1>6, AskedByWindow, StageJoins
  <2>2. QED
    BY <1>3, <2>1 DEF Stage
<1>7. QED
  BY <1>5, <1>6

(* ... and the answer.                                                       *)
LEMMA AnswerStage ==
  ASSUME UPnPResponseGeneric, ChainStep, FreshInv, WorkInv, NEW k \in {"volume", "state"}, NEW r,
         About(k, r), HandleFound, work = Closing(k, r),
         HasTold(k, IF k = "volume" THEN mr.volume["Master"] ELSE mr.state)
  PROVE  Stage(k, r)'
<1>1. Head(work) = AnswerTo(k, r) /\ Tail(work) = <<>>
  BY StageCalls
<1>2. Head(work).call = "Respond" /\ Head(work).what = k
      /\ (k = "volume" => Head(work).channel = "Master")
  BY <1>1 DEF AnswerTo, About
<1>3. HandleFound' /\ \A v : HasTold(k, v) => HasTold(k, v)'
  BY <1>2, StageKnows
<1>4. work' = <<>>
  <2>1. work' = Tail(work)
    BY Zenon DEF UPnPResponseGeneric
  <2>2. QED
    BY <1>1, <2>1
<1>5. answers = <<>>
  <2>1. work # <<>>
    BY WhoCalls
  <2>2. QED
    BY <2>1 DEF WorkInv
<1>6. PICK a : a = [fault |-> 0, what |-> Head(work).what,
                    value |-> CASE Head(work).what \in {"volume", "mute"} ->
                                     mr[Head(work).what][Head(work).channel]
                                [] Head(work).what \in {"state", "metadata"} -> mr[Head(work).what]
                                [] OTHER -> 0]
  OBVIOUS
<1>7. answers' = <<a>>
  <2>1. answers' = Append(answers,
                     [fault |-> 0, what |-> Head(work).what,
                      value |-> CASE Head(work).what \in {"volume", "mute"} ->
                                       mr[Head(work).what][Head(work).channel]
                                  [] Head(work).what \in {"state", "metadata"} -> mr[Head(work).what]
                                  [] OTHER -> 0])
    BY Zenon DEF UPnPResponseGeneric
  <2>2. answers' = Append(answers, a)
    BY <1>6, <2>1, Zenon
  <2>3. QED
    BY <1>5, <2>2
<1>8. a.what = k /\ a.value = IF k = "volume" THEN mr.volume["Master"] ELSE mr.state
  BY <1>2, <1>6
<1>9. HasTold(k, a.value)'
  <2>1. PICK v : v = a.value
    OBVIOUS
  <2>2. HasTold(k, v)
    BY <1>8, <2>1
  <2>3. QED
    BY <1>3, <2>1, <2>2
<1>10. QED
  BY <1>3, <1>4, <1>7, <1>8, <1>9 DEF Stage

(* A step that makes no call and leaves the handle, or adds something that     *)
(* excuses the player, leaves the stage.                                     *)
LEMMA StageStays ==
  ASSUME UNCHANGED <<work, value, answers, playerHandle, mr.volume, mr.state>>,
         history.seen \subseteq history'.seen,
         history.failed => history'.failed, history.chosen => history'.chosen,
         Calm' => mp' = mp /\ (hMP \in {"live", "other"} => hMP' = hMP),
         NEW k \in {"volume", "state"}, NEW r, Stage(k, r)
  PROVE  Stage(k, r)'
<1>1. CASE work = Finding(k, r)
  BY <1>1 DEF Stage
<1>2. CASE HandleFound
  <2>1. /\ HandleFound'
        /\ \A c : AskedAtOnce(c)' => AskedAtOnce(c)
        /\ \A v : (Knows(k, v) => Knows(k, v)') /\ (HasTold(k, v) => HasTold(k, v)')
    BY <1>2, CalmKeeps
  <2>2. CASE work \in {Preparing(k, r), Asking(k, r)}
    BY <2>1, <2>2 DEF Stage
  <2>3. CASE work = Reading(k, r) /\ ~AskedAtOnce(Question(k))
    BY <2>1, <2>3 DEF Stage
  <2>4. CASE work = Telling(k, r) /\ Knows(k, value)
    <3>1. PICK v : v = value
      OBVIOUS
    <3>2. Knows(k, v)'
      BY <2>1, <2>4, <3>1
    <3>3. v = value'
      BY <3>1
    <3>4. Knows(k, value)'
      BY <3>2, <3>3
    <3>5. QED
      BY <2>1, <2>4, <3>4 DEF Stage
  <2>5. CASE work \in {Missing(k, r), Failing(k, r)} /\ ~playerHandle
    BY <2>1, <2>5 DEF Stage
  <2>6. CASE /\ work = Closing(k, r)
             /\ HasTold(k, IF k = "volume" THEN mr.volume["Master"] ELSE mr.state)
    <3>1. PICK v : v = IF k = "volume" THEN mr.volume["Master"] ELSE mr.state
      OBVIOUS
    <3>2. HasTold(k, v)'
      BY <2>1, <2>6, <3>1
    <3>3. v = IF k = "volume" THEN mr'.volume["Master"] ELSE mr'.state
      BY <3>1
    <3>4. HasTold(k, IF k = "volume" THEN mr.volume["Master"] ELSE mr.state)'
      BY <3>2, <3>3
    <3>5. QED
      BY <2>1, <2>6, <3>4 DEF Stage
  <2>7. ASSUME NEW a, work = <<>>, answers = <<a>>, a.what = k, HasTold(k, a.value) PROVE Stage(k, r)'
    <3>1. HasTold(k, a.value)'
      BY <2>1, <2>7
    <3>2. QED
      BY <2>1, <2>7, <3>1 DEF Stage
  <2>8. QED
    BY <1>2, <2>2, <2>3, <2>4, <2>5, <2>6, <2>7 DEF Stage
<1>3. QED
  BY <1>1, <1>2 DEF Stage

(* A step of the chain's thread leads from one stage to another.              *)
LEMMA ChainKeepsStage ==
  ASSUME FreshInv, WorkInv, ShapesOK, ChainStep, NEW k \in {"volume", "state"}, NEW r,
         About(k, r), Stage(k, r)
  PROVE  Stage(k, r)' /\ ~CheckControlMenu
<1>1. work # <<>>
  BY WhoCalls
<1>2. ASSUME UseFreed PROVE Stage(k, r)'
  <2>1. UNCHANGED <<work, playerHandle, value, answers, mr, mp, hMP, history>>
    BY <1>2 DEF UseFreed, chainVars, mpVars
  <2>2. QED
    BY <2>1, StageStays
<1>3. CASE work = Finding(k, r)
  <2>1. Head(work).call = "mpGetHandle"
    BY <1>3, StageCalls DEF GetHandle
  <2>2. (UseFreed \/ mpGetHandle) /\ ~CheckControlMenu
    BY <2>1, WhoCalls
  <2>3. QED
    BY <1>2, <1>3, <2>2, HandleStage
<1>4. ASSUME HandleFound,
             \/ work = Preparing(k, r)
             \/ work = Telling(k, r) /\ Knows(k, value)
             \/ work \in {Missing(k, r), Failing(k, r)} /\ ~playerHandle
      PROVE  Stage(k, r)' /\ ~CheckControlMenu
  <2>1. Head(work).call \in {"Tell", "TellVolume", "TellState"}
    BY <1>4, StageCalls DEF TellOk, Teller, TellNoMedia, TellError
  <2>2. (UseFreed \/ MRSet) /\ ~CheckControlMenu
    BY <2>1, WhoCalls
  <2>3. QED
    BY <1>2, <1>4, <2>2, TellStage
<1>5. ASSUME HandleFound, work = Asking(k, r) PROVE Stage(k, r)' /\ ~CheckControlMenu
  <2>1. Head(work).call = "Ask"
    BY <1>5, StageCalls DEF AskFor
  <2>2. (UseFreed \/ SendHttp \/ SendWindow) /\ ~CheckControlMenu
    BY <2>1, WhoCalls
  <2>3. QED
    BY <1>2, <1>5, <2>2, AskStage
<1>6. ASSUME HandleFound, work = Reading(k, r), ~AskedAtOnce(Question(k))
      PROVE  Stage(k, r)' /\ ~CheckControlMenu
  <2>1. Head(work).call = "FromCache" /\ Tail(work) = Telling(k, r)
    BY <1>6, StageCalls DEF ReadFor
  <2>2. (UseFreed \/ FromCache) /\ ~CheckControlMenu
    BY <2>1, WhoCalls
  <2>3. ASSUME FromCache PROVE Stage(k, r)'
    <3>1. HandleFound' /\ ~AskedAtOnce(Question(k))'
      BY <1>6, <2>1, StageKnows
    <3>2. work' = Telling(k, r)
      BY <2>1, <2>3 DEF FromCache
    <3>3. QED
      BY <3>1, <3>2 DEF Stage, Knows
  <2>4. QED
    BY <1>2, <2>2, <2>3
<1>7. ASSUME HandleFound, work = Closing(k, r),
             HasTold(k, IF k = "volume" THEN mr.volume["Master"] ELSE mr.state)
      PROVE  Stage(k, r)' /\ ~CheckControlMenu
  <2>1. Head(work).call = "Respond"
    <3>1. Head(work) = AnswerTo(k, r)
      BY <1>7, StageCalls
    <3>2. AnswerTo(k, r).call = "Respond"
      BY DEF AnswerTo
    <3>3. QED
      BY <3>1, <3>2
  <2>2. UPnPResponseGeneric /\ ~CheckControlMenu
    BY <2>1, WhoCalls
  <2>3. QED
    BY <1>7, <2>2, AnswerStage
<1>8. QED
  BY <1>1, <1>3, <1>4, <1>5, <1>6, <1>7 DEF Stage

(* The last call of two sequences is that of the second.                     *)
LEMMA LastOf ==
  ASSUME NEW s, NEW t, IsSeq(s), IsSeq(t), t # <<>>
  PROVE  s \o t # <<>> /\ (s \o t)[Len(s \o t)] = t[Len(t)]
<1>1. Len(t) \in Nat \ {0} /\ Len(s) \in Nat
  BY DEF IsSeq
<1>2. Len(s \o t) = Len(s) + Len(t) /\ (s \o t)[Len(s) + Len(t)] = t[Len(t)]
  BY <1>1, Concatenated
<1>3. s \o t # <<>>
  BY <1>1, <1>2
<1>4. QED
  BY <1>2, <1>3

(* The last call is the last of the rest.                                    *)
LEMMA LastOfTail ==
  ASSUME NEW s, IsSeq(s), s # <<>>, Tail(s) # <<>>
  PROVE  IsSeq(Tail(s)) /\ Tail(s)[Len(Tail(s))] = s[Len(s)]
<1>1. PICK T : s \in Seq(T)
  BY DEF IsSeq
<1>2. /\ Tail(s) \in Seq(T) /\ Len(Tail(s)) = Len(s) - 1 /\ Len(s) \in Nat
      /\ \A i \in 1 .. Len(s) - 1 : Tail(s)[i] = s[i + 1]
  BY <1>1, HeadTailProperties
<1>3. Len(s) - 1 # 0
  BY <1>1, <1>2
<1>4. Tail(s)[Len(s) - 1] = s[(Len(s) - 1) + 1]
  BY <1>1, <1>2, <1>3
<1>5. QED
  BY <1>2, <1>4 DEF IsSeq

(* An answer to something else stays the last call until it is given.        *)
LEMMA ChainKeepsApart ==
  ASSUME WorkInv, ChainStep, NEW r, Apart(work, r)
  PROVE  \/ Apart(work', r)
         \/ work' = <<>> /\ \E a : answers' = <<a>> /\ Unheard(a.what, r)
<1>1. work # <<>> /\ Answering(work) /\ IsSeq(work) /\ answers = <<>>
  BY WhoCalls DEF WorkInv, Answering
<1>2. CASE UseFreed
  <2>1. work' = work
    BY <1>2 DEF UseFreed, chainVars
  <2>2. QED
    BY <2>1
<1>3. CASE mpGetHandle \/ SendHttp \/ SendWindow \/ FromCache \/ mpOpen \/ CheckControlMenu
           \/ MRSet \/ IfPlaying \/ ComputeMetadata
  <2>1. /\ Head(work).call \notin {"Error", "Respond"}
        /\ \/ work' = Tail(work)
           \/ \E calls : SimpleSeq(calls) /\ work' = calls \o Tail(work)
    BY <1>3, CallsLeft
  <2>2. Tail(work) # <<>>
    BY <1>1, <2>1, FirstCall DEF Answering
  <2>3. IsSeq(Tail(work)) /\ Tail(work)[Len(Tail(work))] = work[Len(work)]
    BY <1>1, <2>2, LastOfTail
  <2>4. \A calls : SimpleSeq(calls) =>
          /\ calls \o Tail(work) # <<>>
          /\ (calls \o Tail(work))[Len(calls \o Tail(work))] = work[Len(work)]
    BY <2>2, <2>3, LastOf DEF SimpleSeq
  <2>5. work' # <<>> /\ work'[Len(work')] = work[Len(work)]
    BY <2>1, <2>2, <2>3, <2>4
  <2>6. QED
    BY <2>5 DEF Apart
<1>4. ASSUME Head(work).call \in {"Error", "Respond"}
      PROVE  Tail(work) = <<>> /\ work[Len(work)] = Head(work)
  <2>1. Head(work) = work[1] /\ Tail(work) = <<>>
    BY <1>1, <1>4, FirstCall
  <2>2. Len(work) = 1
    <3>1. PICK T : work \in Seq(T)
      BY <1>1 DEF IsSeq
    <3>2. Len(Tail(work)) = Len(work) - 1 /\ Len(work) \in Nat
      BY <1>1, <3>1, HeadTailProperties
    <3>3. Len(<<>>) = 0
      OBVIOUS
    <3>4. Len(Tail(work)) = 0
      BY <2>1, <3>3, Zenon
    <3>5. QED
      BY <3>2, <3>4
  <2>3. QED
    BY <2>1, <2>2
<1>5. CASE UPnPResponse_Error
  <2>1. /\ work' = Tail(work) /\ Head(work).call = "Error"
        /\ answers' = Append(answers, [fault |-> Head(work).code, what |-> "none", value |-> 0])
    BY <1>5 DEF UPnPResponse_Error, Call
  <2>2. PICK a : a = [fault |-> Head(work).code, what |-> "none", value |-> 0]
    OBVIOUS
  <2>3. answers' = <<a>> /\ a.what = "none"
    BY <1>1, <2>1, <2>2
  <2>4. QED
    BY <1>4, <2>1, <2>3 DEF Unheard
<1>6. CASE UPnPResponseGeneric
  <2>1. /\ work' = Tail(work) /\ Head(work).call = "Respond"
        /\ \E v : answers' = Append(answers, [fault |-> 0, what |-> Head(work).what, value |-> v])
    BY <1>6 DEF UPnPResponseGeneric, Call
  <2>2. PICK v : answers' = Append(answers, [fault |-> 0, what |-> Head(work).what, value |-> v])
    BY <2>1
  <2>3. PICK a : a = [fault |-> 0, what |-> Head(work).what, value |-> v]
    OBVIOUS
  <2>4. answers' = <<a>> /\ a.what = Head(work).what
    BY <1>1, <2>2, <2>3
  <2>5. Unheard(Head(work).what, r)
    BY <1>4, <2>1 DEF Apart
  <2>6. QED
    BY <1>4, <2>1, <2>4, <2>5
<1>7. QED
  BY <1>2, <1>3, <1>5, <1>6 DEF ChainStep

(* The chain's thread waits for the dialog only in the middle of a request.   *)
LEMMA ChainWaits ==
  ASSUME WorkInv, FreshInv, ChainStep PROVE work' = <<>> => sent' = NULL
<1>1. sent = NULL /\ (CheckControlMenu \/ sent' = sent)
  BY ChainLeaves
<1>2. CASE CheckControlMenu
  <2>1. work' = Tail(work) /\ Head(work).call = "CheckControlMenu"
    BY <1>2 DEF CheckControlMenu, Call
  <2>2. Answering(work)
    BY WhoCalls DEF WorkInv
  <2>3. Tail(work) # <<>>
    BY <2>1, <2>2, FirstCall DEF Answering
  <2>4. QED
    BY <2>1, <2>3
<1>3. QED
  BY <1>1, <1>2

(* The chain's thread keeps what is fresh.                                   *)
LEMMA ChainKeepsFresh ==
  ASSUME FreshInv, WorkInv, ShapesOK, ShapesOK', ChainStep PROVE FreshInv'
<1>1. /\ request' = request /\ sent = NULL /\ HistoryGrows /\ DOMAIN pos' = {"volume", "state"}
      /\ CheckControlMenu \/ sent' = sent
  BY ChainLeaves
<1>2. /\ {"seen", "failed", "chosen"} \subseteq DOMAIN history'
      /\ \A s \in history'.seen : PlayerShape(s)
  <2>1. \A p \in Player : PlayerShape(real'[p])
    BY DEF ShapesOK, PlayerShape
  <2>2. \A s \in history.seen : PlayerShape(s)
    BY DEF FreshInv
  <2>3. QED
    BY <1>1, <2>1, <2>2 DEF HistoryGrows
<1>3. work' = <<>> => sent' = NULL
  BY ChainWaits
<1>4. PICK r : r = request
  OBVIOUS
<1>5. CASE Apart(work, r)
  <2>1. \/ Apart(work', r)
        \/ work' = <<>> /\ \E a : answers' = <<a>> /\ Unheard(a.what, r)
    BY <1>5, ChainKeepsApart
  <2>2. r = request'
    BY <1>1, <1>4
  <2>3. \/ Apart(work', request')
        \/ work' = <<>> /\ \E a : answers' = <<a>> /\ Unheard(a.what, request')
    BY <2>1, <2>2
  <2>4. QED
    BY <1>1, <1>2, <1>3, <2>3 DEF FreshInv
<1>6. ASSUME NEW k \in {"volume", "state"}, About(k, r), Stage(k, r) PROVE FreshInv'
  <2>1. Stage(k, r)' /\ sent' = sent
    BY <1>1, <1>6, ChainKeepsStage
  <2>2. r = request'
    BY <1>1, <1>4
  <2>3. Stage(k, request)' /\ About(k, request')
    BY <1>6, <2>1, <2>2
  <2>4. QED
    BY <1>1, <1>2, <1>3, <2>1, <2>3 DEF FreshInv
<1>7. work # <<>>
  BY WhoCalls
<1>8. QED
  BY <1>4, <1>5, <1>6, <1>7 DEF FreshInv

(* An answer of one of these kinds is not one about the volume or the state.  *)
LEMMA ApartAnswers ==
  ASSUME NEW r
  PROVE  /\ \A code : Apart(Error(code), r)
         /\ \A what : Unheard(what, r) => Apart(Respond(what), r)
         /\ \A what, c : Unheard(what, r) =>
              Apart(<<[call |-> "Respond", what |-> what, channel |-> c]>>, r)
         /\ \A s, what : IsSeq(s) /\ Unheard(what, r) => Apart(s \o Respond(what), r)
         /\ \A s, what, c : IsSeq(s) /\ Unheard(what, r) =>
              Apart(s \o <<[call |-> "Respond", what |-> what, channel |-> c]>>, r)
         /\ \A s : Apart(s, r) => Apart(OfInstance(r, s), r)
         /\ \A what \in {"none", "mute", "metadata"} : Unheard(what, r)
<1>1. ASSUME NEW c, NEW s, IsSeq(s),
             c.call = "Error" \/ (c.call = "Respond" /\ Unheard(c.what, r))
      PROVE  Apart(<<c>>, r) /\ Apart(s \o <<c>>, r)
  <2>1. <<c>> \in Seq({c}) /\ <<c>>[Len(<<c>>)] = c /\ <<c>> # <<>>
    OBVIOUS
  <2>2. IsSeq(<<c>>)
    BY <2>1 DEF IsSeq
  <2>3. s \o <<c>> # <<>> /\ (s \o <<c>>)[Len(s \o <<c>>)] = c
    BY <1>1, <2>1, <2>2, LastOf
  <2>4. QED
    BY <1>1, <2>1, <2>3 DEF Apart
<1>2. \A code : Apart(Error(code), r)
  <2>1. ASSUME NEW code PROVE Apart(Error(code), r)
    <3>1. IsSeq(<<>>)
      BY OneCall DEF SimpleSeq
    <3>2. QED
      BY <1>1, <3>1 DEF Error
  <2>2. QED
    BY <2>1
<1>3. ASSUME NEW what, Unheard(what, r), NEW s, IsSeq(s), NEW c
      PROVE  /\ Apart(Respond(what), r) /\ Apart(s \o Respond(what), r)
             /\ Apart(<<[call |-> "Respond", what |-> what, channel |-> c]>>, r)
             /\ Apart(s \o <<[call |-> "Respond", what |-> what, channel |-> c]>>, r)
  <2>1. PICK d : d = [call |-> "Respond", what |-> what]
    OBVIOUS
  <2>2. PICK e : e = [call |-> "Respond", what |-> what, channel |-> c]
    OBVIOUS
  <2>3. d.call = "Respond" /\ d.what = what /\ e.call = "Respond" /\ e.what = what
    BY <2>1, <2>2
  <2>4. Apart(<<d>>, r) /\ Apart(s \o <<d>>, r) /\ Apart(<<e>>, r) /\ Apart(s \o <<e>>, r)
    BY <1>1, <1>3, <2>3
  <2>5. QED
    BY <2>1, <2>2, <2>4 DEF Respond
<1>4. \A s : Apart(s, r) => Apart(OfInstance(r, s), r)
  BY <1>2 DEF OfInstance
<1>5. \A what \in {"none", "mute", "metadata"} : Unheard(what, r)
  BY DEF Unheard
<1>6. \E s : IsSeq(s)
  BY OneCall DEF SimpleSeq
<1>7. QED
  BY <1>2, <1>3, <1>4, <1>5, <1>6, Zenon

(* What the questions about the volume and the state come to, call by call.   *)
LEMMA VolumeSink ==
  ASSUME NEW r, About("volume", r)
  PROVE  MROnVolumeChangeRequestSink(r.args["Channel"], -1)
           \o <<[call |-> "Respond", what |-> "volume", channel |-> r.args["Channel"]]>>
         = Finding("volume", r)
<1>1. (<<>> \o Ask("GET_VOLUME")) \o TellVolume = <<AskFor("volume"), Teller("volume")>>
  <2>1. <<>> \o Ask("GET_VOLUME") = Ask("GET_VOLUME")
    BY EmptyThen, OneCall DEF SimpleSeq
  <2>2. AskFor("volume") = [call |-> "Ask", command |-> "GET_VOLUME"]
        /\ Teller("volume") = [call |-> "TellVolume"]
    BY DEF AskFor, Teller, Question
  <2>3. Ask("GET_VOLUME") \o TellVolume = <<AskFor("volume"), Teller("volume")>>
    BY <2>2, Tuples DEF Ask, TellVolume
  <2>4. QED
    BY <2>1, <2>3
<1>2. MROnVolumeChangeRequestSink(r.args["Channel"], -1) = <<GetHandle("volume")>>
  <2>1. MROnVolumeChangeRequestSink("Master", -1)
          = IfPlayer((<<>> \o Ask("GET_VOLUME")) \o TellVolume, <<>>)
    BY DEF MROnVolumeChangeRequestSink
  <2>2. r.args["Channel"] = "Master"
    BY DEF About
  <2>3. QED
    BY <1>1, <2>1, <2>2 DEF IfPlayer, GetHandle
<1>3. AnswerTo("volume", r) = [call |-> "Respond", what |-> "volume", channel |-> r.args["Channel"]]
  BY DEF AnswerTo
<1>4. <<GetHandle("volume")>> \o <<AnswerTo("volume", r)>> = Finding("volume", r)
  BY Tuples DEF Finding
<1>5. QED
  BY <1>2, <1>3, <1>4

(* The sink of GetTransportInfo begins the search for the state.             *)
LEMMA TransportSink ==
  ASSUME NEW r PROVE MROnGetTransportRequestSink \o Respond("state") = Finding("state", r)
<1>1. (Tell("status", "OK") \o Ask("GET_STATE")) \o TellState
        = <<TellOk, AskFor("state"), Teller("state")>>
  <2>1. AskFor("state") = [call |-> "Ask", command |-> "GET_STATE"]
        /\ Teller("state") = [call |-> "TellState"]
    BY DEF AskFor, Teller, Question
  <2>2. <<TellOk>> \o <<AskFor("state")>> = <<TellOk, AskFor("state")>>
    BY Tuples
  <2>3. <<TellOk, AskFor("state")>> \o <<Teller("state")>> = <<TellOk, AskFor("state"), Teller("state")>>
    BY Tuples
  <2>4. /\ Tell("status", "OK") = <<TellOk>> /\ Ask("GET_STATE") = <<AskFor("state")>>
        /\ TellState = <<Teller("state")>>
    BY <2>1 DEF Tell, Ask, TellState, TellOk
  <2>5. QED
    BY <2>2, <2>3, <2>4
<1>2. Tell("state", "NO_MEDIA_PRESENT") \o Tell("status", "ERROR_OCCURRED") = <<TellNoMedia, TellError>>
  BY Tuples DEF Tell, TellNoMedia, TellError
<1>3. MROnGetTransportRequestSink = <<GetHandle("state")>>
  <2>1. GetHandle("state") = [call |-> "mpGetHandle",
                              then |-> <<TellOk, AskFor("state"), Teller("state")>>,
                              else |-> <<TellNoMedia, TellError>>]
    BY DEF GetHandle
  <2>2. QED
    BY <1>1, <1>2, <2>1 DEF MROnGetTransportRequestSink, IfPlayer
<1>4. Respond("state") = <<AnswerTo("state", r)>>
  BY DEF Respond, AnswerTo
<1>5. <<GetHandle("state")>> \o <<AnswerTo("state", r)>> = Finding("state", r)
  BY Tuples DEF Finding
<1>6. QED
  BY <1>3, <1>4, <1>5

(* Every handler of an action that was let pass asks for the volume of the    *)
(* player or for its state, or answers with neither.                         *)
LEMMA HandlerHeard ==
  ASSUME NEW r, NEW e, UPnPProcessPOST(r, e).fault = 0
  PROVE  \/ Apart(Handler(r), r)
         \/ \E k \in {"volume", "state"} : About(k, r) /\ Handler(r) = Finding(k, r)
<1>1. \A s : SinkSeq(s) => IsSeq(s)
  BY DEF SinkSeq
<1> USE ApartAnswers, Sinks, SinkThenSink, <1>1
<1>2. CASE r.action \in {"GetCurrentTransportActions", "GetDeviceCapabilities",
                        "GetTransportSettings", "GetMute", "GetCurrentConnectionIDs",
                        "GetProtocolInfo", "GetCurrentConnectionInfo"}
  BY <1>2 DEF Handler, UPnPAVTransport_GetCurrentTransportActions,
    UPnPAVTransport_GetDeviceCapabilities,
    UPnPAVTransport_GetTransportSettings, UPnPRenderingControl_GetMute,
    UPnPConnectionManager_GetCurrentConnectionIDs, UPnPConnectionManager_GetProtocolInfo,
    UPnPConnectionManager_GetCurrentConnectionInfo, UPnPResponse_AVTransport,
    UPnPResponse_ConnectionManager, UPnPResponse_RenderingControl
<1>3. CASE r.action \in {"GetMediaInfo", "GetPositionInfo"}
  BY <1>3 DEF Handler, UPnPAVTransport_GetMediaInfo, UPnPAVTransport_GetPositionInfo,
              UPnPResponse_AVTransport
<1>4. CASE r.action \in {"Next", "Previous", "Play", "Pause", "Stop", "SetAVTransportURI",
                        "SetPlayMode"}
  BY <1>4 DEF Handler, UPnPAVTransport_Next, UPnPAVTransport_Previous,
       UPnPAVTransport_Play, UPnPAVTransport_Pause, UPnPAVTransport_Stop,
       UPnPAVTransport_SetAVTransportURI, UPnPAVTransport_SetPlayMode, UPnPResponse_AVTransport
<1>5. CASE r.action = "Seek"
  <2>1. r.args["Unit"] \in {"ABS_COUNT", "TRACK_NR", "REL_TIME"}
    BY <1>5, Dispatched DEF SeekModes
  <2>2. \E n : \/ UPnPAVTransport_Seek(r) = OfInstance(r, Error(710))
               \/ UPnPAVTransport_Seek(r) = OfInstance(r, Error(711))
               \/ UPnPAVTransport_Seek(r) = OfInstance(r, MROnSeekRequestSink(n) \o Respond("none"))
    BY <2>1 DEF UPnPAVTransport_Seek, UPnPResponse_AVTransport
  <2>3. QED
    BY <2>2, <1>5 DEF Handler
<1>6. CASE r.action \in {"SetMute", "SetVolume", "upnpRenderer_GetMediaPlayersList",
                        "upnpRenderer_SetMediaPlayer"}
  BY <1>6 DEF Handler, UPnPRenderingControl_SetMute, UPnPRenderingControl_SetVolume,
    UPnPRenderingControl_upnpRenderer_GetMediaPlayersList,
    UPnPRenderingControl_upnpRenderer_SetMediaPlayer, UPnPResponse_RenderingControl
<1>7. CASE r.action = "GetVolume"
  <2> DEFINE s == MROnVolumeChangeRequestSink(r.args["Channel"], -1)
                  \o <<[call |-> "Respond", what |-> "volume", channel |-> r.args["Channel"]]>>
  <2>1. Handler(r) = OfInstance(r, s)
    BY <1>7 DEF Handler, UPnPRenderingControl_GetVolume
  <2>2. CASE About("volume", r)
    <3>1. s = Finding("volume", r)
      BY <2>2, VolumeSink
    <3>2. Handler(r) = Finding("volume", r) \/ Handler(r) = Error(718)
      BY <2>1, <3>1 DEF OfInstance
    <3>3. QED
      BY <2>2, <3>2
  <2>3. CASE ~About("volume", r)
    <3>1. Unheard("volume", r)
      BY <2>3 DEF Unheard
    <3>2. Apart(s, r)
      BY <3>1
    <3>3. QED
      BY <2>1, <3>2
  <2>4. QED
    BY <2>2, <2>3
<1>8. CASE r.action = "GetTransportInfo"
  <2>1. Handler(r) = OfInstance(r, Finding("state", r))
    BY <1>8, TransportSink DEF Handler, UPnPAVTransport_GetTransportInfo, UPnPResponse_AVTransport
  <2>2. Handler(r) = Finding("state", r) \/ Handler(r) = Error(718)
    BY <2>1 DEF OfInstance
  <2>3. About("state", r)
    BY DEF About
  <2>4. QED
    BY <2>2, <2>3
<1>9. QED
  BY <1>2, <1>3, <1>4, <1>5, <1>6, <1>7, <1>8, Dispatched

(* A request that comes begins one of these questions, or something else.     *)
LEMMA RequestKeepsFresh ==
  ASSUME FreshInv, WorkInv, ShapesOK, NEW q \in Request, UPnPProcessHTTPPacket(q) PROVE FreshInv'
<1>1. /\ work = <<>> /\ request' = q /\ sent' = sent /\ pos' = pos
      /\ work' = IF UPnPProcessPOST(q, errno).fault # 0 THEN Error(UPnPProcessPOST(q, errno).fault)
                 ELSE Handler(q)
      /\ history' = Fresh(IF mp \in Player THEN {real[mp]} ELSE {}, gui # Pump)
  BY DEF UPnPProcessHTTPPacket, mpVars, guiVars
<1>2. /\ {"seen", "failed", "chosen"} \subseteq DOMAIN history'
      /\ history'.seen = IF mp \in Player THEN {real[mp]} ELSE {}
  BY <1>1 DEF Fresh
<1>3. \A s \in history'.seen : PlayerShape(s)
  BY <1>2 DEF ShapesOK
<1>4. sent' = NULL /\ DOMAIN pos' = {"volume", "state"}
  BY <1>1 DEF FreshInv
<1>5. ASSUME Apart(work', q) PROVE FreshInv'
  <2>1. Apart(work', request')
    BY <1>1, <1>5
  <2>2. QED
    BY <1>2, <1>3, <1>4, <2>1 DEF FreshInv
<1>6. ASSUME NEW k \in {"volume", "state"}, About(k, q), work' = Finding(k, q) PROVE FreshInv'
  <2>1. Stage(k, request)' /\ About(k, request')
    BY <1>1, <1>6 DEF Stage
  <2>2. QED
    BY <1>2, <1>3, <1>4, <2>1 DEF FreshInv
<1>7. CASE UPnPProcessPOST(q, errno).fault # 0
  BY <1>1, <1>5, <1>7, ApartAnswers
<1>8. CASE UPnPProcessPOST(q, errno).fault = 0
  BY <1>1, <1>5, <1>6, <1>8, HandlerHeard
<1>9. QED
  BY <1>7, <1>8

(* The dialog's thread and the user excuse the player, or leave its handle:   *)
(* the object is replaced in the middle of a request only when the user      *)
(* chose a player.                                                           *)
LEMMA GuiLeaves ==
  ASSUME MpInv, ShapesOK, FreshInv, GuiStep \/ \E p \in Player : ChooseByHand(p) \/ PlayerChanges(p)
  PROVE  /\ UNCHANGED <<request, work, value, answers, playerHandle, mr.volume, mr.state>>
         /\ HistoryGrows
         /\ DOMAIN pos' = {"volume", "state"}
         /\ sent = NULL => /\ sent' = NULL
                           /\ Calm' => mp' = mp /\ (hMP \in {"live", "other"} => hMP' = hMP)
<1> USE DEF chainVars, requestVars
<1>1. {"seen", "failed", "chosen"} \subseteq DOMAIN history /\ DOMAIN pos = {"volume", "state"}
  BY DEF FreshInv
<1>2. history' = history => HistoryGrows
  BY <1>1 DEF HistoryGrows
<1>3. CASE ChooseForChain
  BY <1>1, <1>2, <1>3 DEF ChooseForChain
<1>4. CASE mpCreate \/ mpLoadDataINI
  <2>1. /\ UNCHANGED <<request, work, value, answers, playerHandle, mr, history>>
        /\ gui.at # "pump" /\ (pos' = pos \/ pos' = NoPos)
        /\ sent' \in {sent, NULL}
    BY <1>4 DEF mpCreate, mpLoadDataINI, historyVars
  <2>2. sent = NULL => history.chosen
    BY <2>1 DEF MpInv
  <2>3. DOMAIN pos' = {"volume", "state"}
    BY <1>1, <2>1 DEF NoPos
  <2>4. QED
    BY <1>2, <2>1, <2>2, <2>3 DEF Calm
<1>5. CASE wmCopyData
  <2>1. /\ UNCHANGED <<request, work, value, answers, playerHandle, mp, sent>>
        /\ mr' = mr \/ mr' = [mr EXCEPT !.metadata = "none"]
        /\ hMP' = hMP \/ hMP' = Found
        /\ history' = history \/ history' = [history EXCEPT !.retitled = @ \/ history.holds]
        /\ DOMAIN pos' = {"volume", "state"}
    BY <1>5 DEF wmCopyData
  <2>2. HistoryGrows
    BY <1>1, <1>2, <2>1 DEF HistoryGrows
  <2>3. mr'.volume = mr.volume /\ mr'.state = mr.state
    BY <2>1 DEF ShapesOK
  <2>4. Calm' /\ hMP \in {"live", "other"} => hMP' = hMP
    <3>1. Calm' => mp # "empty"
      BY <2>1, ControlAssumption DEF Calm
    <3>2. mp # "empty" /\ hMP \in {"live", "other"} => Found = hMP
      BY DEF Found
    <3>3. QED
      BY <2>1, <3>1, <3>2
  <2>5. QED
    BY <2>1, <2>2, <2>3, <2>4
<1>6. ASSUME NEW p \in Player, ChooseByHand(p)
      PROVE  /\ UNCHANGED <<request, work, value, answers, playerHandle, mr, pos, sent>>
             /\ HistoryGrows /\ history'.chosen
  <2>1. history' = [history EXCEPT !.chosen = TRUE]
    BY <1>6 DEF ChooseByHand
  <2>2. HistoryGrows /\ history'.chosen
    BY <1>1, <2>1 DEF HistoryGrows
  <2>3. QED
    BY <1>6, <2>2 DEF ChooseByHand
<1>7. ASSUME NEW p \in Player, PlayerChanges(p)
      PROVE  /\ UNCHANGED <<request, work, value, answers, playerHandle, mr, pos, sent, mp>>
             /\ HistoryGrows
             /\ Calm' => (hMP \in {"live", "other"} => hMP' = hMP)
  <2>1. /\ UNCHANGED <<request, work, value, answers, playerHandle, mr, pos, sent, mp>>
        /\ hMP' = IF mp = p /\ hMP = "live" /\ ~real'[p].open THEN "stale" ELSE hMP
        /\ history' = IF mp = p THEN [history EXCEPT !.seen = @ \cup {real'[p]}] ELSE history
    BY <1>7 DEF PlayerChanges, guiVars
  <2>2. HistoryGrows
    BY <1>1, <1>2, <2>1 DEF HistoryGrows
  <2>3. mp = p => real'[p] \in history'.seen
    BY <1>1, <2>1
  <2>4. Calm' => (hMP \in {"live", "other"} => hMP' = hMP)
    BY <2>1, <2>3 DEF Calm
  <2>5. QED
    BY <2>1, <2>2, <2>4
<1>8. CASE \E p \in Player : ChooseByHand(p)
  BY <1>1, <1>6, <1>8 DEF Calm
<1>9. CASE \E p \in Player : PlayerChanges(p)
  BY <1>1, <1>7, <1>9
<1>10. QED
  BY <1>3, <1>4, <1>5, <1>8, <1>9 DEF GuiStep

LEMMA GuiKeepsFresh ==
  ASSUME FreshInv, MpInv, ShapesOK, ShapesOK',
         GuiStep \/ \E p \in Player : ChooseByHand(p) \/ PlayerChanges(p)
  PROVE  FreshInv'
<1>1. /\ UNCHANGED <<request, work, value, answers, playerHandle, mr.volume, mr.state>>
      /\ HistoryGrows /\ DOMAIN pos' = {"volume", "state"}
      /\ sent = NULL => /\ sent' = NULL
                        /\ Calm' => mp' = mp /\ (hMP \in {"live", "other"} => hMP' = hMP)
  BY GuiLeaves
<1>2. /\ {"seen", "failed", "chosen"} \subseteq DOMAIN history'
      /\ \A s \in history'.seen : PlayerShape(s)
  <2>1. \A p \in Player : PlayerShape(real'[p])
    BY DEF ShapesOK, PlayerShape
  <2>2. \A s \in history.seen : PlayerShape(s)
    BY DEF FreshInv
  <2>3. QED
    BY <1>1, <2>1, <2>2 DEF HistoryGrows
<1>3. work' = <<>> => sent' = NULL
  BY <1>1 DEF FreshInv
<1>4. CASE Apart(work, request)
  BY <1>1, <1>2, <1>3, <1>4 DEF FreshInv, Apart, Unheard, About
<1>5. CASE work = <<>> /\ (answers = <<>> \/ \E a : answers = <<a>> /\ Unheard(a.what, request))
  BY <1>1, <1>2, <1>3, <1>5 DEF FreshInv, Unheard, About
<1>6. ASSUME NEW k \in {"volume", "state"}, About(k, request), sent = NULL, Stage(k, request)
      PROVE  FreshInv'
  <2>1. PICK r : r = request
    OBVIOUS
  <2>2. Stage(k, r)'
    <3>1. Stage(k, r) /\ (Calm' => mp' = mp /\ (hMP \in {"live", "other"} => hMP' = hMP))
      BY <1>1, <1>6, <2>1
    <3>2. /\ history.seen \subseteq history'.seen
          /\ history.failed => history'.failed
          /\ history.chosen => history'.chosen
      BY <1>1 DEF HistoryGrows
    <3>3. QED
      BY <1>1, <3>1, <3>2, StageStays
  <2>3. r = request'
    BY <1>1, <2>1
  <2>4. Stage(k, request)' /\ About(k, request')
    BY <1>6, <2>1, <2>2, <2>3
  <2>5. QED
    BY <1>1, <1>2, <1>3, <1>6, <2>4 DEF FreshInv
<1>7. QED
  BY <1>4, <1>5, <1>6 DEF FreshInv

(* What a request about the volume or the state has learnt so far is fresh,   *)
(* is an inductive invariant, together with who replaces the player object,  *)
(* how a request is answered and the shape of the players.                   *)
THEOREM FreshInductive == Spec => []FreshInv
<1>1. Init => FreshInv
  <2> SUFFICES ASSUME Init PROVE FreshInv
    OBVIOUS
  <2>1. /\ work = <<>> /\ answers = <<>> /\ sent = NULL
        /\ DOMAIN pos = {"volume", "state"}
        /\ {"seen", "failed", "chosen"} \subseteq DOMAIN history /\ history.seen = {}
    BY DEF Init, NoPos, Fresh
  <2>2. QED
    BY <2>1 DEF FreshInv
<1>2. FreshInv /\ WorkInv /\ MpInv /\ MuteInv /\ MuteInv' /\ [Next]_vars => FreshInv'
  <2> SUFFICES ASSUME FreshInv, WorkInv, MpInv, MuteInv, MuteInv', [Next]_vars PROVE FreshInv'
    OBVIOUS
  <2>1. ShapesOK /\ ShapesOK'
    BY DEF MuteInv
  <2>2. CASE Next
    BY <2>1, <2>2, ChainKeepsFresh, RequestKeepsFresh, GuiKeepsFresh DEF Next
  <2>3. CASE UNCHANGED vars
    <3>1. UNCHANGED <<request, work, value, answers, playerHandle, mr, mp, hMP, pos, sent, history>>
      BY <2>3 DEF vars, chainVars, requestVars, mpVars, guiVars, historyVars
    <3>2. CASE Apart(work, request)
      BY <3>1, <3>2 DEF FreshInv, Apart, Unheard, About, PlayerShape
    <3>3. CASE work = <<>> /\ (answers = <<>> \/ \E a : answers = <<a>> /\ Unheard(a.what, request))
      BY <3>1, <3>3 DEF FreshInv, Unheard, About, PlayerShape
    <3>4. ASSUME NEW k \in {"volume", "state"}, About(k, request), sent = NULL, Stage(k, request)
          PROVE  FreshInv'
      <4>1. PICK r : r = request
        OBVIOUS
      <4>2. Stage(k, r)'
        BY <3>1, <3>4, <4>1, StageStays
      <4>3. r = request'
        BY <3>1, <4>1
      <4>4. Stage(k, request)' /\ About(k, request')
        BY <3>4, <4>1, <4>2, <4>3
      <4>5. QED
        BY <3>1, <3>4, <4>4 DEF FreshInv, PlayerShape
    <3>5. QED
      BY <3>2, <3>3, <3>4 DEF FreshInv
  <2>4. QED
    BY <2>2, <2>3
<1>3. QED
  BY <1>1, <1>2, WorkInductive, MpInductive, MuteInductive, PTL DEF Spec

(* What GetVolume and GetTransportInfo answer is the volume or the state the  *)
(* player had at some time since the request came, whoever turns its knobs,  *)
(* if it was asked and answered at once.                                     *)
THEOREM AnswersFresh == Spec => []AnsweredFresh
<1>1. FreshInv /\ WorkInv => AnsweredFresh
  <2> SUFFICES ASSUME FreshInv, WorkInv, NEW i \in DOMAIN answers
               PROVE  /\ answers[i].what = "volume" /\ request.args["Channel"] = "Master"
                           /\ AskedAtOnce("GET_VOLUME")
                           => \E s \in history.seen : s.volume = answers[i].value
                      /\ answers[i].what = "state" /\ AskedAtOnce("GET_STATE")
                           => \E s \in history.seen : s.state = answers[i].value
    BY DEF AnsweredFresh
  <2>1. DOMAIN <<>> = {}
    OBVIOUS
  <2>2. answers # <<>>
    BY <2>1
  <2>3. work = <<>>
    BY <2>2 DEF WorkInv
  <2>4. ~Apart(work, request)
    BY <2>3 DEF Apart
  <2>5. \A a : answers = <<a>> => answers[i] = a
    OBVIOUS
  <2>6. ASSUME NEW a, answers = <<a>>, Unheard(a.what, request)
        PROVE  /\ ~(answers[i].what = "volume" /\ request.args["Channel"] = "Master")
               /\ answers[i].what # "state"
    BY <2>5, <2>6 DEF Unheard, About
  <2>7. ASSUME NEW k \in {"volume", "state"}, Stage(k, request)
        PROVE  answers[i].what = k /\ HasTold(k, answers[i].value)
    <3>1. work \notin {Finding(k, request), Preparing(k, request), Asking(k, request),
                       Reading(k, request), Telling(k, request), Missing(k, request),
                       Failing(k, request), Closing(k, request)}
      BY <2>3 DEF Finding, Preparing, Asking, Reading, Telling, Missing, Failing, Closing
    <3>2. PICK a : answers = <<a>> /\ a.what = k /\ HasTold(k, a.value)
      BY <2>7, <3>1 DEF Stage
    <3>3. answers[i] = a
      BY <2>5, <3>2
    <3>4. QED
      BY <3>2, <3>3
  <2>8. CASE \E k \in {"volume", "state"} : Stage(k, request)
    BY <2>7, <2>8 DEF HasTold, Question
  <2>9. QED
    BY <2>2, <2>4, <2>6, <2>8 DEF FreshInv
<1>2. QED
  BY <1>1, FreshInductive, WorkInductive, PTL
=============================================================================

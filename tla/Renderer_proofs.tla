--------------------------- MODULE Renderer_proofs ---------------------------
(* Proofs about Renderer, for every set of channels, levels and values.      *)
EXTENDS Renderer, TLAPS

(* What the moderated half of a volume or mute operation does to the         *)
(* bookkeeping: the flags it was given are either evented together with the  *)
(* values it was given, or kept for the outstanding callback.                *)
LEMMA RcsModeration ==
  ASSUME NEW flags \in SUBSET RcsFlag, flags # {},
         NEW volume \in [Channel -> Volume], NEW mute \in [Channel -> {0, 1}],
         IInv,
         "RCS_VOLUME" \in flags \/ volume = Rcs_Volume,
         "RCS_MUTE" \in flags \/ mute = Rcs_Mute,
         RCSChangedFlags \subseteq flags,
         UpdateRcsLastChangeModerated(flags, volume, mute),
         UNCHANGED firing
  PROVE  /\ RCSChangedFlags' \in SUBSET RcsFlag
         /\ ModerationFlag' \in {0, 1} /\ timers' \in Nat /\ evented' \in Evented
         /\ Outstanding' = ModerationFlag' /\ ModerationFlag' = 1
         /\ "RCS_VOLUME" \notin RCSChangedFlags' => evented'.volume = volume
         /\ "RCS_MUTE" \notin RCSChangedFlags' => evented'.mute = mute
<1> USE DEF IInv, TypeOK, OneCallbackPerWindow, Outstanding, AddModerationTimer
<1>1. CASE ModerationFlag = 0
  <2>1. /\ ModerationFlag' = 1 /\ timers' = timers + 1 /\ RCSChangedFlags' = {}
        /\ evented' = [evented EXCEPT
             !.volume = IF "RCS_VOLUME" \in flags THEN volume ELSE @,
             !.mute = IF "RCS_MUTE" \in flags THEN mute ELSE @]
    BY <1>1 DEF UpdateRcsLastChangeModerated, UpdateRcsLastChange
  <2>2. timers = 0 /\ firing = FALSE
    BY <1>1
  <2>3. RCSChangedFlags = {}
    BY <1>1, <2>2 DEF NoChangeStranded
  <2>4. evented.volume = Rcs_Volume /\ evented.mute = Rcs_Mute
    BY <2>3 DEF ToldUnlessFlagged
  <2>5. evented' \in Evented /\ evented'.volume = volume /\ evented'.mute = mute
    BY <2>1, <2>4 DEF Evented
  <2> QED BY <2>1, <2>2, <2>5
<1>2. CASE ModerationFlag # 0
  <2>1. /\ RCSChangedFlags' = flags /\ ModerationFlag' = 1
        /\ UNCHANGED <<timers, evented>>
    BY <1>2 DEF UpdateRcsLastChangeModerated
  <2>2. /\ "RCS_VOLUME" \notin flags => evented.volume = volume
        /\ "RCS_MUTE" \notin flags => evented.mute = mute
    <3>1. ToldUnlessFlagged
      BY DEF IInv
    <3> QED BY <3>1 DEF ToldUnlessFlagged
  <2>3. Outstanding' = 1
    BY <1>2, <2>1
  <2> QED BY <2>1, <2>2, <2>3
<1> QED BY <1>1, <1>2

(* The same for the AVTransport operations, which leave evented alone. *)
LEMMA AvtModeration ==
  ASSUME NEW flags \in SUBSET AvtFlag,
         IInv,
         UpdateAvtLastChangeModerated(flags),
         UNCHANGED <<firing, RCSChangedFlags>>
  PROVE  /\ AVTChangedFlags' \in SUBSET AvtFlag
         /\ ModerationFlag' \in {0, 1} /\ timers' \in Nat
         /\ Outstanding' = ModerationFlag' /\ ModerationFlag' = 1
<1> USE DEF IInv, TypeOK, OneCallbackPerWindow, Outstanding, AddModerationTimer
<1>1. CASE ModerationFlag = 0
  BY <1>1 DEF UpdateAvtLastChangeModerated, UpdateAvtLastChange
<1>2. CASE ModerationFlag # 0
  BY <1>2 DEF UpdateAvtLastChangeModerated
<1> QED BY <1>1, <1>2

(* CreateMediaRenderer leaves nothing flagged and no callback outstanding.   *)
LEMMA InitIInv == Init => IInv
<1> SUFFICES ASSUME Init PROVE IInv
  OBVIOUS
<1> USE RendererAssumption DEF Init, CreateMediaRenderer
<1>1. TypeOK
  BY DEF TypeOK, Evented
<1>2. OneCallbackPerWindow
  BY DEF OneCallbackPerWindow, Outstanding
<1>3. NoChangeStranded
  BY DEF NoChangeStranded
<1>4. ToldUnlessFlagged
  BY DEF ToldUnlessFlagged
<1> QED BY <1>1, <1>2, <1>3, <1>4 DEF IInv

(* A changed volume. *)
LEMMA MRSetVolumeIInv ==
  ASSUME NEW channel \in Channel, NEW volume \in Volume, IInv,
         MRSetVolume(channel, volume)
  PROVE  IInv'
<1> DEFINE flags == RCSChangedFlags \cup {"RCS_VOLUME"}
<1>1. /\ Rcs_Volume' \in [Channel -> Volume] /\ flags \in SUBSET RcsFlag
      /\ UNCHANGED <<Rcs_Mute, Avt, Track_Number, AVTChangedFlags, firing>>
      /\ UpdateRcsLastChangeModerated(flags, Rcs_Volume', Rcs_Mute)
  BY DEF MRSetVolume, IInv, TypeOK, RcsFlag, avtVars
<1>2. /\ RCSChangedFlags' \in SUBSET RcsFlag
      /\ ModerationFlag' \in {0, 1} /\ timers' \in Nat /\ evented' \in Evented
      /\ Outstanding' = ModerationFlag' /\ ModerationFlag' = 1
      /\ "RCS_VOLUME" \notin RCSChangedFlags' => evented'.volume = Rcs_Volume'
      /\ "RCS_MUTE" \notin RCSChangedFlags' => evented'.mute = Rcs_Mute
  <2>1. Rcs_Mute \in [Channel -> {0, 1}] /\ flags # {} /\ "RCS_VOLUME" \in flags
    BY DEF IInv, TypeOK
  <2>2. RCSChangedFlags \subseteq flags
    OBVIOUS
  <2> HIDE DEF flags
  <2> QED BY <1>1, <2>1, <2>2, RcsModeration
<1> QED
  BY <1>1, <1>2
     DEF IInv, TypeOK, OneCallbackPerWindow, NoChangeStranded, ToldUnlessFlagged

(* A changed mute. *)
LEMMA MRSetMuteIInv ==
  ASSUME NEW channel \in Channel, NEW mute \in {0, 1}, IInv,
         MRSetMute(channel, mute)
  PROVE  IInv'
<1> DEFINE flags == RCSChangedFlags \cup {"RCS_MUTE"}
<1>1. /\ Rcs_Mute' \in [Channel -> {0, 1}] /\ flags \in SUBSET RcsFlag
      /\ UNCHANGED <<Rcs_Volume, Avt, Track_Number, AVTChangedFlags, firing>>
      /\ UpdateRcsLastChangeModerated(flags, Rcs_Volume, Rcs_Mute')
  BY DEF MRSetMute, IInv, TypeOK, RcsFlag, avtVars
<1>2. /\ RCSChangedFlags' \in SUBSET RcsFlag
      /\ ModerationFlag' \in {0, 1} /\ timers' \in Nat /\ evented' \in Evented
      /\ Outstanding' = ModerationFlag' /\ ModerationFlag' = 1
      /\ "RCS_VOLUME" \notin RCSChangedFlags' => evented'.volume = Rcs_Volume
      /\ "RCS_MUTE" \notin RCSChangedFlags' => evented'.mute = Rcs_Mute'
  <2>1. Rcs_Volume \in [Channel -> Volume] /\ flags # {} /\ "RCS_MUTE" \in flags
    BY DEF IInv, TypeOK
  <2>2. RCSChangedFlags \subseteq flags
    OBVIOUS
  <2> HIDE DEF flags
  <2> QED BY <1>1, <2>1, <2>2, RcsModeration
<1> QED
  BY <1>1, <1>2
     DEF IInv, TypeOK, OneCallbackPerWindow, NoChangeStranded, ToldUnlessFlagged

(* A step that leaves the RenderingControl side alone and moderates an        *)
(* AVTransport change keeps the invariant, whatever fields it replaced.       *)
LEMMA AvtStepIInv ==
  ASSUME NEW flags \in SUBSET AvtFlag, IInv,
         Avt' \in [AvtField -> Value], Track_Number' \in {0, 1},
         UpdateAvtLastChangeModerated(flags),
         UNCHANGED <<rcsVars, firing, evented>>
  PROVE  IInv'
<1>1. UNCHANGED <<Rcs_Volume, Rcs_Mute, RCSChangedFlags, firing, evented>>
  BY DEF rcsVars
<1>2. /\ AVTChangedFlags' \in SUBSET AvtFlag
      /\ ModerationFlag' \in {0, 1} /\ timers' \in Nat
      /\ Outstanding' = ModerationFlag' /\ ModerationFlag' = 1
  BY <1>1, AvtModeration
<1>3. ToldUnlessFlagged'
  BY <1>1 DEF IInv, ToldUnlessFlagged
<1>4. TypeOK'
  BY <1>1, <1>2 DEF IInv, TypeOK
<1> QED BY <1>2, <1>3, <1>4 DEF IInv, OneCallbackPerWindow, NoChangeStranded

(* The operations that replace one field of Avt. *)
LEMMA SetAvtIInv ==
  ASSUME NEW field \in AvtField, NEW flag \in AvtFlag, NEW value \in Value, IInv,
         SetAvt(field, flag, value)
  PROVE  IInv'
<1> DEFINE flags == AVTChangedFlags \cup {flag}
<1>1. /\ flags \in SUBSET AvtFlag /\ Avt' \in [AvtField -> Value]
      /\ UNCHANGED <<rcsVars, Track_Number, firing, evented>>
      /\ UpdateAvtLastChangeModerated(flags)
  BY DEF SetAvt, IInv, TypeOK
<1>2. Track_Number' \in {0, 1}
  BY <1>1 DEF IInv, TypeOK
<1> HIDE DEF flags
<1> QED BY <1>1, <1>2, AvtStepIInv

(* New metadata, and metadata that is reported again.                        *)
LEMMA MRSetMetaDataIInv ==
  ASSUME NEW metadata \in Value, IInv, MRSetMetaData(metadata)
  PROVE  IInv'
<1> DEFINE flags == AVTChangedFlags \cup {"MEDIA_METADATA"}
<1>1. /\ flags \in SUBSET AvtFlag /\ Avt' \in [AvtField -> Value]
      /\ UNCHANGED <<rcsVars, Track_Number, firing, evented>>
      /\ UpdateAvtLastChangeModerated(flags)
  BY DEF MRSetMetaData, IInv, TypeOK, AvtFlag
<1>2. Track_Number' \in {0, 1}
  BY <1>1 DEF IInv, TypeOK
<1> HIDE DEF flags
<1> QED BY <1>1, <1>2, AvtStepIInv

(* A new track: its URI and its number.                                      *)
LEMMA MRSetTrackIInv ==
  ASSUME NEW uri \in Value, NEW number \in {0, 1}, IInv, MRSetTrack(uri, number)
  PROVE  IInv'
<1> DEFINE flags == AVTChangedFlags \cup {"TRACK_URI"}
<1>1. /\ flags \in SUBSET AvtFlag /\ Avt' \in [AvtField -> Value]
      /\ Track_Number' \in {0, 1}
      /\ UNCHANGED <<rcsVars, firing, evented>>
      /\ UpdateAvtLastChangeModerated(flags)
  BY DEF MRSetTrack, IInv, TypeOK, AvtFlag
<1> HIDE DEF flags
<1> QED BY <1>1, AvtStepIInv

(* The expired timer becomes the callback that waits: still one outstanding. *)
LEMMA TimerExpiresIInv == IInv /\ TimerExpires => IInv'
<1> SUFFICES ASSUME IInv, TimerExpires PROVE IInv'
  OBVIOUS
<1>1. /\ UNCHANGED <<Rcs_Volume, Rcs_Mute, RCSChangedFlags, Avt, Track_Number,
                     AVTChangedFlags, ModerationFlag, evented>>
      /\ timers' = timers - 1 /\ timers > 0 /\ firing = FALSE /\ firing' = TRUE
  BY DEF TimerExpires, rcsVars, avtVars, IInv, TypeOK
<1>2. TypeOK'
  BY <1>1 DEF IInv, TypeOK
<1>3. Outstanding' = Outstanding
  BY <1>1 DEF Outstanding, IInv, TypeOK
<1> QED
  BY <1>1, <1>2, <1>3 DEF IInv, OneCallbackPerWindow, NoChangeStranded, ToldUnlessFlagged

(* The callback owes nobody anything when it is done. *)
LEMMA CallbackIInv == IInv /\ MmrEventModerationCallbackSink => IInv'
<1> SUFFICES ASSUME IInv, MmrEventModerationCallbackSink PROVE IInv'
  OBVIOUS
<1>1. /\ UNCHANGED <<Rcs_Volume, Rcs_Mute, Avt, Track_Number, timers>>
      /\ firing = TRUE /\ firing' = FALSE /\ ModerationFlag' = 0
      /\ RCSChangedFlags' = {} /\ AVTChangedFlags' = {}
      /\ evented' = [evented EXCEPT
           !.volume = IF "RCS_VOLUME" \in RCSChangedFlags THEN Rcs_Volume ELSE @,
           !.mute = IF "RCS_MUTE" \in RCSChangedFlags THEN Rcs_Mute ELSE @]
  BY DEF MmrEventModerationCallbackSink, UpdateRcsLastChange, UpdateAvtLastChange, IInv, TypeOK
<1>2. evented' \in Evented /\ evented'.volume = Rcs_Volume /\ evented'.mute = Rcs_Mute
  BY <1>1 DEF IInv, TypeOK, ToldUnlessFlagged, Evented
<1>3. TypeOK'
  BY <1>1, <1>2 DEF IInv, TypeOK
<1>4. timers = 0
  BY <1>1 DEF IInv, TypeOK, OneCallbackPerWindow, Outstanding
<1> QED
  BY <1>1, <1>2, <1>3, <1>4
     DEF IInv, OneCallbackPerWindow, Outstanding, NoChangeStranded, ToldUnlessFlagged

(* Every step of the renderer keeps the invariant.                           *)
LEMMA NextIInv == IInv /\ [Next]_vars => IInv'
<1> SUFFICES ASSUME IInv, [Next]_vars PROVE IInv'
  OBVIOUS
<1>1. CASE SetRcs
  BY <1>1, MRSetVolumeIInv, MRSetMuteIInv DEF SetRcs
<1>2. CASE SetTransport
  <2>1. PICK v \in Value : \/ MRSetState(v) \/ MRSetStatus(v) \/ MRSetPlayMode(v)
                           \/ MrSetSeekTimePositionEnabled(v)
    BY <1>2 DEF SetTransport
  <2> QED
    BY <2>1, SetAvtIInv DEF MRSetState, MRSetStatus, MRSetPlayMode,
                            MrSetSeekTimePositionEnabled, AvtField, AvtFlag
<1>3. CASE SetMedia
  <2>1. PICK v \in Value : \/ MRSetMediaUri(v) \/ MRSetMediaTotals(v)
                           \/ MRSetMediaInfo(v) \/ MRSetMetaData(v)
    BY <1>3 DEF SetMedia
  <2> QED
    BY <2>1, SetAvtIInv, MRSetMetaDataIInv
       DEF MRSetMediaUri, MRSetMediaTotals, MRSetMediaInfo, AvtField, AvtFlag
<1>4. CASE SetTrack
  <2>1. PICK v \in Value : \/ (\E n \in {0, 1} : MRSetTrack(v, n)) \/ MRSetTrackDurationInfo(v)
                           \/ MRSetTrackMetadata(v)
    BY <1>4 DEF SetTrack
  <2> QED
    BY <2>1, SetAvtIInv, MRSetTrackIInv
       DEF MRSetTrackDurationInfo, MRSetTrackMetadata, AvtField, AvtFlag
<1>5. CASE TimerExpires
  BY <1>5, TimerExpiresIInv
<1>6. CASE MmrEventModerationCallbackSink
  BY <1>6, CallbackIInv
<1>7. CASE UNCHANGED vars
  BY <1>7 DEF vars, rcsVars, avtVars, timerVars, IInv, TypeOK, OneCallbackPerWindow,
              Outstanding, NoChangeStranded, ToldUnlessFlagged
<1> QED BY <1>1, <1>2, <1>3, <1>4, <1>5, <1>6, <1>7 DEF Next

(* The inductive invariant holds in every behaviour. *)
THEOREM InductiveInvariant == SafeSpec => []IInv
<1>1. Init => IInv
  BY InitIInv
<1>2. IInv /\ [Next]_vars => IInv'
  BY NextIInv
<1> QED BY <1>1, <1>2, PTL DEF SafeSpec

(* The variables keep their types. *)
THEOREM TypeCorrect == SafeSpec => []TypeOK
<1>1. IInv => TypeOK
  BY DEF IInv
<1> QED BY <1>1, InductiveInvariant, PTL

(* ModerationFlag and the outstanding callback never part company. *)
THEOREM CallbackMatchesFlag == SafeSpec => []OneCallbackPerWindow
<1>1. IInv => OneCallbackPerWindow
  BY DEF IInv
<1> QED BY <1>1, InductiveInvariant, PTL

(* No flagged change is without a callback that will event it. *)
THEOREM NothingStranded == SafeSpec => []NoChangeStranded
<1>1. IInv => NoChangeStranded
  BY DEF IInv
<1> QED BY <1>1, InductiveInvariant, PTL

(* Subscribers know every RenderingControl variable whose flag is down. *)
THEOREM SubscribersTold == SafeSpec => []ToldUnlessFlagged
<1>1. IInv => ToldUnlessFlagged
  BY DEF IInv
<1> QED BY <1>1, InductiveInvariant, PTL

(* Inside a window only the callback that closes it sends an event. *)
THEOREM OneEventPerWindow == SafeSpec => AtMostOneEventPerWindow
<1> DEFINE Quiet == evented' # evented => ModerationFlag = 0 \/ ModerationFlag' = 0
<1>1. IInv /\ [Next]_vars => [Quiet]_vars
  <2> SUFFICES ASSUME IInv, [Next]_vars, evented' # evented
               PROVE  ModerationFlag = 0 \/ ModerationFlag' = 0
    OBVIOUS
  <2>1. CASE SetRcs
    BY <2>1 DEF SetRcs, MRSetVolume, MRSetMute, UpdateRcsLastChangeModerated
  <2>2. CASE SetTransport \/ SetMedia \/ SetTrack
    BY <2>2 DEF SetTransport, SetMedia, SetTrack, SetAvt, MRSetState, MRSetStatus,
                MRSetPlayMode, MrSetSeekTimePositionEnabled, MRSetMediaUri,
                MRSetMediaTotals, MRSetMediaInfo, MRSetMetaData, MRSetTrack,
                MRSetTrackDurationInfo, MRSetTrackMetadata
  <2>3. CASE TimerExpires \/ MmrEventModerationCallbackSink \/ UNCHANGED vars
    BY <2>3 DEF TimerExpires, MmrEventModerationCallbackSink, vars
  <2> QED BY <2>1, <2>2, <2>3 DEF Next
<1> QED BY <1>1, InductiveInvariant, PTL DEF SafeSpec, AtMostOneEventPerWindow
-----------------------------------------------------------------------------
(* The renderer implements moderated eventing: value is the pair of volume   *)
(* and mute, told is what subscribers were told of the pair, and the window  *)
(* is open while ModerationFlag is up.                                       *)
State == [volume |-> Rcs_Volume, mute |-> Rcs_Mute]
Told == [volume |-> evented.volume, mute |-> evented.mute]

(* With no window open nothing is flagged, so subscribers know the state.    *)
LEMMA ToldWhenQuiet == IInv /\ ModerationFlag = 0 => RCSChangedFlags = {} /\ Told = State
  BY DEF IInv, TypeOK, NoChangeStranded, OneCallbackPerWindow, Outstanding,
         ToldUnlessFlagged, Told, State

(* A volume or mute operation is a change, told at once or moderated.        *)
LEMMA RcsStepMaps ==
  ASSUME NEW flags \in SUBSET RcsFlag, IInv, IInv',
         State' # State,
         Rcs_Volume' = Rcs_Volume \/ "RCS_VOLUME" \in flags,
         Rcs_Mute' = Rcs_Mute \/ "RCS_MUTE" \in flags,
         UpdateRcsLastChangeModerated(flags, Rcs_Volume', Rcs_Mute')
  PROVE  Moderated!ChangeQuiet \/ Moderated!ChangeModerated
<1>1. State' \in [volume : [Channel -> Volume], mute : [Channel -> {0, 1}]]
  BY DEF IInv, TypeOK, State
<1>2. CASE ModerationFlag = 0
  <2>1. evented' = [evented EXCEPT
             !.volume = IF "RCS_VOLUME" \in flags THEN Rcs_Volume' ELSE @,
             !.mute = IF "RCS_MUTE" \in flags THEN Rcs_Mute' ELSE @]
        /\ ModerationFlag' = 1
    BY <1>2 DEF UpdateRcsLastChangeModerated, UpdateRcsLastChange
  <2>2. evented.volume = Rcs_Volume /\ evented.mute = Rcs_Mute
    BY <1>2, ToldWhenQuiet DEF Told, State
  <2>3. Told' = State'
    BY <2>1, <2>2 DEF Told, State, IInv, TypeOK, Evented
  <2> QED BY <1>1, <1>2, <2>1, <2>3 DEF Moderated!ChangeQuiet, State, Told
<1>3. CASE ModerationFlag # 0
  <2>1. UNCHANGED <<ModerationFlag, evented>> /\ ModerationFlag = 1
    BY <1>3 DEF UpdateRcsLastChangeModerated, IInv, TypeOK
  <2> QED BY <1>1, <2>1 DEF Moderated!ChangeModerated, State
<1> QED BY <1>2, <1>3

(* An AVTransport operation at most opens the window. *)
LEMMA AvtStepMaps ==
  ASSUME IInv, UNCHANGED <<Rcs_Volume, Rcs_Mute, evented>>,
         \/ UNCHANGED ModerationFlag
         \/ ModerationFlag = 0 /\ ModerationFlag' = 1
  PROVE  [Moderated!Next]_Moderated!vars
BY DEF Moderated!Next, Moderated!OpenWindow, Moderated!vars, IInv, TypeOK

(* The callback closes the window and tells what was owed. *)
LEMMA CallbackMaps ==
  ASSUME IInv, MmrEventModerationCallbackSink
  PROVE  Moderated!CloseWindow
<1>1. /\ UNCHANGED <<Rcs_Volume, Rcs_Mute>> /\ ModerationFlag' = 0
      /\ evented' = [evented EXCEPT
           !.volume = IF "RCS_VOLUME" \in RCSChangedFlags THEN Rcs_Volume ELSE @,
           !.mute = IF "RCS_MUTE" \in RCSChangedFlags THEN Rcs_Mute ELSE @]
  BY DEF MmrEventModerationCallbackSink, UpdateRcsLastChange
<1>2. evented'.volume = Rcs_Volume /\ evented'.mute = Rcs_Mute
  BY <1>1 DEF IInv, TypeOK, ToldUnlessFlagged, Evented
<1>3. ModerationFlag = 1
  BY DEF MmrEventModerationCallbackSink, IInv, TypeOK, OneCallbackPerWindow, Outstanding
<1> QED BY <1>1, <1>2, <1>3 DEF Moderated!CloseWindow

LEMMA StepMaps == IInv /\ IInv' /\ [Next]_vars => [Moderated!Next]_Moderated!vars
<1> SUFFICES ASSUME IInv, IInv', [Next]_vars PROVE [Moderated!Next]_Moderated!vars
  OBVIOUS
<1>1. CASE SetRcs
  <2>1. PICK flags \in SUBSET RcsFlag :
          /\ State' # State
          /\ Rcs_Volume' = Rcs_Volume \/ "RCS_VOLUME" \in flags
          /\ Rcs_Mute' = Rcs_Mute \/ "RCS_MUTE" \in flags
          /\ UpdateRcsLastChangeModerated(flags, Rcs_Volume', Rcs_Mute')
    <3>1. CASE \E c \in Channel, v \in Volume : MRSetVolume(c, v)
      <4>1. PICK c \in Channel, v \in Volume : MRSetVolume(c, v)
        BY <3>1
      <4>2. Rcs_Volume' # Rcs_Volume /\ Rcs_Mute' = Rcs_Mute
        BY <4>1 DEF MRSetVolume, IInv, TypeOK
      <4>3. RCSChangedFlags \cup {"RCS_VOLUME"} \in SUBSET RcsFlag
        BY DEF IInv, TypeOK, RcsFlag
      <4> QED BY <4>1, <4>2, <4>3 DEF MRSetVolume, State
    <3>2. CASE \E c \in Channel, m \in {0, 1} : MRSetMute(c, m)
      <4>1. PICK c \in Channel, m \in {0, 1} : MRSetMute(c, m)
        BY <3>2
      <4>2. Rcs_Mute' # Rcs_Mute /\ Rcs_Volume' = Rcs_Volume
        BY <4>1 DEF MRSetMute, IInv, TypeOK
      <4>3. RCSChangedFlags \cup {"RCS_MUTE"} \in SUBSET RcsFlag
        BY DEF IInv, TypeOK, RcsFlag
      <4> QED BY <4>1, <4>2, <4>3 DEF MRSetMute, State
    <3> QED BY <1>1, <3>1, <3>2 DEF SetRcs
  <2> QED BY <2>1, RcsStepMaps DEF Moderated!Next
<1>2. CASE SetTransport \/ SetMedia \/ SetTrack
  <2>1. UNCHANGED <<Rcs_Volume, Rcs_Mute, evented>>
    BY <1>2 DEF SetTransport, SetMedia, SetTrack, SetAvt, MRSetState, MRSetStatus,
                MRSetPlayMode, MrSetSeekTimePositionEnabled, MRSetMediaUri,
                MRSetMediaTotals, MRSetMediaInfo, MRSetMetaData, MRSetTrack,
                MRSetTrackDurationInfo, MRSetTrackMetadata, rcsVars
  <2>2. UNCHANGED ModerationFlag \/ (ModerationFlag = 0 /\ ModerationFlag' = 1)
    BY <1>2 DEF SetTransport, SetMedia, SetTrack, SetAvt, MRSetState, MRSetStatus,
                MRSetPlayMode, MrSetSeekTimePositionEnabled, MRSetMediaUri,
                MRSetMediaTotals, MRSetMediaInfo, MRSetMetaData, MRSetTrack,
                MRSetTrackDurationInfo, MRSetTrackMetadata, UpdateAvtLastChangeModerated
  <2> QED BY <2>1, <2>2, AvtStepMaps
<1>3. CASE TimerExpires
  BY <1>3, AvtStepMaps DEF TimerExpires, rcsVars
<1>4. CASE MmrEventModerationCallbackSink
  BY <1>4, CallbackMaps DEF Moderated!Next
<1>5. CASE UNCHANGED vars
  BY <1>5, AvtStepMaps DEF vars, rcsVars, timerVars
<1> QED BY <1>1, <1>2, <1>3, <1>4, <1>5 DEF Next

(* Every behaviour of the flags, the timer and the callback is a behaviour   *)
(* of the abstract specification (its safety part).                          *)
THEOREM Refinement == SafeSpec => Moderated!SafeSpec
<1>1. Init => Moderated!Init
  BY RendererAssumption DEF Init, CreateMediaRenderer, Moderated!Init
<1>2. IInv /\ IInv' /\ [Next]_vars => [Moderated!Next]_Moderated!vars
  BY StepMaps
<1> QED BY <1>1, <1>2, InductiveInvariant, PTL DEF SafeSpec, Moderated!SafeSpec
=============================================================================

------------------------------ MODULE Renderer ------------------------------
(***************************************************************************)
(* The state of the media renderer (struct MRDataObject, the global MR of   *)
(* IntelMMR/MicroMediaRenderer.c) and the moderated eventing of its changes. *)
(*                                                                         *)
(* The application reports a change through one of the MRSet operations,    *)
(* from the dialog's thread or from the chain thread.  Each operation runs  *)
(* under the semaphore LockLastChanges, records the change, raises the flag *)
(* of what changed and lets UpdateRcsLastChangeModerated or                 *)
(* UpdateAvtLastChangeModerated event it: at once when no moderation        *)
(* callback is outstanding, otherwise when MmrEventModerationCallbackSink   *)
(* runs.  The callback is a one second timer of the renderer's own          *)
(* ILibLifeTime; when the timer leaves that list its callback still has to  *)
(* win LockLastChanges, and MRSet operations may come in between.           *)
(*                                                                         *)
(* One MRSet operation is one action because the whole of it runs under     *)
(* LockLastChanges.  Strings and numbers of the AVTransport side are        *)
(* members of one abstract set Value; Initial stands for the empty string,  *)
(* the zero and the NULL the object starts with.                            *)
(***************************************************************************)
EXTENDS Integers

CONSTANTS Channel,        (* the audio channels (NUM_VOL_CHANNELS of them)     *)
          Volume,         (* the volume levels a player reports                *)
          Value,          (* values of the AVTransport fields                  *)
          Initial         (* the value a field has after CreateMediaRenderer   *)

ASSUME RendererAssumption == /\ 0 \in Volume
                             /\ Volume \subseteq Nat
                             /\ Initial \in Value

VARIABLES
  Rcs_Volume,             (* volume of each channel                            *)
  Rcs_Mute,               (* 1 when the channel is muted                       *)
  Avt,                    (* the AVTransport fields, by name                   *)
  Track_Number,           (* number of the current track                       *)
  RCSChangedFlags,        (* what changed since the last RCS LastChange        *)
  AVTChangedFlags,        (* what changed since the last AVT LastChange        *)
  ModerationFlag,         (* 1 while a moderation callback is outstanding      *)
  timers,                 (* entries of MR->LifeTimeMonitor's list             *)
  firing,                 (* TRUE when an entry has left the list and its      *)
                          (* callback waits for LockLastChanges                *)
  evented                 (* what subscribers were told: volume, mute and avt  *)

rcsVars == <<Rcs_Volume, Rcs_Mute, RCSChangedFlags>>
avtVars == <<Avt, Track_Number, AVTChangedFlags>>
timerVars == <<ModerationFlag, timers, firing>>
vars == <<rcsVars, avtVars, timerVars, evented>>

RcsFlag == {"RCS_VOLUME", "RCS_MUTE"}

AvtFlag == {"AVT_STATE", "AVT_PLAYMODE", "AVT_STATUS", "AVT_SEEK", "MEDIA_URI",
            "MEDIA_TOTALS", "MEDIA_METADATA", "TRACK_URI", "TRACK_DURATIONS",
            "TRACK_METADATA"}

(* The fields one MRSet operation compares and replaces together are one    *)
(* entry of Avt; the two fields behind MEDIA_METADATA have one each.         *)
AvtField == {"Avt_State", "Avt_PlayMode", "Avt_Status", "SeekEnabled", "Media_URI",
             "Media_Totals", "Media_Info", "CurrentURIMetaData", "Track_URI",
             "Track_Durations", "Track_Metadata"}

Evented == [volume : [Channel -> Volume], mute : [Channel -> {0, 1}],
            avt : [AvtField -> Value]]

TypeOK == /\ Rcs_Volume \in [Channel -> Volume]
          /\ Rcs_Mute \in [Channel -> {0, 1}]
          /\ Avt \in [AvtField -> Value]
          /\ Track_Number \in {0, 1}
          /\ RCSChangedFlags \subseteq RcsFlag
          /\ AVTChangedFlags \subseteq AvtFlag
          /\ ModerationFlag \in {0, 1}
          /\ timers \in Nat
          /\ firing \in BOOLEAN
          /\ evented \in Evented
-----------------------------------------------------------------------------
(* CreateMediaRenderer: the object is zeroed, no flag is up, and the two     *)
(* empty LastChange documents it publishes tell nothing.                     *)
CreateMediaRenderer ==
  /\ Rcs_Volume = [c \in Channel |-> 0]
  /\ Rcs_Mute = [c \in Channel |-> 0]
  /\ Avt = [f \in AvtField |-> Initial]
  /\ Track_Number = 0
  /\ RCSChangedFlags = {}
  /\ AVTChangedFlags = {}
  /\ ModerationFlag = 0
  /\ timers = 0
  /\ firing = FALSE
  /\ evented = [volume |-> Rcs_Volume, mute |-> Rcs_Mute, avt |-> Avt]

Init == CreateMediaRenderer
-----------------------------------------------------------------------------
(* The definitions named Faulty... are variants with a plausible bug.  No     *)
(* specification uses them; they show that the properties can tell.          *)

(* UpdateRcsLastChange: one event carries, for every channel, the value of   *)
(* each variable whose flag is up; the flags are cleared.                    *)
UpdateRcsLastChange(flags, volume, mute) ==
  /\ evented' = [evented EXCEPT
       !.volume = IF "RCS_VOLUME" \in flags THEN volume ELSE @,
       !.mute = IF "RCS_MUTE" \in flags THEN mute ELSE @]
  /\ RCSChangedFlags' = {}

(* UpdateAvtLastChange: the document is composed, the call that would        *)
(* publish it is commented out, and the flags are cleared all the same.      *)
UpdateAvtLastChange == AVTChangedFlags' = {}

(* ILibLifeTime_Add(MR->LifeTimeMonitor, MR, 1, callback, NULL) *)
AddModerationTimer == timers' = timers + 1

(* Events at once although a window is open. *)
FaultyUpdateRcsLastChangeModerated(flags, volume, mute) ==
  /\ UpdateRcsLastChange(flags, volume, mute)
  /\ ModerationFlag' = 1
  /\ IF ModerationFlag = 0 THEN AddModerationTimer ELSE UNCHANGED timers

(* Outcome of UpdateRcsLastChangeModerated when flags is not empty. *)
UpdateRcsLastChangeModerated(flags, volume, mute) ==
  \/ /\ ModerationFlag = 0
     /\ ModerationFlag' = 1
     /\ UpdateRcsLastChange(flags, volume, mute)
     /\ AddModerationTimer
  \/ /\ ModerationFlag # 0
     /\ RCSChangedFlags' = flags
     /\ UNCHANGED <<ModerationFlag, timers, evented>>

UpdateAvtLastChangeModerated(flags) ==
  \/ /\ ModerationFlag = 0
     /\ ModerationFlag' = 1
     /\ UpdateAvtLastChange
     /\ AddModerationTimer
  \/ /\ ModerationFlag # 0
     /\ AVTChangedFlags' = flags
     /\ UNCHANGED <<ModerationFlag, timers>>
-----------------------------------------------------------------------------
(* The RenderingControl side.  A call that repeats the current value does    *)
(* nothing at all, so only the calls that change something are actions.      *)
MRSetVolume(channel, volume) ==
  /\ Rcs_Volume[channel] # volume
  /\ Rcs_Volume' = [Rcs_Volume EXCEPT ![channel] = volume]
  /\ UpdateRcsLastChangeModerated(RCSChangedFlags \cup {"RCS_VOLUME"},
                                  Rcs_Volume', Rcs_Mute)
  /\ UNCHANGED <<Rcs_Mute, avtVars, firing>>

MRSetMute(channel, mute) ==
  /\ Rcs_Mute[channel] # mute
  /\ Rcs_Mute' = [Rcs_Mute EXCEPT ![channel] = mute]
  /\ UpdateRcsLastChangeModerated(RCSChangedFlags \cup {"RCS_MUTE"},
                                  Rcs_Volume, Rcs_Mute')
  /\ UNCHANGED <<Rcs_Volume, avtVars, firing>>
-----------------------------------------------------------------------------
(* The AVTransport side: what the operations that compare and replace one    *)
(* entry of Avt do when the value differs.                                   *)
SetAvt(field, flag, value) ==
  /\ Avt[field] # value
  /\ Avt' = [Avt EXCEPT ![field] = value]
  /\ UpdateAvtLastChangeModerated(AVTChangedFlags \cup {flag})
  /\ UNCHANGED <<rcsVars, Track_Number, firing, evented>>

MRSetState(state) == SetAvt("Avt_State", "AVT_STATE", state)
MRSetStatus(status) == SetAvt("Avt_Status", "AVT_STATUS", status)
MRSetPlayMode(playmode) == SetAvt("Avt_PlayMode", "AVT_PLAYMODE", playmode)
MrSetSeekTimePositionEnabled(enabled) == SetAvt("SeekEnabled", "AVT_SEEK", enabled)
MRSetMediaUri(uri) == SetAvt("Media_URI", "MEDIA_URI", uri)
MRSetMediaTotals(totals) == SetAvt("Media_Totals", "MEDIA_TOTALS", totals)
MRSetMediaInfo(info) == SetAvt("Media_Info", "MEDIA_METADATA", info)
MRSetTrackDurationInfo(info) == SetAvt("Track_Durations", "TRACK_DURATIONS", info)
MRSetTrackMetadata(info) == SetAvt("Track_Metadata", "TRACK_METADATA", info)

(* MRSetMetaData(NULL) reports a change even when there was no metadata;     *)
(* a string is compared with the current one.                               *)
MRSetMetaData(metadata) ==
  /\ metadata = Initial \/ metadata # Avt["CurrentURIMetaData"]
  /\ Avt' = [Avt EXCEPT !["CurrentURIMetaData"] = metadata]
  /\ UpdateAvtLastChangeModerated(AVTChangedFlags \cup {"MEDIA_METADATA"})
  /\ UNCHANGED <<rcsVars, Track_Number, firing, evented>>

(* MRSetTrack compares its argument trackNumber with itself, so a new number  *)
(* is no change, only a new URI is.                                          *)
MRSetTrack(uri, number) ==
  /\ Avt["Track_URI"] # uri
  /\ Avt' = [Avt EXCEPT !["Track_URI"] = uri]
  /\ Track_Number' = number
  /\ UpdateAvtLastChangeModerated(AVTChangedFlags \cup {"TRACK_URI"})
  /\ UNCHANGED <<rcsVars, firing, evented>>
-----------------------------------------------------------------------------
(* ILibLifeTime_Check takes an expired entry off the list before it calls    *)
(* the callback; the chain thread runs one callback at a time.               *)
TimerExpires ==
  /\ timers > 0
  /\ ~firing
  /\ timers' = timers - 1
  /\ firing' = TRUE
  /\ UNCHANGED <<rcsVars, avtVars, ModerationFlag, evented>>

(* Lowers ModerationFlag and forgets the changes made in the window. *)
FaultyModerationCallbackSink ==
  /\ firing
  /\ firing' = FALSE
  /\ ModerationFlag' = 0
  /\ UNCHANGED <<rcsVars, avtVars, timers, evented>>

MmrEventModerationCallbackSink ==
  /\ firing
  /\ firing' = FALSE
  /\ ModerationFlag' = 0
  /\ UpdateRcsLastChange(RCSChangedFlags, Rcs_Volume, Rcs_Mute)
  /\ UpdateAvtLastChange
  /\ UNCHANGED <<Rcs_Volume, Rcs_Mute, Avt, Track_Number, timers>>

SetRcs == \/ \E c \in Channel, v \in Volume : MRSetVolume(c, v)
          \/ \E c \in Channel, m \in {0, 1} : MRSetMute(c, m)

SetTransport == \E v \in Value : \/ MRSetState(v)
                                 \/ MRSetStatus(v)
                                 \/ MRSetPlayMode(v)
                                 \/ MrSetSeekTimePositionEnabled(v)

SetMedia == \E v \in Value : \/ MRSetMediaUri(v)
                             \/ MRSetMediaTotals(v)
                             \/ MRSetMediaInfo(v)
                             \/ MRSetMetaData(v)

SetTrack == \E v \in Value : \/ \E n \in {0, 1} : MRSetTrack(v, n)
                             \/ MRSetTrackDurationInfo(v)
                             \/ MRSetTrackMetadata(v)

Next == \/ SetRcs
        \/ SetTransport
        \/ SetMedia
        \/ SetTrack
        \/ TimerExpires
        \/ MmrEventModerationCallbackSink

SafeSpec == Init /\ [][Next]_vars

(* The chain thread keeps running the timers; nobody has to call MRSet.      *)
Spec == SafeSpec /\ WF_vars(TimerExpires)
                 /\ WF_vars(MmrEventModerationCallbackSink)
-----------------------------------------------------------------------------
(* The number of moderation callbacks still to run. *)
Outstanding == timers + (IF firing THEN 1 ELSE 0)

(* ModerationFlag is up exactly while one callback is outstanding: a second  *)
(* timer is never started (the window is not shortened) and the flag is      *)
(* never left up without a callback that takes it down again, which would    *)
(* silence the renderer for good.                                           *)
OneCallbackPerWindow == Outstanding = ModerationFlag

(* A change that was flagged and not yet evented has a callback coming that  *)
(* will see it, whichever of the two services it belongs to.                 *)
NoChangeStranded ==
  RCSChangedFlags # {} \/ AVTChangedFlags # {} => Outstanding = 1

(* What subscribers were told of a RenderingControl variable is the current  *)
(* value, unless its flag says it is still owed to them.                     *)
ToldUnlessFlagged ==
  /\ "RCS_VOLUME" \notin RCSChangedFlags => evented.volume = Rcs_Volume
  /\ "RCS_MUTE" \notin RCSChangedFlags => evented.mute = Rcs_Mute

(* The inductive invariant behind the three. *)
IInv == TypeOK /\ OneCallbackPerWindow /\ NoChangeStranded /\ ToldUnlessFlagged

(* Inside a window no RenderingControl event leaves except by the callback   *)
(* that closes it, however many MRSetVolume and MRSetMute calls come.         *)
AtMostOneEventPerWindow ==
  [][evented' # evented => ModerationFlag = 0 \/ ModerationFlag' = 0]_vars

(* Every volume or mute change reaches the subscribers, also the last one    *)
(* of a burst.                                                              *)
ChangesReachSubscribers ==
  (evented.volume # Rcs_Volume \/ evented.mute # Rcs_Mute)
    ~> (evented.volume = Rcs_Volume /\ evented.mute = Rcs_Mute)

Moderated ==
  INSTANCE ModeratedEventing WITH
    Value <- [volume : [Channel -> Volume], mute : [Channel -> {0, 1}]],
    value <- [volume |-> Rcs_Volume, mute |-> Rcs_Mute],
    told <- [volume |-> evented.volume, mute |-> evented.mute],
    window <- ModerationFlag = 1

(* The flags, the timer and its callback implement moderated eventing.       *)
ImplementsModeratedEventing == Moderated!Spec
=============================================================================

------------------------------- MODULE Control -------------------------------
(***************************************************************************)
(* What an action of a control point does: the request is checked           *)
(* (Dispatch), the handler of the renderer (MicroMediaRenderer.c) calls a   *)
(* sink of the application (upnpRenderer.c), the sink commands and asks the *)
(* media player (MediaPlayerControl.c) and tells the renderer, and the      *)
(* handler answers.  All this runs on the chain's thread.                   *)
(*                                                                         *)
(* Meanwhile the dialog's thread takes the answers that a player sends as   *)
(* WM_COPYDATA, and replaces the player object mp when another media player *)
(* is chosen, from the menu or by the chain's thread, which then waits for  *)
(* it.  There is no lock around mp.  The players live outside of the        *)
(* program and the user may change them, open them and close them.          *)
(*                                                                         *)
(* What a handler and its sinks do is a sequence of calls, the variable     *)
(* work; each step of the chain's thread makes the first of them.           *)
(***************************************************************************)
EXTENDS Dispatch, FiniteSets

CONSTANTS
  Player,         (* the media players that have an ini file                   *)
  Ini,            (* [Player -> [table -> [Command -> Nat]]]: the number of    *)
                  (* a command in the tables cm, cd, us, ap; 0: not there      *)
  Http,           (* [Player -> SUBSET Command]: what is sent by HTTP          *)
  StateCode,      (* [Player -> [PlayState -> Int]]: MP_STATE_... of the ini   *)
  NameNumber,     (* [Player -> Nat]: GET_FILENAME_RESPONSE of the ini         *)
  IsMPC,          (* the players whose name has "MPC-" in it                   *)
  Request,        (* the requests control points send                         *)
  MaxRequests,    (* bound: how many they send                                 *)
  MaxHand,        (* bound: how often the user does something by hand          *)
  NULL            (* no request, no player                                     *)

Table == {"cm", "cd", "us", "ap"}
Command == {"GET_VOLUME", "SET_VOLUME", "TOGGLE_MUTE", "PAUSE", "PLAY", "STOP", "PREVIOUS",
            "NEXT", "GET_DURATION", "GET_POSITION", "SET_POSITION", "GET_STATE",
            "GET_FILENAME"}
PlayState == {"PLAYING", "PAUSED_PLAYBACK", "STOPPED"}

(* An ini file gives a command in at most one of the tables. *)
ASSUME ControlAssumption ==
  /\ Ini \in [Player -> [Table -> [Command -> Nat]]]
  /\ \A p \in Player, c \in Command : Cardinality({t \in Table : Ini[p][t][c] # 0}) <= 1
  /\ Http \in [Player -> SUBSET Command]
  /\ StateCode \in [Player -> [PlayState -> Int]]
  /\ NameNumber \in [Player -> Nat]
  /\ IsMPC \subseteq Player
  /\ MaxRequests \in Nat /\ MaxHand \in Nat
  /\ NULL \notin Player /\ NULL \notin Request
  /\ Player \cap {"none", "freed", "empty"} = {}

(* The ini files of the repository give the commands for mute, volume and     *)
(* state numbers that no other command has, and each state a code of its     *)
(* own; the program reads them as they are.                                  *)
ASSUME IniAssumption ==
  /\ \A p \in Player, c \in {"TOGGLE_MUTE", "GET_VOLUME", "GET_STATE"}, d \in Command :
       \A t, u \in Table : Ini[p][t][c] # 0 /\ Ini[p][u][d] = Ini[p][t][c] => d = c
  /\ \A p \in Player, s, t \in PlayState : StateCode[p][s] = StateCode[p][t] => s = t

VARIABLES
  request,        (* the request the chain's thread works on                   *)
  requests,       (* how many there were                                       *)
  work,           (* the calls still to make for it                            *)
  value,          (* what the last question to the player returned             *)
  playerHandle,   (* whether the last mpGetHandle of the handler found a window *)
  errno,          (* ERANGE is set on the chain's thread                       *)
  answers,        (* the answers given to the request                          *)
  mr,             (* the renderer's state variables                            *)
  mp,             (* the player object: "none", "freed", "empty" or a player   *)
  hMP,            (* its window handle: "null", "live", "stale" or "other"     *)
  pos,            (* its cache of the player's volume and state                *)
  real,           (* each player as it is                                      *)
  gui,            (* what the dialog's thread is doing                         *)
  sent,           (* the player the chain's thread asked the dialog to choose  *)
  replies,        (* WM_COPYDATA messages players have sent                    *)
  crashed,        (* memory was used that is not there                         *)
  hand,           (* how often the user did something by hand                  *)
  parted,         (* history: player and renderer may disagree about mute      *)
  history         (* history: what happened while the request is worked on     *)

mpVars == <<mp, hMP, pos>>
requestVars == <<request, requests, errno>>
chainVars == <<requestVars, work, value, playerHandle, answers>>
guiVars == <<gui, sent, replies>>
historyVars == <<crashed, hand, parted, history>>
vars == <<chainVars, mr, mpVars, real, guiVars, historyVars>>

Pump == [at |-> "pump", player |-> NULL, chain |-> FALSE]
NoPos == [volume |-> 0, state |-> 0]

(* History of a request: what the player in use was like since it came,      *)
(* whether the renderer or a player was touched, whether an HTTP request     *)
(* failed, whether the user chose a player, and whether the metadata block   *)
(* an answer is made from was freed, or gone before it was taken.            *)
Fresh(players, chosen) == [seen |-> players, touched |-> FALSE, failed |-> FALSE,
                           chosen |-> chosen, holds |-> FALSE, retitled |-> FALSE]

Init ==
  /\ request = NULL /\ requests = 0 /\ work = <<>> /\ value = 0 /\ errno = FALSE
  /\ playerHandle = FALSE /\ answers = <<>>
  /\ mr = [volume |-> [c \in Channels |-> 0], mute |-> [c \in Channels |-> "0"],
           state |-> "STOPPED", status |-> "OK", metadata |-> "none"]
  /\ mp \in {"none"} \cup Player
  /\ hMP = "null" /\ pos = NoPos
  /\ real \in [Player -> {[open |-> o, volume |-> 0, muted |-> FALSE, state |-> "STOPPED"] :
                            o \in BOOLEAN}]
  /\ gui = Pump /\ sent = NULL /\ replies = <<>>
  /\ crashed = FALSE /\ hand = 0 /\ parted = FALSE /\ history = Fresh({}, FALSE)
-----------------------------------------------------------------------------
(* The sinks of the application: sequences of calls.                         *)
(*                                                                         *)
(*   Do(c, v)      command c with the value v (mpPlay, mpSetVolume ...)     *)
(*   Ask(c)        a question; its answer is in value (mpGetVolume ...)     *)
(*   Tell(f, v)    MRSet... of the renderer's variable f                    *)
(*   IfPlayer(s, t)  s if there is a window handle and t otherwise          *)

Do(c, v) == <<[call |-> "Do", command |-> c, to |-> v]>>
Ask(c) == <<[call |-> "Ask", command |-> c]>>
Tell(f, v) == <<[call |-> "Tell", field |-> f, to |-> v]>>
TellVolume == <<[call |-> "TellVolume"]>>
TellState == <<[call |-> "TellState"]>>
IfPlayer(s, t) == <<[call |-> "mpGetHandle", then |-> s, else |-> t]>>
Choose(p) == <<[call |-> "CheckControlMenu", player |-> p]>>

(* Faulty variant: the renderer is told before the player is asked. *)
FaultyMROnVolumeChangeRequestSink(channel, v) ==
  IF channel # "Master" THEN IfPlayer(<<>>, <<>>)
  ELSE IfPlayer((IF v = -1 THEN <<>> ELSE Do("SET_VOLUME", v)) \o TellVolume \o Ask("GET_VOLUME"),
                <<>>)

MROnVolumeChangeRequestSink(channel, v) ==
  IF channel # "Master" THEN IfPlayer(<<>>, <<>>)
  ELSE IfPlayer((IF v = -1 THEN <<>> ELSE Do("SET_VOLUME", v)) \o Ask("GET_VOLUME") \o TellVolume,
                <<>>)

(* Faulty variant: a player is muted on every channel. *)
FaultyMROnMuteChangeRequestSink(channel, v) ==
  IfPlayer(Do("TOGGLE_MUTE", 0) \o (IF channel = "Master" THEN Tell("mute", v) ELSE <<>>), <<>>)

MROnMuteChangeRequestSink(channel, v) ==
  IF channel # "Master" THEN IfPlayer(<<>>, <<>>)
  ELSE IfPlayer(Do("TOGGLE_MUTE", 0) \o Tell("mute", v), <<>>)

(* The URI names a player by its last query parameter, or none. *)
MROnMediaChangeRequestSink(uri, metadata) ==
  Tell("metadata", metadata) \o (IF uri.player = NULL THEN <<>> ELSE Choose(uri.player))
  \o <<[call |-> "mpOpen"]>> \o Ask("GET_VOLUME") \o TellVolume

(* GetPosition and GetMedia test the pointer they were given instead of the  *)
(* handle, so they ask the player whether there is a window or not.          *)
MROnGetPositionRequestSink ==
  IfPlayer(<<>>, <<>>) \o Ask("GET_POSITION") \o Ask("GET_DURATION")
  \o <<[call |-> "IfPlaying", then |-> Do("GET_FILENAME", 0)]>>

MROnGetMediaRequestSink == IfPlayer(<<>>, <<>>) \o Ask("GET_DURATION")

MROnSeekRequestSink(position) == IfPlayer(Do("SET_POSITION", position), <<>>)

MROnNextPreviousRequestSink(delta) ==
  IfPlayer(Do(IF delta = -1 THEN "PREVIOUS" ELSE "NEXT", 0), <<>>)

MROnStateChangeRequestSink(state) ==
  Do(CASE state = "PLAYING" -> "PLAY" [] state = "PAUSED_PLAYBACK" -> "PAUSE"
       [] state = "STOPPED" -> "STOP", 0)

MROnPlayModeChangeRequestSink == <<>>

MROnGetTransportRequestSink ==
  IfPlayer(Tell("status", "OK") \o Ask("GET_STATE") \o TellState,
           Tell("state", "NO_MEDIA_PRESENT") \o Tell("status", "ERROR_OCCURRED"))

(* The list is read off the menu. *)
MROnGetMediaPlayersListSink == <<>>

MROnSetMediaPlayerSink(name) == Choose(name)
-----------------------------------------------------------------------------
(* The handlers of the renderer.  An answer is an error, or the value of one *)
(* of the renderer's variables when the answer carries one.                  *)
Error(code) == <<[call |-> "Error", code |-> code]>>
Respond(what) == <<[call |-> "Respond", what |-> what]>>

(* The answers of a service differ in what they carry. *)
UPnPResponse_AVTransport(what) == Respond(what)
UPnPResponse_ConnectionManager(what) == Respond(what)
UPnPResponse_RenderingControl(what) == Respond(what)

(* Only the instance 0 exists. *)
OfInstance(r, calls) == IF Converted(r.args["InstanceID"]) = 0 THEN calls ELSE Error(718)

(* The metadata block: made from title and creator when there is none or no  *)
(* player, else the one the renderer has; and the answer made from it.       *)
Metadata == <<[call |-> "Metadata"], [call |-> "TakeMetadata"]>>

UPnPAVTransport_GetCurrentTransportActions(r) == OfInstance(r, UPnPResponse_AVTransport("none"))
UPnPAVTransport_GetDeviceCapabilities(r) == OfInstance(r, UPnPResponse_AVTransport("none"))
UPnPAVTransport_GetMediaInfo(r) ==
  OfInstance(r, MROnGetMediaRequestSink \o Metadata \o UPnPResponse_AVTransport("metadata"))
UPnPAVTransport_GetPositionInfo(r) ==
  OfInstance(r, MROnGetPositionRequestSink \o Metadata \o UPnPResponse_AVTransport("metadata"))
UPnPAVTransport_GetTransportInfo(r) ==
  OfInstance(r, MROnGetTransportRequestSink \o UPnPResponse_AVTransport("state"))
UPnPAVTransport_GetTransportSettings(r) == OfInstance(r, UPnPResponse_AVTransport("none"))
UPnPAVTransport_Next(r) ==
  OfInstance(r, MROnNextPreviousRequestSink(1) \o UPnPResponse_AVTransport("none"))
UPnPAVTransport_Previous(r) ==
  OfInstance(r, MROnNextPreviousRequestSink(-1) \o UPnPResponse_AVTransport("none"))
UPnPAVTransport_Play(r) ==
  OfInstance(r, MROnStateChangeRequestSink("PLAYING") \o UPnPResponse_AVTransport("none"))
UPnPAVTransport_Pause(r) ==
  OfInstance(r, MROnStateChangeRequestSink("PAUSED_PLAYBACK") \o UPnPResponse_AVTransport("none"))
UPnPAVTransport_Stop(r) ==
  OfInstance(r, MROnStateChangeRequestSink("STOPPED") \o UPnPResponse_AVTransport("none"))
UPnPAVTransport_SetAVTransportURI(r) ==
  OfInstance(r, MROnMediaChangeRequestSink(r.args["CurrentURI"], r.args["CurrentURIMetaData"])
                \o UPnPResponse_AVTransport("none"))
UPnPAVTransport_SetPlayMode(r) ==
  OfInstance(r, MROnPlayModeChangeRequestSink \o UPnPResponse_AVTransport("none"))

(* The time of a target, from the numbers sscanf finds in hh:mm:ss; none is  *)
(* not an error but 0.                                                      *)
timeToSecondsSscanf(t) ==
  (IF Len(t) >= 1 THEN t[1] * 3600 ELSE 0) + (IF Len(t) >= 2 THEN t[2] * 60 ELSE 0)
  + (IF Len(t) >= 3 THEN t[3] ELSE 0)

(* Faulty variant: the sink is called before the target was found illegal. *)
FaultyUPnPAVTransport_Seek(r) ==
  LET target == r.args["Target"]
      seconds == timeToSecondsSscanf(target.time)
  IN  OfInstance(r,
        IF r.args["Unit"] = "ABS_COUNT" THEN Error(710)
        ELSE MROnSeekRequestSink(seconds)
             \o (IF r.args["Unit"] = "REL_TIME" /\ seconds < 0 THEN Error(711)
                 ELSE UPnPResponse_AVTransport("none")))

(* ABS_COUNT is an allowed value but no mode of the renderer.  A target is   *)
(* the numbers of a time, and whether all characters but the last of a track *)
(* number are digits, with the number.                                       *)
UPnPAVTransport_Seek(r) ==
  LET target == r.args["Target"]
      seconds == timeToSecondsSscanf(target.time)
  IN  OfInstance(r,
        CASE r.args["Unit"] = "ABS_COUNT" -> Error(710)
          [] r.args["Unit"] = "REL_TIME" ->
               IF seconds < 0 THEN Error(711)
               ELSE MROnSeekRequestSink(seconds) \o UPnPResponse_AVTransport("none")
          [] r.args["Unit"] = "TRACK_NR" ->
               IF ~target.digits THEN Error(711)
               ELSE MROnSeekRequestSink(target.track) \o UPnPResponse_AVTransport("none"))

UPnPConnectionManager_GetCurrentConnectionIDs == UPnPResponse_ConnectionManager("none")
UPnPConnectionManager_GetProtocolInfo == UPnPResponse_ConnectionManager("none")
UPnPConnectionManager_GetCurrentConnectionInfo(r) ==
  IF Converted(r.args["ConnectionID"]) = 0 THEN UPnPResponse_ConnectionManager("none") ELSE Error(706)

UPnPRenderingControl_GetMute(r) ==
  OfInstance(r, <<[call |-> "Respond", what |-> "mute", channel |-> r.args["Channel"]]>>)
UPnPRenderingControl_GetVolume(r) ==
  OfInstance(r, MROnVolumeChangeRequestSink(r.args["Channel"], -1)
                \o <<[call |-> "Respond", what |-> "volume", channel |-> r.args["Channel"]]>>)
MuteOf(v) == IF v \in {"1", "true"} THEN "1" ELSE "0"

UPnPRenderingControl_SetMute(r) ==
  OfInstance(r, MROnMuteChangeRequestSink(r.args["Channel"], MuteOf(r.args["DesiredMute"]))
                \o UPnPResponse_RenderingControl("none"))
UPnPRenderingControl_SetVolume(r) ==
  OfInstance(r, MROnVolumeChangeRequestSink(r.args["Channel"], Converted(r.args["DesiredVolume"]))
                \o UPnPResponse_RenderingControl("none"))
UPnPRenderingControl_upnpRenderer_GetMediaPlayersList(r) ==
  OfInstance(r, MROnGetMediaPlayersListSink \o UPnPResponse_RenderingControl("none"))
UPnPRenderingControl_upnpRenderer_SetMediaPlayer(r) ==
  OfInstance(r, MROnSetMediaPlayerSink(r.args["MediaPlayerName"])
                \o UPnPResponse_RenderingControl("none"))

(* The handlers that CreateMediaRenderer registers for the actions. *)
Handler(r) ==
  CASE r.action = "GetCurrentTransportActions" -> UPnPAVTransport_GetCurrentTransportActions(r)
    [] r.action = "GetDeviceCapabilities" -> UPnPAVTransport_GetDeviceCapabilities(r)
    [] r.action = "GetMediaInfo" -> UPnPAVTransport_GetMediaInfo(r)
    [] r.action = "GetPositionInfo" -> UPnPAVTransport_GetPositionInfo(r)
    [] r.action = "GetTransportInfo" -> UPnPAVTransport_GetTransportInfo(r)
    [] r.action = "GetTransportSettings" -> UPnPAVTransport_GetTransportSettings(r)
    [] r.action = "Next" -> UPnPAVTransport_Next(r)
    [] r.action = "Previous" -> UPnPAVTransport_Previous(r)
    [] r.action = "Play" -> UPnPAVTransport_Play(r)
    [] r.action = "Pause" -> UPnPAVTransport_Pause(r)
    [] r.action = "Stop" -> UPnPAVTransport_Stop(r)
    [] r.action = "Seek" -> UPnPAVTransport_Seek(r)
    [] r.action = "SetAVTransportURI" -> UPnPAVTransport_SetAVTransportURI(r)
    [] r.action = "SetPlayMode" -> UPnPAVTransport_SetPlayMode(r)
    [] r.action = "GetCurrentConnectionIDs" -> UPnPConnectionManager_GetCurrentConnectionIDs
    [] r.action = "GetProtocolInfo" -> UPnPConnectionManager_GetProtocolInfo
    [] r.action = "GetCurrentConnectionInfo" -> UPnPConnectionManager_GetCurrentConnectionInfo(r)
    [] r.action = "GetMute" -> UPnPRenderingControl_GetMute(r)
    [] r.action = "GetVolume" -> UPnPRenderingControl_GetVolume(r)
    [] r.action = "SetMute" -> UPnPRenderingControl_SetMute(r)
    [] r.action = "SetVolume" -> UPnPRenderingControl_SetVolume(r)
    [] r.action = "upnpRenderer_GetMediaPlayersList" ->
         UPnPRenderingControl_upnpRenderer_GetMediaPlayersList(r)
    [] r.action = "upnpRenderer_SetMediaPlayer" ->
         UPnPRenderingControl_upnpRenderer_SetMediaPlayer(r)
-----------------------------------------------------------------------------
(* The media player control. *)

(* The number of a command, and the table by which mpSendCommands sends a    *)
(* number: the first one that has it.  An object without an ini is all 0.    *)
Number(c) == LET given == {t \in Table : Ini[mp][t][c] # 0}
             IN  IF given = {} THEN 0 ELSE Ini[mp][CHOOSE t \in given : TRUE][c]

Has(t, n) == \E c \in Command : Ini[mp][t][c] = n

TableOf(n) == CASE Has("cm", n) -> "cm" [] Has("cd", n) -> "cd" [] Has("us", n) -> "us"
                [] OTHER -> "ap"

(* The command a player takes the number for. *)
Understood(c) ==
  IF mp \notin Player \/ hMP # "live" \/ Number(c) = 0 THEN {}
  ELSE {d \in Command : Ini[mp][TableOf(Number(c))][d] = Number(c)}

(* What a player does on a command ... *)
PlayerDoes(s, c, v) ==
  CASE c = "SET_VOLUME" -> [s EXCEPT !.volume = v]
    [] c = "TOGGLE_MUTE" -> [s EXCEPT !.muted = ~s.muted]
    [] c = "PLAY" -> [s EXCEPT !.state = "PLAYING"]
    [] c = "PAUSE" -> [s EXCEPT !.state = "PAUSED_PLAYBACK"]
    [] c = "STOP" -> [s EXCEPT !.state = "STOPPED"]
    [] OTHER -> s

(* ... and what it says. *)
PlayerSays(p, s, c) == CASE c = "GET_VOLUME" -> s.volume
                         [] c = "GET_STATE" -> StateCode[p][s.state]
                         [] OTHER -> 0

(* The cache of the player object after an answer to the question c. *)
Cached(c, v) == CASE c = "GET_VOLUME" -> [pos EXCEPT !.volume = v]
                  [] c = "GET_STATE" -> [pos EXCEPT !.state = v]
                  [] OTHER -> pos

Exists == mp \notin {"none", "freed"}
ByHttp(c) == mp \in Player /\ c \in Http[mp]
Asked == Head(work).call = "Ask"
Touch(players) == [history EXCEPT !.touched = TRUE, !.seen = @ \cup players]

(* The chain's thread makes the next call, unless it waits for the dialog. *)
Call(calls) == work # <<>> /\ sent = NULL /\ ~crashed /\ Head(work).call \in calls

(* A call that uses the player object when there is none. *)
UseFreed ==
  /\ Call({"mpGetHandle", "Do", "Ask", "FromCache", "mpOpen", "TellState"})
  /\ ~Exists
  /\ crashed' = TRUE
  /\ UNCHANGED <<chainVars, mr, mpVars, real, guiVars, hand, parted, history>>

(* A handle that is no window is looked for again.  The titles and classes   *)
(* of an object without an ini match any window.                            *)
Found == CASE hMP \in {"live", "other"} -> hMP
           [] mp = "empty" -> "other"
           [] OTHER -> IF real[mp].open THEN "live" ELSE "null"

mpGetHandle ==
  /\ Call({"mpGetHandle"}) /\ Exists
  /\ hMP' = Found
  /\ playerHandle' = (hMP' # "null")
  /\ work' = (IF playerHandle' THEN Head(work).then ELSE Head(work).else) \o Tail(work)
  /\ history' = Touch({})
  /\ UNCHANGED <<requestVars, value, answers, mr, mp, pos, real, guiVars, crashed, hand, parted>>

(* sendHttpRequest: it gets through, or fails after three tries. *)
SendHttp ==
  /\ Call({"Do", "Ask"}) /\ Exists
  /\ LET c == Head(work).command
     IN  /\ ByHttp(c)
         /\ \E ok \in BOOLEAN :
              /\ ok => real[mp].open
              /\ real' = IF ok /\ ~Asked
                         THEN [real EXCEPT ![mp] = PlayerDoes(@, c, Head(work).to)] ELSE real
              /\ pos' = CASE c = "SET_VOLUME" -> [pos EXCEPT !.volume = Head(work).to]
                          [] Asked /\ ok -> Cached(c, PlayerSays(mp, real[mp], c))
                          [] Asked /\ ~ok /\ c = "GET_VOLUME" -> [pos EXCEPT !.volume = 0]
                          [] OTHER -> pos
              /\ value' = CASE ~Asked -> value
                            [] c = "GET_VOLUME" -> pos'.volume
                            [] c = "GET_STATE" -> pos'.state
                            [] OTHER -> 0
              /\ history' = [Touch({real'[mp]}) EXCEPT !.failed = @ \/ ~ok]
              /\ parted' = (parted \/ (c = "TOGGLE_MUTE" /\ ~ok))
  /\ work' = Tail(work)
  /\ UNCHANGED <<requestVars, playerHandle, answers, mr, mp, hMP, guiVars, crashed, hand>>

(* The number of the message by which a player answers the question c, if it *)
(* does not answer at once; 0 otherwise.                                    *)
ReplyNumber(c) ==
  CASE c \in {"GET_VOLUME", "GET_STATE"} -> Ini[mp]["cd"][c]
    [] c = "GET_FILENAME" -> IF NameNumber[mp] # 0 THEN NameNumber[mp] ELSE Ini[mp]["cd"][c]
    [] OTHER -> 0

(* mpSendCommands.  SendMessage returns what the player says, or 0; a        *)
(* question in the table cd is answered by a message of the player, which    *)
(* the dialog's thread takes before the cache is read or after.              *)
SendWindow ==
  /\ Call({"Do", "Ask"}) /\ Exists
  /\ LET c == Head(work).command
         understood == Understood(c)
         later == mp \in Player /\ Ini[mp]["cd"][c] # 0
         says == IF understood = {} \/ TableOf(Number(c)) = "ap" THEN 0
                 ELSE PlayerSays(mp, real[mp], CHOOSE d \in understood : TRUE)
     IN  /\ ~ByHttp(c)
         /\ real' = IF understood = {} THEN real
                    ELSE [real EXCEPT ![mp] = PlayerDoes(@, CHOOSE d \in understood : TRUE,
                                                         IF Asked THEN 0 ELSE Head(work).to)]
         /\ replies' = IF understood # {} /\ ReplyNumber(c) # 0
                       THEN Append(replies, [number |-> ReplyNumber(c), value |-> says])
                       ELSE replies
         /\ pos' = CASE c = "SET_VOLUME" -> [pos EXCEPT !.volume = Head(work).to]
                     [] Asked /\ ~later -> Cached(c, says)
                     [] OTHER -> pos
         /\ value' = IF Asked /\ ~later THEN says ELSE value
         /\ work' = (IF Asked /\ later THEN <<[call |-> "FromCache", command |-> c]>> ELSE <<>>)
                     \o Tail(work)
         /\ parted' = (parted \/ (c = "TOGGLE_MUTE" /\ understood # {c}))
         /\ history' = Touch(IF mp \in Player THEN {real'[mp]} ELSE {})
  /\ UNCHANGED <<requestVars, playerHandle, answers, mr, mp, hMP, gui, sent, crashed, hand>>

(* ... and what is in the cache then is the answer to the question. *)
FromCache ==
  /\ Call({"FromCache"}) /\ Exists
  /\ value' = CASE Head(work).command = "GET_VOLUME" -> pos.volume
                 [] Head(work).command = "GET_STATE" -> pos.state
                 [] OTHER -> 0
  /\ work' = Tail(work)
  /\ UNCHANGED <<requestVars, playerHandle, answers, mr, mpVars, real, guiVars, historyVars>>

(* mpOpen starts the player: the process cannot be started, or its window    *)
(* shows within three seconds, or it does not.                              *)
mpOpen ==
  /\ Call({"mpOpen"}) /\ Exists
  /\ \/ UNCHANGED <<hMP, real>>
     \/ /\ mp \in Player
        /\ hMP' = "live"
        /\ real' = [real EXCEPT ![mp].open = TRUE]
     \/ /\ mp \in Player /\ ~real[mp].open
        /\ hMP' = "null"
        /\ UNCHANGED real
  /\ work' = Tail(work)
  /\ history' = Touch({})
  /\ UNCHANGED <<requestVars, value, playerHandle, answers, mr, mp, pos, guiVars, crashed, hand, parted>>

(* Faulty variant: the message is posted and not waited for. *)
FaultyCheckControlMenu ==
  /\ Call({"CheckControlMenu"}) /\ gui.at = "pump"
  /\ work' = Tail(work)
  /\ IF Head(work).player \in Player
     THEN /\ gui' = [at |-> "create", player |-> Head(work).player, chain |-> FALSE]
          /\ mp' = IF mp = "none" THEN "none" ELSE "freed"
     ELSE UNCHANGED <<gui, mp>>
  /\ history' = Touch({})
  /\ UNCHANGED <<requestVars, value, playerHandle, answers, mr, hMP, pos, real, replies, sent, crashed, hand, parted>>

(* A player that is in the menu is chosen by a message to the dialog, which  *)
(* the chain's thread waits for.                                            *)
CheckControlMenu ==
  /\ Call({"CheckControlMenu"})
  /\ work' = Tail(work)
  /\ sent' = IF Head(work).player \in Player THEN Head(work).player ELSE NULL
  /\ history' = Touch({})
  /\ UNCHANGED <<requestVars, value, playerHandle, answers, mr, mpVars, real, gui, replies, crashed, hand, parted>>

(* What the renderer is told. *)
StateOf(v) ==
  LET code(s) == IF mp \in Player THEN StateCode[mp][s] ELSE 0
  IN  CASE v = code("PLAYING") -> "PLAYING"
        [] v = code("PAUSED_PLAYBACK") -> "PAUSED_PLAYBACK"
        [] v = code("STOPPED") -> "STOPPED"
        [] OTHER -> "NO_MEDIA_PRESENT"

MRSet ==
  /\ Call({"Tell", "TellVolume", "TellState"})
  /\ LET h == Head(work)
     IN  /\ h.call = "TellState" => Exists
         /\ mr' = CASE h.call = "TellVolume" -> [mr EXCEPT !.volume["Master"] = value]
                    [] h.call = "TellState" -> [mr EXCEPT !.state = StateOf(value)]
                    [] h.call = "Tell" /\ h.field = "mute" -> [mr EXCEPT !.mute["Master"] = h.to]
                    [] OTHER -> [mr EXCEPT ![h.field] = h.to]
  /\ work' = Tail(work)
  /\ history' = Touch({})
  /\ UNCHANGED <<requestVars, value, playerHandle, answers, mpVars, real, guiVars, crashed, hand, parted>>

IfPlaying ==
  /\ Call({"IfPlaying"})
  /\ work' = (IF mr.state = "PLAYING" THEN Head(work).then ELSE <<>>) \o Tail(work)
  /\ UNCHANGED <<requestVars, value, playerHandle, answers, mr, mpVars, real, guiVars, historyVars>>

(* GetMediaInfo and GetPositionInfo: without a block or a player one is made *)
(* and kept by the renderer, without its lock; ...                          *)
MakeMetadata ==
  /\ Call({"Metadata"})
  /\ LET missing == mr.metadata = "none" \/ ~playerHandle
     IN  /\ mr' = IF missing THEN [mr EXCEPT !.metadata = "generated"] ELSE mr
         /\ history' = [Touch({}) EXCEPT !.holds = missing]
  /\ work' = Tail(work)
  /\ UNCHANGED <<requestVars, value, playerHandle, answers, mpVars, real, guiVars, crashed, hand, parted>>

(* ... otherwise the one that the renderer has is read again, and may be gone *)
(* by then.                                                                 *)
TakeMetadata ==
  /\ Call({"TakeMetadata"})
  /\ history' = [Touch({}) EXCEPT !.holds = TRUE,
                                 !.retitled = @ \/ (~history.holds /\ mr.metadata = "none")]
  /\ work' = Tail(work)
  /\ UNCHANGED <<requestVars, value, playerHandle, answers, mr, mpVars, real, guiVars, crashed, hand, parted>>

ComputeMetadata == MakeMetadata \/ TakeMetadata

(* Faulty variant: the second half of an error is sent as an answer of its own. *)
FaultyUPnPResponse_Error ==
  /\ Call({"Error"})
  /\ answers' = answers \o <<[fault |-> Head(work).code, what |-> "none", value |-> 0],
                             [fault |-> Head(work).code, what |-> "none", value |-> 0]>>
  /\ work' = Tail(work)
  /\ UNCHANGED <<requestVars, value, playerHandle, mr, mpVars, real, guiVars, historyVars>>

UPnPResponse_Error ==
  /\ Call({"Error"})
  /\ answers' = Append(answers, [fault |-> Head(work).code, what |-> "none", value |-> 0])
  /\ work' = Tail(work)
  /\ UNCHANGED <<requestVars, value, playerHandle, mr, mpVars, real, guiVars, historyVars>>

(* The answer carries the renderer's variable as it is now. *)
UPnPResponseGeneric ==
  /\ Call({"Respond"})
  /\ LET what == Head(work).what
     IN  answers' = Append(answers,
                      [fault |-> 0, what |-> what,
                       value |-> CASE what \in {"volume", "mute"} -> mr[what][Head(work).channel]
                                   [] what \in {"state", "metadata"} -> mr[what]
                                   [] OTHER -> 0])
  /\ crashed' = (history.holds /\ history.retitled)
  /\ history' = [history EXCEPT !.holds = FALSE]
  /\ work' = Tail(work)
  /\ UNCHANGED <<requestVars, value, playerHandle, mr, mpVars, real, guiVars, hand, parted>>

(* A request comes, is checked, and handed to its handler. *)
UPnPProcessHTTPPacket(r) ==
  LET d == UPnPProcessPOST(r, errno)
  IN  /\ work = <<>> /\ ~crashed
      /\ requests < MaxRequests
      /\ request' = r /\ requests' = requests + 1
      /\ errno' = d.errno
      /\ work' = IF d.fault # 0 THEN Error(d.fault) ELSE Handler(r)
      /\ answers' = <<>>
      /\ history' = Fresh(IF mp \in Player THEN {real[mp]} ELSE {}, gui # Pump)
      /\ parted' = (parted \/ (r.action = "SetMute" /\ d.fault = 0
                               /\ mr.mute["Master"] = MuteOf(r.args["DesiredMute"])))
      /\ UNCHANGED <<value, playerHandle, mr, mpVars, real, guiVars, crashed, hand>>

ChainStep == \/ UseFreed \/ mpGetHandle \/ SendHttp \/ SendWindow \/ FromCache \/ mpOpen
             \/ CheckControlMenu \/ MRSet \/ IfPlaying \/ ComputeMetadata \/ UPnPResponse_Error \/ UPnPResponseGeneric
-----------------------------------------------------------------------------
(* The dialog's thread. *)

(* The user chooses a player in the menu ... *)
ChooseByHand(p) ==
  /\ gui = Pump /\ hand < MaxHand /\ ~crashed
  /\ gui' = [at |-> "create", player |-> p, chain |-> FALSE]
  /\ mp' = IF mp = "none" THEN "none" ELSE "freed"
  /\ hand' = hand + 1
  /\ parted' = TRUE
  /\ history' = [history EXCEPT !.chosen = TRUE]
  /\ UNCHANGED <<chainVars, mr, hMP, pos, real, sent, replies, crashed>>

(* ... or the chain's thread does: mpFree, ... *)
ChooseForChain ==
  /\ gui = Pump /\ sent # NULL /\ ~crashed
  /\ gui' = [at |-> "create", player |-> sent, chain |-> TRUE]
  /\ mp' = IF mp = "none" THEN "none" ELSE "freed"
  /\ parted' = TRUE
  /\ UNCHANGED <<chainVars, mr, hMP, pos, real, sent, replies, crashed, hand, history>>

(* ... mpCreate ... *)
mpCreate ==
  /\ gui.at = "create" /\ ~crashed
  /\ gui' = [gui EXCEPT !.at = "load"]
  /\ mp' = "empty" /\ hMP' = "null" /\ pos' = NoPos
  /\ UNCHANGED <<chainVars, mr, real, sent, replies, historyVars>>

(* Faulty variant: the waiting thread is not told. *)
FaultympLoadDataINI ==
  /\ gui.at = "load" /\ ~crashed
  /\ gui' = Pump
  /\ mp' = gui.player
  /\ UNCHANGED <<chainVars, mr, hMP, pos, real, sent, replies, historyVars>>

(* ... and mpLoadDataINI; then the message is answered. *)
mpLoadDataINI ==
  /\ gui.at = "load" /\ ~crashed
  /\ gui' = Pump
  /\ mp' = gui.player
  /\ sent' = IF gui.chain THEN NULL ELSE sent
  /\ UNCHANGED <<chainVars, mr, hMP, pos, real, replies, historyVars>>

(* wmCopyData: a late answer of a player goes where the numbers of the       *)
(* player in use say.  The file name of a player that plays makes the        *)
(* renderer forget its metadata when it is not the media URI it has          *)
(* (MRSetWinTitleUri).                                                      *)
wmCopyData ==
  /\ gui = Pump /\ replies # <<>> /\ ~crashed
  /\ LET r == Head(replies)
         is(c) == Ini[mp]["cd"][c] = r.number
     IN  /\ pos' = [volume |-> IF is("GET_VOLUME") THEN r.value ELSE pos.volume,
                    state |-> IF is("GET_STATE") THEN r.value ELSE pos.state]
         /\ IF (is("GET_FILENAME") \/ NameNumber[mp] = r.number) /\ mr.state = "PLAYING" /\ mp \notin IsMPC
            THEN /\ hMP' = Found
                 /\ \/ /\ mr' = [mr EXCEPT !.metadata = "none"]
                       /\ history' = [history EXCEPT !.retitled = @ \/ history.holds]
                    \/ UNCHANGED <<mr, history>>
            ELSE UNCHANGED <<hMP, mr, history>>
  /\ replies' = Tail(replies)
  /\ UNCHANGED <<chainVars, mp, real, gui, sent, crashed, hand, parted>>

GuiStep == ChooseForChain \/ mpCreate \/ mpLoadDataINI \/ wmCopyData
-----------------------------------------------------------------------------
(* The user and the player p: its window is opened or closed, its volume,    *)
(* mute or state change.                                                    *)
PlayerChanges(p) ==
  /\ hand < MaxHand /\ ~crashed
  /\ real' \in {[real EXCEPT ![p] = s] :
                  s \in {[real[p] EXCEPT !.open = ~@], [real[p] EXCEPT !.volume = MaxVolume - @],
                         [real[p] EXCEPT !.muted = ~@]}
                        \cup {[real[p] EXCEPT !.state = t] : t \in PlayState}}
  /\ real' # real
  /\ hMP' = IF mp = p /\ hMP = "live" /\ ~real'[p].open THEN "stale" ELSE hMP
  /\ hand' = hand + 1
  /\ parted' = (parted \/ real'[p].muted # real[p].muted)
  /\ history' = IF mp = p THEN [history EXCEPT !.seen = @ \cup {real'[p]}] ELSE history
  /\ UNCHANGED <<chainVars, mr, mp, pos, guiVars, crashed>>

Next == \/ ChainStep \/ GuiStep
        \/ \E r \in Request : UPnPProcessHTTPPacket(r)
        \/ \E p \in Player : ChooseByHand(p) \/ PlayerChanges(p)

(* Both threads go on when they can: a player answers its messages, and the  *)
(* dialog's thread comes back to its message loop.                          *)
Spec == Init /\ [][Next]_vars /\ WF_vars(ChainStep) /\ WF_vars(GuiStep)
-----------------------------------------------------------------------------
(* The types of what the proofs and the other properties speak of. *)
TypeOK ==
  /\ request \in Request \cup {NULL} /\ requests \in 0 .. MaxRequests /\ errno \in BOOLEAN
  /\ mp \in {"none", "freed", "empty"} \cup Player
  /\ hMP \in {"null", "live", "stale", "other"}
  /\ real \in [Player -> [open : BOOLEAN, volume : Int, muted : BOOLEAN, state : PlayState]]
  /\ gui \in [at : {"pump", "create", "load"}, player : Player \cup {NULL}, chain : BOOLEAN]
  /\ sent \in Player \cup {NULL}
  /\ crashed \in BOOLEAN /\ parted \in BOOLEAN /\ hand \in 0 .. MaxHand

(* A request is answered exactly once: the handlers answer on every path, and *)
(* an error is not followed by a second answer.                             *)
OneAnswer == /\ Len(answers) <= 1
             /\ work = <<>> /\ request # NULL => Len(answers) = 1

(* A request that is refused has had no effect: neither the player nor the    *)
(* renderer was touched before the refusal, whichever of dispatch function,  *)
(* handler or conversion found the fault.                                   *)
RefusedUntouched == \A i \in DOMAIN answers : answers[i].fault # 0 => ~history.touched

(* The player in use was asked and answered at once, whenever it was asked. *)
AskedAtOnce(c) ==
  /\ playerHandle /\ mp \in Player /\ hMP = "live" /\ ~history.failed /\ ~history.chosen
  /\ \A s \in history.seen : s.open
  /\ ByHttp(c) \/ Ini[mp]["cm"][c] # 0 \/ Ini[mp]["us"][c] # 0

(* What GetVolume and GetTransportInfo answer is the volume or the state the  *)
(* player had at some time since the request came, not what the renderer had *)
(* heard of it before; also when somebody turns its knobs meanwhile.         *)
AnsweredFresh ==
  \A i \in DOMAIN answers :
    LET a == answers[i]
    IN  /\ a.what = "volume" /\ request.args["Channel"] = "Master" /\ AskedAtOnce("GET_VOLUME")
             => \E s \in history.seen : s.volume = a.value
        /\ a.what = "state" /\ AskedAtOnce("GET_STATE")
             => \E s \in history.seen : s.state = a.value

(* The player object is not used while it is replaced, unless nobody has      *)
(* chosen a player yet, or the user chose one in the menu or the player gave *)
(* another title while the request was worked on: a player that the request  *)
(* itself chooses is complete when its handler goes on.                      *)
NoFreedUse == crashed => mp = "none" \/ history.chosen \/ history.retitled

(* The renderer says the player is muted just when it is, though it is told   *)
(* to toggle: as long as requests ask for a change, nobody mutes the player  *)
(* by hand or chooses another one, and no command is lost.                   *)
MuteKept == work = <<>> /\ mp \in Player /\ ~parted
              => (mr.mute["Master"] = "1") = real[mp].muted

(* Every request is answered: the threads that wait for each other come back, *)
(* unless memory was used that is not there.                                 *)
Answered == work # <<>> ~> work = <<>> \/ crashed

(* A request with legal arguments is not refused as one with illegal ones     *)
(* (ILibParsers.c:3072 says that ILibGetULong tells the two apart).          *)
LegalAccepted ==
  \A i \in DOMAIN answers :
    answers[i].fault = 402 => UPnPProcessPOST(request, FALSE).fault = 402
=============================================================================

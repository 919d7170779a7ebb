------------------------------- MODULE Dispatch ------------------------------
(***************************************************************************)
(* How the MicroStack checks the request of an action before the renderer   *)
(* sees it (UPnPMicroStack.c, UPnPDispatch_... and UPnPProcessPOST, and the *)
(* numbers of ILibParsers.c).  Operators only: Control uses them.           *)
(*                                                                         *)
(* A request is a record with the service of its path, the action of its    *)
(* SOAPACTION header, whether its body is well-formed XML, the element in   *)
(* the SOAP body, and args, a function from the names of the arguments that *)
(* are there to their values.  The text of a number is <<>> when it is       *)
(* empty, <<n>> when it is that number, and longer when something is left    *)
(* over that is not part of the number.                                     *)
(*                                                                         *)
(* errno is the variable of the C library, which belongs to the thread:     *)
(* strtoul and strtol set it to ERANGE (TRUE here) and nobody resets it.    *)
(***************************************************************************)
EXTENDS Integers, Sequences

CONSTANTS MaxULong,   (* the largest unsigned long                             *)
          MaxLong,    (* the largest long                                      *)
          MaxVolume   (* MinMaxStep of the state variable Volume               *)

ASSUME DispatchAssumption == /\ MaxULong \in Nat /\ MaxLong \in Nat
                             /\ MaxVolume \in 0 .. MaxULong

(* The allowed values of the state variables. *)
Channels == {"Master", "LF", "RF"}
PlaySpeeds == {"1"}
SeekModes == {"ABS_COUNT", "TRACK_NR", "REL_TIME"}
PlayModes == {"NORMAL", "SHUFFLE", "REPEAT_ALL"}
PresetNames == {"FactoryDefaults"}
Booleans == {"0", "1", "false", "true"}

(* strtoul and strtol: what they read of a text, 0 if it is empty. *)
Converted(v) == IF v = <<>> THEN 0 ELSE v[1]

(* A number as ILibGetULong reads it: whether it returns 0, and errno after. *)
ILibGetULong(v, errno) ==
  LET e == errno \/ Converted(v) \notin -MaxULong .. MaxULong
  IN  [ok |-> ~e /\ Len(v) <= 1 /\ Converted(v) >= 0, errno |-> e]

ILibGetLong(v, errno) ==
  LET e == errno \/ Converted(v) \notin -MaxLong - 1 .. MaxLong
  IN  [ok |-> ~e /\ Len(v) <= 1, errno |-> e]

(* What a dispatch function comes to: the error it answers, or 0 when it     *)
(* calls the handler.                                                       *)
Result(fault, errno) == [fault |-> fault, errno |-> errno]

(* The XML has to be well-formed and every argument there, in any order. *)
Parsed(r, action, names) ==
  IF r.malformed THEN 501
  ELSE IF r.element = action /\ names \subseteq DOMAIN r.args THEN 0
  ELSE 402

(* The common form: InstanceID first, then the texts with allowed values;    *)
(* texts maps a name to these, others names texts that may be anything.      *)
Checked(r, errno, action, texts, others) ==
  LET fault == Parsed(r, action, {"InstanceID"} \cup DOMAIN texts \cup others)
      id == ILibGetULong(r.args["InstanceID"], errno)
  IN  IF fault # 0 THEN Result(fault, errno)
      ELSE IF id.ok /\ \A a \in DOMAIN texts : r.args[a] \in texts[a]
           THEN Result(0, id.errno)
      ELSE Result(402, id.errno)

NoTexts == [a \in {} |-> {}]

(* An action no handler was registered for. *)
NoHandler(result) == IF result.fault = 0 THEN Result(501, result.errno) ELSE result
-----------------------------------------------------------------------------
(* AVTransport *)
GetCurrentTransportActions(r, e) == Checked(r, e, "GetCurrentTransportActions", NoTexts, {})
GetDeviceCapabilities(r, e) == Checked(r, e, "GetDeviceCapabilities", NoTexts, {})
GetMediaInfo(r, e) == Checked(r, e, "GetMediaInfo", NoTexts, {})
GetPositionInfo(r, e) == Checked(r, e, "GetPositionInfo", NoTexts, {})
GetTransportInfo(r, e) == Checked(r, e, "GetTransportInfo", NoTexts, {})
GetTransportSettings(r, e) == Checked(r, e, "GetTransportSettings", NoTexts, {})
NextTrack(r, e) == Checked(r, e, "Next", NoTexts, {})
Pause(r, e) == Checked(r, e, "Pause", NoTexts, {})
Play(r, e) == Checked(r, e, "Play", [Speed |-> PlaySpeeds], {})
Previous(r, e) == Checked(r, e, "Previous", NoTexts, {})
Seek(r, e) == Checked(r, e, "Seek", [Unit |-> SeekModes], {"Target"})
SetAVTransportURI(r, e) ==
  Checked(r, e, "SetAVTransportURI", NoTexts, {"CurrentURI", "CurrentURIMetaData"})
SetPlayMode(r, e) == Checked(r, e, "SetPlayMode", [NewPlayMode |-> PlayModes], {})
Stop(r, e) == Checked(r, e, "Stop", NoTexts, {})

(* ConnectionManager: the first two do not look at the body. *)
GetCurrentConnectionIDs(r, e) == Result(0, e)
GetProtocolInfo(r, e) == Result(0, e)
GetCurrentConnectionInfo(r, e) ==
  LET fault == Parsed(r, "GetCurrentConnectionInfo", {"ConnectionID"})
      id == ILibGetLong(r.args["ConnectionID"], e)
  IN  IF fault # 0 THEN Result(fault, e)
      ELSE Result(IF id.ok THEN 0 ELSE 402, id.errno)

(* RenderingControl *)
GetMute(r, e) == Checked(r, e, "GetMute", [Channel |-> Channels], {})
GetVolume(r, e) == Checked(r, e, "GetVolume", [Channel |-> Channels], {})
ListPresets(r, e) == NoHandler(Checked(r, e, "ListPresets", NoTexts, {}))
SelectPreset(r, e) == NoHandler(Checked(r, e, "SelectPreset", [PresetName |-> PresetNames], {}))
SetMute(r, e) ==
  Checked(r, e, "SetMute", [Channel |-> Channels, DesiredMute |-> Booleans], {})
SetVolume(r, e) ==
  LET c == Checked(r, e, "SetVolume", [Channel |-> Channels], {"DesiredVolume"})
      v == ILibGetULong(r.args["DesiredVolume"], c.errno)
  IN  IF c.fault # 0 THEN c
      ELSE IF v.ok /\ Converted(r.args["DesiredVolume"]) <= MaxVolume THEN Result(0, v.errno)
      ELSE Result(402, v.errno)
GetMediaPlayersList(r, e) == Checked(r, e, "upnpRenderer_GetMediaPlayersList", NoTexts, {})
SetMediaPlayer(r, e) == Checked(r, e, "upnpRenderer_SetMediaPlayer", NoTexts, {"MediaPlayerName"})
-----------------------------------------------------------------------------
(* The services, and what UPnPProcessPOST makes of a request: an action that *)
(* is not one of the service of its path is answered 401 by the caller.      *)
Services == {"AVTransport", "ConnectionManager", "RenderingControl"}

UPnPProcessPOST(r, e) ==
  CASE r.service = "AVTransport" ->
         (CASE r.action = "GetCurrentTransportActions" -> GetCurrentTransportActions(r, e)
            [] r.action = "GetDeviceCapabilities" -> GetDeviceCapabilities(r, e)
            [] r.action = "GetMediaInfo" -> GetMediaInfo(r, e)
            [] r.action = "GetPositionInfo" -> GetPositionInfo(r, e)
            [] r.action = "GetTransportInfo" -> GetTransportInfo(r, e)
            [] r.action = "GetTransportSettings" -> GetTransportSettings(r, e)
            [] r.action = "Next" -> NextTrack(r, e)
            [] r.action = "Pause" -> Pause(r, e)
            [] r.action = "Play" -> Play(r, e)
            [] r.action = "Previous" -> Previous(r, e)
            [] r.action = "Seek" -> Seek(r, e)
            [] r.action = "SetAVTransportURI" -> SetAVTransportURI(r, e)
            [] r.action = "SetPlayMode" -> SetPlayMode(r, e)
            [] r.action = "Stop" -> Stop(r, e)
            [] OTHER -> Result(401, e))
    [] r.service = "ConnectionManager" ->
         (CASE r.action = "GetCurrentConnectionIDs" -> GetCurrentConnectionIDs(r, e)
            [] r.action = "GetCurrentConnectionInfo" -> GetCurrentConnectionInfo(r, e)
            [] r.action = "GetProtocolInfo" -> GetProtocolInfo(r, e)
            [] OTHER -> Result(401, e))
    [] r.service = "RenderingControl" ->
         (CASE r.action = "GetMute" -> GetMute(r, e)
            [] r.action = "GetVolume" -> GetVolume(r, e)
            [] r.action = "ListPresets" -> ListPresets(r, e)
            [] r.action = "SelectPreset" -> SelectPreset(r, e)
            [] r.action = "SetMute" -> SetMute(r, e)
            [] r.action = "SetVolume" -> SetVolume(r, e)
            [] r.action = "upnpRenderer_GetMediaPlayersList" -> GetMediaPlayersList(r, e)
            [] r.action = "upnpRenderer_SetMediaPlayer" -> SetMediaPlayer(r, e)
            [] OTHER -> Result(401, e))
    [] OTHER -> Result(401, e)
=============================================================================

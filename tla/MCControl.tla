------------------------------- MODULE MCControl ------------------------------
(* Control for TLC: two players with their ini files and the requests of      *)
(* control points.                                                           *)
EXTENDS Control, TLC

NoCommands == [c \in Command |-> 0]

(* PotPlayer.ini: commands by WM_COMMAND, questions by WM_USER, and the file   *)
(* name comes back as WM_COPYDATA.                                            *)
PotPlayer ==
  [cm |-> ("TOGGLE_MUTE" :> 10037 @@ "PAUSE" :> 20000 @@ "PLAY" :> 20001 @@ "STOP" :> 20002
           @@ "PREVIOUS" :> 10123 @@ "NEXT" :> 10124 @@ NoCommands),
   us |-> ("GET_VOLUME" :> 20480 @@ "SET_VOLUME" :> 20481 @@ "GET_DURATION" :> 20482
           @@ "GET_POSITION" :> 20484 @@ "SET_POSITION" :> 20485 @@ "GET_STATE" :> 20486
           @@ "GET_FILENAME" :> 24608 @@ NoCommands),
   cd |-> NoCommands, ap |-> NoCommands]

(* MPC-BE-HTTP.ini with the question for the state of MPC-BE.ini, which comes  *)
(* back as WM_COPYDATA.                                                       *)
MPCBE ==
  [cm |-> ("TOGGLE_MUTE" :> 909 @@ "PAUSE" :> 888 @@ "PLAY" :> 887 @@ "STOP" :> 890
           @@ "PREVIOUS" :> 921 @@ "NEXT" :> 922 @@ NoCommands),
   cd |-> ("GET_STATE" :> 2 @@ NoCommands),
   us |-> NoCommands, ap |-> NoCommands]

MCIni == [PotPlayer |-> PotPlayer, MPCBE |-> MPCBE]
MCPlayer == {"PotPlayer", "MPCBE"}
MCHttp == [PotPlayer |-> {}, MPCBE |-> {"GET_VOLUME", "SET_VOLUME", "TOGGLE_MUTE"}]
MCNameNumber == [PotPlayer |-> 24608, MPCBE |-> 0]
MCStateCode == [PotPlayer |-> ("PLAYING" :> 2 @@ "PAUSED_PLAYBACK" :> 1 @@ "STOPPED" :> -1),
                MPCBE |-> ("PLAYING" :> 0 @@ "PAUSED_PLAYBACK" :> 1 @@ "STOPPED" :> 2)]

(* A well-formed request to the action a of the service s. *)
Asks(s, a, args) ==
  [service |-> s, action |-> a, malformed |-> FALSE, element |-> a, args |-> args]

AV(a, args) == Asks("AVTransport", a, ("InstanceID" :> <<0>>) @@ args)
RC(a, args) == Asks("RenderingControl", a, ("InstanceID" :> <<0>>) @@ args)
None == <<>>

Target(time, digits, track) == [time |-> time, digits |-> digits, track |-> track]
Seeks(unit, target) == AV("Seek", [Unit |-> unit, Target |-> target])
Mute(v) == RC("SetMute", [Channel |-> "Master", DesiredMute |-> v])
Volume(n) == RC("SetVolume", [Channel |-> "Master", DesiredVolume |-> n])

(* Requests that reach a player or change the renderer ... *)
MCControls ==
  {AV("GetTransportInfo", None), AV("GetPositionInfo", None), AV("GetMediaInfo", None),
   AV("Play", [Speed |-> "1"]), AV("Next", None),
   AV("SetAVTransportURI", [CurrentURI |-> [player |-> "MPCBE"], CurrentURIMetaData |-> "given"]),
   AV("SetAVTransportURI", [CurrentURI |-> [player |-> NULL], CurrentURIMetaData |-> "given"]),
   RC("GetVolume", [Channel |-> "Master"]), RC("GetMute", [Channel |-> "Master"]),
   Mute("1"), Mute("false"), Volume(<<MaxVolume>>),
   RC("upnpRenderer_SetMediaPlayer", [MediaPlayerName |-> "PotPlayer"])}

(* ... and requests that are refused, or are close to it. *)
MCOdd ==
  {Seeks("REL_TIME", Target(<<0, -1>>, FALSE, 0)), Seeks("REL_TIME", Target(<<>>, FALSE, 0)),
   Seeks("TRACK_NR", Target(<<>>, TRUE, 1)), Seeks("ABS_COUNT", Target(<<1>>, TRUE, 1)),
   Volume(<<MaxVolume + 1>>), Volume(<<MaxULong + 1>>), Volume(<<>>), Volume(<<1, 0>>), Volume(<<-1>>),
   RC("GetVolume", [Channel |-> "LF"]), RC("GetVolume", [Channel |-> "Rear"]),
   RC("SetMute", [Channel |-> "LF", DesiredMute |-> "1"]),
   AV("Play", None), AV("Dance", None),
   [AV("Stop", None) EXCEPT !.malformed = TRUE], [AV("Pause", None) EXCEPT !.element = "Stop"],
   [AV("Pause", None) EXCEPT !.args["InstanceID"] = <<1>>],
   [AV("GetMediaInfo", None) EXCEPT !.args["InstanceID"] = <<>>],
   RC("ListPresets", None),
   Asks("ConnectionManager", "GetProtocolInfo", None),
   Asks("ConnectionManager", "GetCurrentConnectionInfo", [ConnectionID |-> <<1>>])}

MCRequest == MCControls \cup MCOdd
=============================================================================

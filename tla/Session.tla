------------------------------- MODULE Session --------------------------------
(***************************************************************************)
(* REAPER's sessions with the plugin, one process after the other          *)
(* (main.cpp, reaper_api.cpp, config.cpp, and start() of tcp_server.cpp):  *)
(* REAPER loads the plugin, which resolves REAPER's functions, registers   *)
(* its timer, loads reaserve.ini or writes it, and starts the server; then *)
(* commands run (Handlers), until the plugin is unloaded or crashes.  Of   *)
(* one session the next finds the file, which the user may edit.           *)
(*                                                                         *)
(* All of this is the main thread's.  Threads are TcpServer's matter.      *)
(***************************************************************************)
EXTENDS Handlers, Integers, FiniteSets, SequencesExt

CONSTANTS
    Installations,  \* REAPERs, as [version, lacks, files]: whether the version is
                    \* the plugin's, the functions it does not have, and the files
                    \* there may be by the user's hand
    Addresses,      \* what inet_pton reads, in the dotted form
    Ephemeral,      \* ports the kernel hands out for port 0
    MaxSessions     \* bound: sessions

(***************************************************************************)
(* A line of the file is [key, value].  A value is what the conversions    *)
(* make of it: the number stoi reads from its beginning, and the address   *)
(* inet_pton reads, each in a sequence that is empty if there is none.     *)
(* Lines without "=", comments and section names have the key "none".      *)
(***************************************************************************)
AllAddresses      == "0.0.0.0"
NumberText(n)     == [number |-> <<n>>, address |-> <<>>]
AddressText(n, a) == [number |-> <<n>>, address |-> <<a>>]

Keys == {"none", "port", "bind", "other"}

DefaultConfig == [bind |-> AddressText(0, AllAddresses), port |-> 9876]

\* What load_config writes when there is no file.  (Fault: another port.)
FaultyDefaultFile == <<[key |-> "port", value |-> NumberText(9867)]>>
DefaultFile ==
    <<[key |-> "none", value |-> NumberText(0)],
      [key |-> "port", value |-> NumberText(9876)],
      [key |-> "bind", value |-> AddressText(0, AllAddresses)]>>

\* The six functions the plugin does not load without, in the order they are
\* resolved, and the others.
Critical == <<"ShowConsoleMsg", "plugin_register", "GetResourcePath", "GetAppVersion",
              "AddRemoveReaScript", "Main_OnCommandEx">>

Optional ==
    {"GetProjectTimeSignature2", "GetCursorPosition", "GetPlayState", "SetEditCurPos",
     "GetProjectLength", "CountTracks", "GetTrack", "GetMediaTrackInfo_Value",
     "GetSetMediaTrackInfo_String", "SetMediaTrackInfo_Value", "InsertTrackAtIndex",
     "DeleteTrack", "GetMasterTrack", "CountMediaItems", "GetMediaItem",
     "CountTrackMediaItems", "GetMediaItem_Track", "GetTrackMediaItem",
     "GetMediaItemInfo_Value", "SetMediaItemInfo_Value", "CountSelectedMediaItems",
     "GetSelectedMediaItem", "SplitMediaItem", "DeleteTrackMediaItem",
     "AddMediaItemToTrack", "GetActiveTake", "GetSetMediaItemTakeInfo_String",
     "GetMediaItemTake_Source", "GetMediaSourceType", "TrackFX_GetCount",
     "TrackFX_GetFXName", "TrackFX_GetNumParams", "TrackFX_GetParam",
     "TrackFX_GetParamName", "TrackFX_SetParam", "TrackFX_AddByName", "TrackFX_Delete",
     "TrackFX_GetEnabled", "TrackFX_SetEnabled", "TrackFX_GetFormattedParamValue",
     "OnPlayButton", "OnStopButton", "OnPauseButton", "CSurf_OnRecord",
     "CreateNewMIDIItemInProj", "GetMediaItemTake", "MIDI_GetAllEvts", "MIDI_SetAllEvts",
     "MIDI_CountEvts", "MIDI_GetNote", "MIDI_InsertNote", "MIDI_DeleteNote", "MIDI_Sort",
     "MIDI_GetProjTimeFromPPQPos", "MIDI_GetPPQPosFromProjTime",
     "MIDI_GetProjQNFromPPQPos", "MIDI_GetPPQPosFromProjQN", "CountProjectMarkers",
     "EnumProjectMarkers", "AddProjectMarker", "DeleteProjectMarker", "GetTrackNumSends",
     "GetTrackSendInfo_Value", "SetTrackSendInfo_Value", "CreateTrackSend",
     "RemoveTrackSend", "GetTrackEnvelopeByName", "CountEnvelopePoints",
     "GetEnvelopePoint", "InsertEnvelopePoint", "DeleteEnvelopePointRange",
     "Envelope_SortPoints", "Undo_BeginBlock", "Undo_EndBlock", "UpdateArrange",
     "UpdateTimeline", "SetExtState", "GetExtState", "HasExtState", "DeleteExtState"}

\* The pointers reaper_api.h declares.
Functions == Range(Critical) \cup Optional

Values      == [number : Seq(Int), address : Seq(Addresses)]
Lines       == Seq([key : Keys, value : Values])
IsConfig(c) == c.port \in Int /\ c.bind \in Values

\* Ports there are to listen at, of the numbers of uint16_t.
NumbersOf16Bits == 65536
PortNumbers     == 1 .. NumbersOf16Bits - 1

ASSUME InstallationsAssumption ==
    \A h \in Installations :
        /\ h.version \in BOOLEAN
        /\ h.lacks \subseteq Functions
        /\ \A f \in h.files : f = <<>> \/ (Len(f) = 1 /\ f[1] \in Lines)
ASSUME AddressesAssumption == AllAddresses \in Addresses
ASSUME PortsAssumption == Ephemeral \subseteq PortNumbers /\ MaxSessions \in Nat \ {0}

VARIABLES
    host,       \* the installation
    file,       \* reaserve.ini: <<its lines>>, or <<>> if there is none
    session,    \* how many sessions have begun
    stage,      \* where the main thread is
    api,        \* the functions whose pointers are not null
    timer,      \* whether the timer is registered
    config,     \* what load_config returned: <<it>>, or <<>> before
    listening,  \* the socket's [address, port], in a sequence, <<>> if there is none
    told,       \* the port the console names, in a sequence, <<>> before
    method,     \* the command that runs, "none" between commands
    rest,       \* its steps that are left
    block,      \* whether an undo block is begun and not ended
    lost,       \* history: something its client asked for was left out
    read,       \* history: the lines load_config returned the configuration of
    settled     \* history: that configuration, until the file is edited

in_process == <<stage, api, timer, config, listening, told>>
in_command == <<method, rest, block, lost>>
vars == <<host, file, session, in_process, in_command, read, settled>>

\* A process before it loads the plugin: every pointer is null.
Unresolved == {}

Init ==
    /\ host \in Installations
    /\ file \in host.files
    /\ session = 1
    /\ stage = "off"
    /\ api = Unresolved
    /\ timer = FALSE
    /\ config = <<>>
    /\ listening = <<>>
    /\ told = <<>>
    /\ method = "none"
    /\ rest = <<>>
    /\ block = FALSE
    /\ lost = FALSE
    /\ read = <<>>
    /\ settled = <<>>

-----------------------------------------------------------------------------
(***************************************************************************)
(* ReaperPluginEntry loads the plugin.                                     *)
(***************************************************************************)
Load ==
    /\ stage = "off"
    /\ stage' = IF host.version THEN "resolving" ELSE "refused"
    /\ UNCHANGED <<host, file, session, api, timer, config, listening, told, in_command,
                   read, settled>>

\* REQUIRE, one function after the other; the first that is missing refuses.
Require ==
    /\ stage = "resolving"
    /\ Cardinality(api) < Len(Critical)
    /\ LET fn == Critical[Cardinality(api) + 1]
       IN  IF fn \in host.lacks THEN stage' = "refused" /\ UNCHANGED api
                               ELSE api' = api \cup {fn} /\ UNCHANGED stage
    /\ UNCHANGED <<host, file, session, timer, config, listening, told, in_command, read,
                   settled>>

\* RESOLVE, for the others; then the commands are registered.
Resolve ==
    /\ stage = "resolving"
    /\ Cardinality(api) = Len(Critical)
    /\ api' = api \cup (Optional \ host.lacks)
    /\ stage' = "resolved"
    /\ UNCHANGED <<host, file, session, timer, config, listening, told, in_command, read,
                   settled>>

\* What the entry calls next, by stage.
EntryCalls == [resolved |-> "plugin_register", registered |-> "GetResourcePath",
               configured |-> "ShowConsoleMsg"]

MayCall == EntryCalls[stage] \in api

RegisterTimer ==
    /\ stage = "resolved"
    /\ MayCall
    /\ timer' = TRUE
    /\ stage' = "registered"
    /\ UNCHANGED <<host, file, session, api, config, listening, told, in_command, read,
                   settled>>

\* A line that sets something.  A port that is no number is passed over.
\* (Fault: it is set to 0.)
FaultyJunkPort(c, line) ==
    CASE line.key = "port" -> [c EXCEPT !.port = IF line.value.number = <<>> THEN 0
                                                 ELSE line.value.number[1]]
      [] line.key = "bind" -> [c EXCEPT !.bind = line.value]
      [] OTHER             -> c
ConfigLine(c, line) ==
    CASE line.key = "port" /\ line.value.number # <<>>
                           -> [c EXCEPT !.port = line.value.number[1]]
      [] line.key = "bind" -> [c EXCEPT !.bind = line.value]
      [] OTHER             -> c

\* No file: the default one is written, or cannot be, or stays empty.
LoadConfig ==
    /\ stage = "registered"
    /\ MayCall
    /\ IF file = <<>>
       THEN /\ file' \in {<<>>, <<(<<>>)>>, <<DefaultFile>>}
            /\ read' = <<>>
       ELSE /\ read' = file[1]
            /\ UNCHANGED file
    /\ config' = <<FoldLeft(ConfigLine, DefaultConfig, read')>>
    /\ settled' = config'
    /\ stage' = "configured"
    /\ UNCHANGED <<host, session, api, timer, listening, told, in_command>>

\* static_cast<uint16_t>.  (Fault: it is left out.)
FaultyPort(n) == n
Port(n) == n % NumbersOf16Bits

\* sockaddr_in: an address inet_pton does not read leaves the zeros in place.
SocketAddress(c) ==
    [address |-> IF c.bind.address = <<>> THEN AllAddresses ELSE c.bind.address[1],
     port    |-> Port(c.port)]

\* start() succeeds; for port 0 the kernel chooses.
StartServer ==
    /\ stage = "configured"
    /\ MayCall
    /\ LET addr == SocketAddress(config[1])
       IN  \E p \in IF addr.port = 0 THEN Ephemeral ELSE {addr.port} :
               listening' = <<[addr EXCEPT !.port = p]>>
    /\ told' = <<config[1].port>>
    /\ stage' = "ready"
    /\ UNCHANGED <<host, file, session, api, timer, config, in_command, read, settled>>

\* It does not: the plugin stays loaded.
StartServerFails ==
    /\ stage = "configured"
    /\ MayCall
    /\ told' = <<config[1].port>>
    /\ stage' = "ready"
    /\ UNCHANGED <<host, file, session, api, timer, config, listening, in_command, read,
                   settled>>

-----------------------------------------------------------------------------
(***************************************************************************)
(* A command runs in the timer callback.  One that a function or a         *)
(* parameter is missing for is refused at its start, and nothing happens.  *)
(***************************************************************************)
CallCommand(h) ==
    /\ stage = "ready"
    /\ timer
    /\ listening # <<>>
    /\ h.needs \subseteq api
    /\ method' = h.method
    /\ rest' = h.calls
    /\ stage' = "running"
    /\ lost' = FALSE
    /\ UNCHANGED <<host, file, session, api, timer, config, listening, told, block, read,
                   settled>>

InCommand == stage \in {"running", "failing"} /\ rest # <<>>
Current   == Head(rest)
Reached   == InCommand /\ Current.given \subseteq api

command_only == <<host, file, session, api, timer, config, listening, told, read, settled>>

\* The step is not reached by what the command is given.
PassOver ==
    /\ InCommand
    /\ Current.may
    /\ rest' = Tail(rest)
    /\ UNCHANGED <<command_only, stage, method, block, lost>>

\* A function is missing, and the command goes on without it.
LeaveOut ==
    /\ InCommand
    /\ ~Reached \/ (Current.absent = "skip" /\ Current.fn \notin api)
    /\ rest' = Tail(rest)
    /\ lost' = (lost \/ Current.asked)
    /\ UNCHANGED <<command_only, stage, method, block>>

CallFunction ==
    /\ Reached
    /\ Current.fn \in api
    /\ block' = CASE Current.fn = "Undo_BeginBlock" -> TRUE
                  [] Current.fn = "Undo_EndBlock"   -> FALSE
                  [] OTHER                          -> block
    /\ \/ rest' = Tail(rest) /\ UNCHANGED stage
       \/ Current.cut /\ rest' = Unwound(Tail(rest)) /\ stage' = "failing"
    /\ UNCHANGED <<command_only, method, lost>>

ThrowException ==
    /\ Reached
    /\ Current.absent = "throw"
    /\ Current.fn \notin api
    /\ rest' = Unwound(Tail(rest))
    /\ stage' = "failing"
    /\ UNCHANGED <<command_only, method, block, lost>>

Return ==
    /\ stage \in {"running", "failing"}
    /\ rest = <<>>
    /\ stage' = "ready"
    /\ method' = "none"
    /\ lost' = FALSE
    /\ UNCHANGED <<command_only, rest, block>>

\* The main thread is at a call that it makes without a test.
Untested ==
    IF stage \in DOMAIN EntryCalls THEN {EntryCalls[stage]}
    ELSE IF Reached /\ Current.absent = "crash" THEN {Current.fn} ELSE {}

NullCall ==
    /\ Untested \ api # {}
    /\ stage' = "crashed"
    /\ UNCHANGED <<command_only, in_command>>

-----------------------------------------------------------------------------
(***************************************************************************)
(* The process ends, and another one begins; the user edits the file.      *)
(***************************************************************************)
NextSession ==
    /\ stage \in {"ready", "refused", "crashed"}
    /\ session < MaxSessions
    /\ session' = session + 1
    /\ stage' = "off"
    /\ api' = Unresolved
    /\ timer' = FALSE
    /\ config' = <<>>
    /\ listening' = <<>>
    /\ told' = <<>>
    /\ method' = "none"
    /\ rest' = <<>>
    /\ block' = FALSE
    /\ lost' = FALSE
    /\ UNCHANGED <<host, file, read, settled>>

EditFile ==
    /\ stage \in {"off", "ready"}
    /\ file' \in host.files \ {file}
    /\ settled' = <<>>
    /\ UNCHANGED <<host, session, in_process, in_command, read>>

Next ==
    \/ Load \/ Require \/ Resolve \/ RegisterTimer \/ LoadConfig
    \/ StartServer \/ StartServerFails
    \/ \E h \in Handlers : CallCommand(h)
    \/ PassOver \/ LeaveOut \/ CallFunction \/ ThrowException \/ Return \/ NullCall
    \/ NextSession \/ EditFile

Spec == Init /\ [][Next]_vars

-----------------------------------------------------------------------------
TypeOK ==
    /\ host \in Installations
    /\ file = <<>> \/ (Len(file) = 1 /\ file[1] \in Lines)
    /\ session \in 1 .. MaxSessions
    /\ stage \in {"off", "resolving", "resolved", "registered", "configured", "ready",
                  "running", "failing", "refused", "crashed"}
    /\ api \subseteq Functions \ host.lacks
    /\ timer \in BOOLEAN
    /\ config = <<>> \/ (Len(config) = 1 /\ IsConfig(config[1]))
    /\ listening \in Seq([address : Addresses, port : PortNumbers])
    /\ told \in Seq(Int)
    /\ method \in {"none"} \cup {h.method : h \in Handlers}
    /\ \A s \in Range(rest) : s.fn \in Functions \cup {NoFunction}
    /\ block \in BOOLEAN /\ lost \in BOOLEAN
    /\ read \in Lines
    /\ settled = <<>> \/ (Len(settled) = 1 /\ IsConfig(settled[1]))

(***************************************************************************)
(* The server listens where the file says: at the port of the last line    *)
(* that gives one and the address of the last that gives one, or at the    *)
(* defaults.  But a port that is none is taken modulo 2^16, and an address *)
(* that is none stands for all of the machine's; the console names the     *)
(* port of the file.                                                       *)
(***************************************************************************)
PortLines == {i \in DOMAIN read : read[i].key = "port" /\ read[i].value.number # <<>>}
BindLines == {i \in DOMAIN read : read[i].key = "bind"}
PortMeant == IF PortLines = {} THEN 9876 ELSE read[Max(PortLines)].value.number[1]
BindMeant == IF BindLines = {} THEN <<AllAddresses>> ELSE read[Max(BindLines)].value.address

ListensAsConfigured ==
    /\ told # <<>> => told = <<PortMeant>>
    /\ \A s \in Range(listening) :
           /\ PortMeant \in PortNumbers => s.port = PortMeant
           /\ s.address = IF BindMeant = <<>> THEN AllAddresses ELSE BindMeant[1]

(***************************************************************************)
(* A session that nobody edited the file before runs with the              *)
(* configuration of the one before it, which may have written the file, or *)
(* failed to, or found none.                                               *)
(***************************************************************************)
RestartKeeps ==
    [][stage = "registered" /\ stage' = "configured" /\ settled # <<>>
         => config' = settled]_vars

(***************************************************************************)
(* Whatever functions REAPER lacks, no null pointer is called, neither     *)
(* while the plugin is loaded nor in any command, except by two commands:  *)
(* project.get_state where tracks can be counted and not be had, and       *)
(* lua.execute_and_read where ExtState can be tested and not be read or    *)
(* deleted.                                                                *)
(***************************************************************************)
NullCallsOnlyAsKnown ==
    stage = "crashed" =>
        \/ method = "project.get_state" /\ "CountTracks" \in api /\ "GetTrack" \notin api
        \/ /\ method = "lua.execute_and_read"
           /\ "HasExtState" \in api
           /\ ~({"GetExtState", "DeleteExtState"} \subseteq api)

(***************************************************************************)
(* An undo block that a command began is ended when it returns, whichever  *)
(* of its calls or tests an exception came from, if REAPER can end blocks. *)
(***************************************************************************)
BlocksAreEnded == stage = "ready" /\ block => "Undo_EndBlock" \notin api

(***************************************************************************)
(* What a client asks for is done when success is reported, whatever       *)
(* functions REAPER lacks, but for four commands that pass over it:        *)
(* a track's name or property, a send's volume and pan, and notes placed   *)
(* in units that cannot be converted.                                      *)
(***************************************************************************)
LossesOnlyAsKnown ==
    stage = "running" /\ rest = <<>> /\ lost =>
        method \in {"track.add", "track.set_property", "routing.add_send",
                    "midi.insert_notes"}
=============================================================================

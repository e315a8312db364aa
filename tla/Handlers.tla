------------------------------- MODULE Handlers -------------------------------
(***************************************************************************)
(* The command handlers (commands/*.cpp) as users of REAPER's functions:   *)
(* which of them a handler tests before it starts, and which it calls, in  *)
(* order, with or without a test at the call.  REAPER may lack any of      *)
(* them.  What the calls do is the matter of ProjectCommands and           *)
(* LuaScripts.                                                             *)
(*                                                                         *)
(* Calls in a loop are given once: a second round calls nothing else.  So  *)
(* are calls of one function that follow each other.                       *)
(***************************************************************************)
EXTENDS Sequences

(***************************************************************************)
(* A step is a call of fn that is made if all of given are there.  absent  *)
(* is what happens when fn is not: a null pointer is called, the call is   *)
(* left out, or an exception is thrown.  may: the data decide whether the  *)
(* step is reached.  cut: the data decide whether an exception follows it. *)
(* asked: the call is what the client asked for, or a part of it.          *)
(***************************************************************************)
Step(fn, absent) ==
    <<[fn |-> fn, given |-> {}, absent |-> absent, may |-> FALSE, cut |-> FALSE,
       asked |-> FALSE]>>

Do(fn)       == Step(fn, "crash")
IfThere(fn)  == Step(fn, "skip")
Required(fn) == Step(fn, "throw")

NoFunction == "none"
Throw      == Required(NoFunction)

Given(tests, steps) == [i \in DOMAIN steps |-> [steps[i] EXCEPT !.given = @ \cup tests]]
Maybe(steps)        == [i \in DOMAIN steps |-> [steps[i] EXCEPT !.may = TRUE]]
Asked(steps)        == [i \in DOMAIN steps |-> [steps[i] EXCEPT !.asked = TRUE]]

\* A call that may find nothing, which ends the command.
OrFails(steps) == [i \in DOMAIN steps |-> [steps[i] EXCEPT !.cut = TRUE]]
Find(fn)       == OrFails(Do(fn))

Handler(method, needs, calls) == [method |-> method, needs |-> needs, calls |-> calls]

\* A handler with an UndoBlock, whose destructor makes the last call.
Edits(method, needs, before, inside) ==
    Handler(method, needs, before \o IfThere("Undo_BeginBlock") \o inside
                                \o IfThere("Undo_EndBlock"))

\* The steps left when an exception leaves the handler: the destructor's call,
\* if the block was begun.  (Fault: the call is the handler's last statement.)
FaultyUnwound(steps) == <<>>
Unwound(steps) ==
    IF /\ \E i \in DOMAIN steps : steps[i].fn = "Undo_EndBlock"
       /\ \A i \in DOMAIN steps : steps[i].fn # "Undo_BeginBlock"
      THEN IfThere("Undo_EndBlock") ELSE <<>>

Arranged == IfThere("UpdateArrange")

-----------------------------------------------------------------------------
(***************************************************************************)
(* ping.cpp, project.cpp, transport.cpp                                    *)
(***************************************************************************)
ping == Handler("ping", {}, <<>>)

project_get_state ==
    Handler("project.get_state", {},
        IfThere("GetProjectTimeSignature2") \o IfThere("CountTracks")
        \o IfThere("GetCursorPosition") \o IfThere("GetPlayState")
        \o IfThere("GetProjectLength")
        \o Given({"CountTracks"}, Maybe(
               Do("GetTrack") \o IfThere("GetSetMediaTrackInfo_String")
               \o IfThere("GetMediaTrackInfo_Value") \o IfThere("TrackFX_GetCount")
               \o IfThere("CountTrackMediaItems"))))

transport_get_state ==
    Handler("transport.get_state", {}, IfThere("GetPlayState") \o IfThere("GetCursorPosition"))

\* The function is tested when the action is known.
transport_control(button) == Handler("transport.control", {button}, Asked(Do(button)))
Buttons == {"OnPlayButton", "OnStopButton", "OnPauseButton", "CSurf_OnRecord"}

transport_set_cursor ==
    Handler("transport.set_cursor", {"SetEditCurPos"}, Asked(Do("SetEditCurPos")))

(***************************************************************************)
(* lua.cpp.  The script ends with an error, or without.                    *)
(***************************************************************************)
script_run == Maybe(Throw) \o Find("AddRemoveReaScript") \o Do("Main_OnCommandEx")
              \o Do("AddRemoveReaScript")

lua_execute == Handler("lua.execute", {}, script_run)

lua_execute_and_read(failed) ==
    LET stale  == IfThere("HasExtState") \o Given({"HasExtState"}, Maybe(Do("DeleteExtState")))
        error  == Do("GetExtState") \o Do("DeleteExtState") \o Do("HasExtState")
                  \o Maybe(Do("DeleteExtState"))
        output == OrFails(Required("HasExtState")) \o Do("GetExtState") \o Do("DeleteExtState")
    IN  Handler("lua.execute_and_read", {},
            stale \o script_run \o IfThere("HasExtState")
            \o (IF failed THEN Given({"HasExtState"}, error) \o Throw ELSE output))

(***************************************************************************)
(* tracks.cpp                                                              *)
(***************************************************************************)
track_add(named) ==
    Edits("track.add", {"InsertTrackAtIndex", "GetTrack", "CountTracks"},
        OrFails(Do("CountTracks")),
        Asked(Do("InsertTrackAtIndex"))
        \o (IF named THEN Do("GetTrack") \o Asked(Maybe(IfThere("GetSetMediaTrackInfo_String")))
                     ELSE <<>>)
        \o Arranged \o Do("CountTracks"))

track_remove ==
    Edits("track.remove", {"GetTrack", "DeleteTrack", "CountTracks"}, Find("GetTrack"),
        Asked(Do("DeleteTrack")) \o Arranged \o Do("CountTracks"))

\* The name is set by one function, the other properties by another.
track_set_property(setter) ==
    Edits("track.set_property", {"GetTrack"}, Find("GetTrack"),
        Maybe(Throw) \o Asked(IfThere(setter)) \o Arranged)

Setters == {"GetSetMediaTrackInfo_String", "SetMediaTrackInfo_Value"}

(***************************************************************************)
(* items.cpp                                                               *)
(***************************************************************************)
item_to_json ==
    IfThere("GetMediaItemInfo_Value") \o IfThere("GetActiveTake")
    \o Given({"GetActiveTake"}, Maybe(
           IfThere("GetSetMediaItemTakeInfo_String")
           \o Given({"GetMediaItemTake_Source", "GetMediaSourceType"},
                    Do("GetMediaItemTake_Source") \o Do("GetMediaSourceType"))))

items_get_selected ==
    LET track_index == {"GetMediaItem_Track", "CountTracks", "GetTrack"}
    IN  Handler("items.get_selected", {"CountSelectedMediaItems", "GetSelectedMediaItem"},
            Do("CountSelectedMediaItems")
            \o Maybe(Do("GetSelectedMediaItem") \o item_to_json
                     \o Given(track_index, Do("GetMediaItem_Track") \o Do("CountTracks")
                                           \o Do("GetTrack"))))

\* The items of one track, or of all.
item_list(one) ==
    LET items == Do("CountTrackMediaItems") \o Maybe(Do("GetTrackMediaItem") \o item_to_json)
    IN  Handler("item.list",
              {"CountTracks", "GetTrack", "CountTrackMediaItems", "GetTrackMediaItem"},
              IF one THEN Find("GetTrack") \o items
                     ELSE Do("CountTracks") \o Maybe(Do("GetTrack") \o items))

ItemNeeds(fn)   == {"GetTrack", "GetTrackMediaItem", fn}
ItemFound       == Find("GetTrack") \o Find("GetTrackMediaItem")
ItemEdit(m, fn) == Edits(m, ItemNeeds(fn), ItemFound, Asked(Do(fn)) \o Arranged)

\* (Fault: the function is tested at the call instead of at the start.)
FaultyItemMove == Edits("item.move", {"GetTrack", "GetTrackMediaItem"}, ItemFound,
                        Asked(IfThere("SetMediaItemInfo_Value")) \o Arranged)
item_move   == ItemEdit("item.move", "SetMediaItemInfo_Value")
item_resize == ItemEdit("item.resize", "SetMediaItemInfo_Value")
item_split  == ItemEdit("item.split", "SplitMediaItem")
item_delete == ItemEdit("item.delete", "DeleteTrackMediaItem")

(***************************************************************************)
(* fx.cpp                                                                  *)
(***************************************************************************)
fx_get_parameters ==
    Handler("fx.get_parameters", {"GetTrack", "TrackFX_GetCount", "TrackFX_GetNumParams"},
        Find("GetTrack") \o Find("TrackFX_GetCount") \o IfThere("TrackFX_GetFXName")
        \o IfThere("TrackFX_GetEnabled") \o Do("TrackFX_GetNumParams")
        \o Maybe(IfThere("TrackFX_GetParam") \o IfThere("TrackFX_GetParamName")
                 \o IfThere("TrackFX_GetFormattedParamValue")))

FxEdit(m, fn, after) == Edits(m, {"GetTrack", fn}, Find("GetTrack"), Asked(Do(fn)) \o after)

fx_add           == FxEdit("fx.add", "TrackFX_AddByName", Arranged)
fx_remove        == FxEdit("fx.remove", "TrackFX_Delete", Arranged)
fx_set_parameter == FxEdit("fx.set_parameter", "TrackFX_SetParam", <<>>)
fx_enable        == FxEdit("fx.enable", "TrackFX_SetEnabled", <<>>)
fx_disable       == FxEdit("fx.disable", "TrackFX_SetEnabled", <<>>)

(***************************************************************************)
(* midi.cpp.  Notes go into an item there is, or into a new one; their     *)
(* positions may be given in a unit that a function has to convert, and    *)
(* are passed over when there is none.                                     *)
(***************************************************************************)
midi_get_notes ==
    Handler("midi.get_notes",
        {"GetTrack", "GetTrackMediaItem", "GetActiveTake", "MIDI_CountEvts"},
        Find("GetTrack") \o Find("GetTrackMediaItem") \o Find("GetActiveTake")
        \o Do("MIDI_CountEvts")
        \o Maybe(IfThere("MIDI_GetNote") \o IfThere("MIDI_GetProjTimeFromPPQPos")
                 \o IfThere("MIDI_GetProjQNFromPPQPos")))

Units == {"MIDI_GetPPQPosFromProjQN", "MIDI_GetPPQPosFromProjTime"}

midi_insert_notes(source, unit) ==
    Edits("midi.insert_notes", {"GetTrack", "MIDI_InsertNote"}, Find("GetTrack"),
        Maybe(Throw) \o OrFails(Required(source)) \o OrFails(Required("GetActiveTake"))
        \o Asked(Maybe(IfThere(unit))) \o OrFails(Maybe(Do("MIDI_InsertNote")))
        \o IfThere("MIDI_Sort") \o Arranged)

Sources == {"GetTrackMediaItem", "CreateNewMIDIItemInProj"}

(***************************************************************************)
(* markers.cpp                                                             *)
(***************************************************************************)
marker_list ==
    Handler("marker.list", {"CountProjectMarkers", "EnumProjectMarkers"},
        Do("CountProjectMarkers") \o Maybe(Do("EnumProjectMarkers")))

MarkerEdit(m, fn) == Edits(m, {fn}, <<>>, Asked(Do(fn)) \o IfThere("UpdateTimeline"))

marker_add    == MarkerEdit("marker.add", "AddProjectMarker")
marker_remove == MarkerEdit("marker.remove", "DeleteProjectMarker")

(***************************************************************************)
(* routing.cpp                                                             *)
(***************************************************************************)
routing_list_sends ==
    Handler("routing.list_sends", {"GetTrack", "GetTrackNumSends", "GetTrackSendInfo_Value"},
        Find("GetTrack") \o Do("GetTrackNumSends")
        \o Maybe(Do("GetTrackSendInfo_Value")))

\* A volume or pan is set, or found to be no number.  (Fault: the setter is not
\* tested.)
FaultySetterUntested == Maybe(Throw) \o OrFails(Do("SetTrackSendInfo_Value"))
SendValues ==
    Given({"SetTrackSendInfo_Value"}, Maybe(Throw))
    \o Asked(OrFails(IfThere("SetTrackSendInfo_Value")))

routing_add_send(valued) ==
    Edits("routing.add_send", {"GetTrack", "CreateTrackSend"}, Find("GetTrack"),
        Asked(Do("CreateTrackSend")) \o (IF valued THEN Maybe(SendValues) ELSE <<>>))

routing_remove_send ==
    Edits("routing.remove_send", {"GetTrack", "RemoveTrackSend"}, Find("GetTrack"),
        Asked(Do("RemoveTrackSend")))

(***************************************************************************)
(* envelope.cpp                                                            *)
(***************************************************************************)
EnvelopeNeeds(fn) == {"GetTrack", "GetTrackEnvelopeByName", fn}
EnvelopeFound     == Find("GetTrack") \o Find("GetTrackEnvelopeByName")

envelope_list ==
    Handler("envelope.list", EnvelopeNeeds("CountEnvelopePoints"),
        EnvelopeFound \o Do("CountEnvelopePoints") \o Maybe(IfThere("GetEnvelopePoint")))

envelope_add_point ==
    Edits("envelope.add_point", EnvelopeNeeds("InsertEnvelopePoint"), EnvelopeFound,
        Asked(Do("InsertEnvelopePoint")) \o IfThere("Envelope_SortPoints") \o Arranged)

-----------------------------------------------------------------------------
\* The commands register_ping to register_envelope register.
Handlers ==
    {ping, project_get_state, transport_get_state, transport_set_cursor, lua_execute,
     track_remove, items_get_selected, item_move, item_resize, item_split, item_delete,
     fx_get_parameters, fx_add, fx_remove, fx_set_parameter, fx_enable, fx_disable,
     midi_get_notes, marker_list, marker_add, marker_remove, routing_list_sends,
     routing_remove_send, envelope_list, envelope_add_point}
    \cup {transport_control(b) : b \in Buttons}
    \cup {lua_execute_and_read(b) : b \in BOOLEAN} \cup {track_add(b) : b \in BOOLEAN}
    \cup {item_list(b) : b \in BOOLEAN} \cup {routing_add_send(b) : b \in BOOLEAN}
    \cup {track_set_property(s) : s \in Setters}
    \cup {midi_insert_notes(s, u) : s \in Sources, u \in Units}

=============================================================================

---------------------------- MODULE SessionProofs -----------------------------
(***************************************************************************)
(* Session for every set of installations: of REAPERs with whatever        *)
(* functions missing, whose users write whatever files.                    *)
(***************************************************************************)
EXTENDS Session, FoldLemmas, FiniteSetTheorems, SequenceTheorems

-----------------------------------------------------------------------------
(***************************************************************************)
(* What every step of every handler is.                                    *)
(***************************************************************************)
Begin == "Undo_BeginBlock"
End   == "Undo_EndBlock"

\* The functions handlers name, but for those of undo blocks.
Names == (Functions \cup {NoFunction}) \ {Begin, End}

Steps == [fn : Functions \cup {NoFunction}, given : SUBSET Names,
          absent : {"crash", "skip", "throw"}, may : BOOLEAN, cut : BOOLEAN, asked : BOOLEAN]

Lossy == {"track.add", "track.set_property", "routing.add_send", "midi.insert_notes"}

\* A function called without a test at the call has been tested before, or is
\* one of those that two commands do not test.
Tested(s, m, needs) ==
    s.absent = "crash" =>
        \/ s.fn \in needs \cup s.given
        \/ s.fn \in Range(Critical)
        \/ m = "project.get_state" /\ s.fn = "GetTrack" /\ "CountTracks" \in s.given
        \/ m = "lua.execute_and_read" /\ s.fn \in {"GetExtState", "DeleteExtState"}

\* What a client asks for is under no test of a function, but in four commands.
Heeded(s, m) == s.asked => m \in Lossy \/ (s.absent # "skip" /\ s.given = {})

Fit(m, needs)   == {s \in Steps : Tested(s, m, needs) /\ Heeded(s, m)}
Inner(m, needs) == {s \in Fit(m, needs) : s.fn \notin {Begin, End}}
Quiet(m, needs) == {s \in Inner(m, needs) : ~s.asked}

\* There is one undo block at most, and its end is the last step.
Bracketed(steps) ==
    /\ \A i \in 1 .. Len(steps) :
          steps[i].fn = End => i = Len(steps) /\ <<steps[i]>> = IfThere(End)
    /\ \A i \in 1 .. Len(steps) :
          steps[i].fn = Begin =>
              /\ i # Len(steps) /\ steps[Len(steps)].fn = End
              /\ \A j \in 1 .. Len(steps) : steps[j].fn = Begin => j = i

\* lua.execute_and_read uses ExtState after a test that it can be tested, which
\* comes before or is the step's own.
TestsExtState(s) == s.fn = "HasExtState" /\ s.absent = "throw" /\ ~s.may /\ s.given = {}

AfterTest(steps) ==
    \A i \in 1 .. Len(steps) :
        steps[i].absent = "crash" /\ steps[i].fn \in {"GetExtState", "DeleteExtState"}
            => \/ "HasExtState" \in steps[i].given
               \/ \E j \in 1 .. i - 1 : TestsExtState(steps[j])

Sound(h) ==
    /\ h.calls \in Seq(Fit(h.method, h.needs))
    /\ Bracketed(h.calls)
    /\ h.method = "lua.execute_and_read" => AfterTest(h.calls)

-----------------------------------------------------------------------------
(***************************************************************************)
(* The forms of steps.                                                     *)
(***************************************************************************)
LEMMA Named ==
    /\ "AddProjectMarker" \in Names
    /\ "AddRemoveReaScript" \in Names
    /\ "CSurf_OnRecord" \in Names
    /\ "CountEnvelopePoints" \in Names
    /\ "CountProjectMarkers" \in Names
    /\ "CountSelectedMediaItems" \in Names
    /\ "CountTrackMediaItems" \in Names
    /\ "CountTracks" \in Names
    /\ "CreateNewMIDIItemInProj" \in Names
    /\ "CreateTrackSend" \in Names
    /\ "DeleteExtState" \in Names
    /\ "DeleteProjectMarker" \in Names
    /\ "DeleteTrack" \in Names
    /\ "DeleteTrackMediaItem" \in Names
    /\ "EnumProjectMarkers" \in Names
    /\ "Envelope_SortPoints" \in Names
    /\ "GetActiveTake" \in Names
    /\ "GetCursorPosition" \in Names
    /\ "GetEnvelopePoint" \in Names
    /\ "GetExtState" \in Names
    /\ "GetMediaItemInfo_Value" \in Names
    /\ "GetMediaItemTake_Source" \in Names
    /\ "GetMediaItem_Track" \in Names
    /\ "GetMediaSourceType" \in Names
    /\ "GetMediaTrackInfo_Value" \in Names
    /\ "GetPlayState" \in Names
    /\ "GetProjectLength" \in Names
    /\ "GetProjectTimeSignature2" \in Names
    /\ "GetSelectedMediaItem" \in Names
    /\ "GetSetMediaItemTakeInfo_String" \in Names
    /\ "GetSetMediaTrackInfo_String" \in Names
    /\ "GetTrack" \in Names
    /\ "GetTrackEnvelopeByName" \in Names
    /\ "GetTrackMediaItem" \in Names
    /\ "GetTrackNumSends" \in Names
    /\ "GetTrackSendInfo_Value" \in Names
    /\ "HasExtState" \in Names
    /\ "InsertEnvelopePoint" \in Names
    /\ "InsertTrackAtIndex" \in Names
    /\ "MIDI_CountEvts" \in Names
    /\ "MIDI_GetNote" \in Names
    /\ "MIDI_GetPPQPosFromProjQN" \in Names
    /\ "MIDI_GetPPQPosFromProjTime" \in Names
    /\ "MIDI_GetProjQNFromPPQPos" \in Names
    /\ "MIDI_GetProjTimeFromPPQPos" \in Names
    /\ "MIDI_InsertNote" \in Names
    /\ "MIDI_Sort" \in Names
    /\ "Main_OnCommandEx" \in Names
    /\ "OnPauseButton" \in Names
    /\ "OnPlayButton" \in Names
    /\ "OnStopButton" \in Names
    /\ "RemoveTrackSend" \in Names
    /\ "SetEditCurPos" \in Names
    /\ "SetMediaItemInfo_Value" \in Names
    /\ "SetMediaTrackInfo_Value" \in Names
    /\ "SetTrackSendInfo_Value" \in Names
    /\ "SplitMediaItem" \in Names
    /\ "TrackFX_AddByName" \in Names
    /\ "TrackFX_Delete" \in Names
    /\ "TrackFX_GetCount" \in Names
    /\ "TrackFX_GetEnabled" \in Names
    /\ "TrackFX_GetFXName" \in Names
    /\ "TrackFX_GetFormattedParamValue" \in Names
    /\ "TrackFX_GetNumParams" \in Names
    /\ "TrackFX_GetParam" \in Names
    /\ "TrackFX_GetParamName" \in Names
    /\ "TrackFX_SetEnabled" \in Names
    /\ "TrackFX_SetParam" \in Names
    /\ "UpdateTimeline" \in Names
    /\ "UpdateArrange" \in Names
    /\ NoFunction \in Names
  BY DEF Names, Functions, Optional, Begin, End, NoFunction, Critical, Range

LEMMA Both == \A S, a, b : a \in Seq(S) /\ b \in Seq(S) => a \o b \in Seq(S)
  BY ConcatProperties

IsJoined(c, a, b) ==
    /\ Len(c) = Len(a) + Len(b)
    /\ \A i \in 1 .. Len(a) : c[i] = a[i]
    /\ \A i \in 1 .. Len(b) : c[Len(a) + i] = b[i]

LEMMA Joins == \A S, a, b : a \in Seq(S) /\ b \in Seq(S) => IsJoined(a \o b, a, b)
  BY DEF IsJoined

LEMMA StepFits ==
    ASSUME NEW fn \in Names, NEW m, NEW needs
    PROVE  /\ fn \in needs \cup Range(Critical)
                  \/ (m = "lua.execute_and_read" /\ fn \in {"GetExtState", "DeleteExtState"})
                => Do(fn) \in Seq(Quiet(m, needs))
           /\ IfThere(fn) \in Seq(Quiet(m, needs))
           /\ Required(fn) \in Seq(Quiet(m, needs))
<1> DEFINE s(absent) == [fn |-> fn, given |-> {}, absent |-> absent, may |-> FALSE,
                         cut |-> FALSE, asked |-> FALSE]
<1>1. \A absent \in {"crash", "skip", "throw"} :
         s(absent) \in Steps /\ s(absent).fn \notin {Begin, End}
  BY DEF Steps, Names
<1>2. s("skip") \in Quiet(m, needs) /\ s("throw") \in Quiet(m, needs)
  BY <1>1 DEF Quiet, Inner, Fit, Tested, Heeded
<1>3. fn \in needs \cup Range(Critical)
          \/ (m = "lua.execute_and_read" /\ fn \in {"GetExtState", "DeleteExtState"})
         => s("crash") \in Quiet(m, needs)
  BY <1>1 DEF Quiet, Inner, Fit, Tested, Heeded
<1>4. Do(fn) = <<s("crash")>> /\ IfThere(fn) = <<s("skip")>> /\ Required(fn) = <<s("throw")>>
  BY DEF Do, IfThere, Required, Step
<1> HIDE DEF s
<1> QED
  BY <1>2, <1>3, <1>4


LEMMA MaybeFits ==
    ASSUME NEW m, NEW needs, NEW steps \in Seq(Quiet(m, needs))
    PROVE  Maybe(steps) \in Seq(Quiet(m, needs)) /\ OrFails(steps) \in Seq(Quiet(m, needs))
<1>1. ASSUME NEW s \in Quiet(m, needs)
      PROVE  /\ [s EXCEPT !.may = TRUE] \in Quiet(m, needs)
             /\ [s EXCEPT !.cut = TRUE] \in Quiet(m, needs)
  BY DEF Quiet, Inner, Fit, Tested, Heeded, Steps
<1>2. DOMAIN steps = 1 .. Len(steps) /\ \A i \in 1 .. Len(steps) : steps[i] \in Quiet(m, needs)
  OBVIOUS
<1>3. Maybe(steps) \in Seq(Quiet(m, needs))
  <2> DEFINE g(i) == [steps[i] EXCEPT !.may = TRUE]
  <2>1. Maybe(steps) = [i \in 1 .. Len(steps) |-> g(i)]
    BY <1>2 DEF Maybe
  <2>2. \A i \in 1 .. Len(steps) : g(i) \in Quiet(m, needs)
    BY <1>1, <1>2
  <2> HIDE DEF g
  <2> QED
    BY <2>1, <2>2
<1>4. OrFails(steps) \in Seq(Quiet(m, needs))
  <2> DEFINE g(i) == [steps[i] EXCEPT !.cut = TRUE]
  <2>1. OrFails(steps) = [i \in 1 .. Len(steps) |-> g(i)]
    BY <1>2 DEF OrFails
  <2>2. \A i \in 1 .. Len(steps) : g(i) \in Quiet(m, needs)
    BY <1>1, <1>2
  <2> HIDE DEF g
  <2> QED
    BY <2>1, <2>2
<1> QED
  BY <1>3, <1>4

LEMMA AskedFits ==
    ASSUME NEW m, NEW needs, NEW steps \in Seq(Quiet(m, needs)),
           \/ m \in Lossy
           \/ \A i \in 1 .. Len(steps) : steps[i].absent # "skip" /\ steps[i].given = {}
    PROVE  Asked(steps) \in Seq(Inner(m, needs))
<1>1. ASSUME NEW s \in Quiet(m, needs), m \in Lossy \/ (s.absent # "skip" /\ s.given = {})
      PROVE  [s EXCEPT !.asked = TRUE] \in Inner(m, needs)
  BY <1>1 DEF Quiet, Inner, Fit, Tested, Heeded, Steps
<1>2. DOMAIN steps = 1 .. Len(steps) /\ \A i \in 1 .. Len(steps) : steps[i] \in Quiet(m, needs)
  OBVIOUS
<1> DEFINE g(i) == [steps[i] EXCEPT !.asked = TRUE]
<1>3. Asked(steps) = [i \in 1 .. Len(steps) |-> g(i)]
  BY <1>2 DEF Asked
<1>4. \A i \in 1 .. Len(steps) : g(i) \in Inner(m, needs)
  BY <1>1, <1>2
<1> HIDE DEF g
<1> QED
  BY <1>3, <1>4

LEMMA GivenFits ==
    \A m, needs, tests, steps :
        tests \in SUBSET Names /\ steps \in Seq(Quiet(m, needs \cup tests))
            => Given(tests, steps) \in Seq(Quiet(m, needs))
<1> SUFFICES ASSUME NEW m, NEW needs, NEW tests \in SUBSET Names,
                    NEW steps \in Seq(Quiet(m, needs \cup tests))
             PROVE  Given(tests, steps) \in Seq(Quiet(m, needs))
  OBVIOUS
<1>1. ASSUME NEW s \in Quiet(m, needs \cup tests)
      PROVE  [s EXCEPT !.given = @ \cup tests] \in Quiet(m, needs)
  BY DEF Quiet, Inner, Fit, Tested, Heeded, Steps
<1>2. DOMAIN steps = 1 .. Len(steps)
      /\ \A i \in 1 .. Len(steps) : steps[i] \in Quiet(m, needs \cup tests)
  OBVIOUS
<1> DEFINE g(i) == [steps[i] EXCEPT !.given = @ \cup tests]
<1>3. Given(tests, steps) = [i \in 1 .. Len(steps) |-> g(i)]
  BY <1>2 DEF Given
<1>4. \A i \in 1 .. Len(steps) : g(i) \in Quiet(m, needs)
  BY <1>1, <1>2
<1> HIDE DEF g
<1> QED
  BY <1>3, <1>4

\* project.get_state counts the tracks before it has one.
LEMMA GivenTracks ==
    ASSUME NEW steps \in Seq(Quiet("project.get_state", {"GetTrack"}))
    PROVE  Given({"CountTracks"}, steps) \in Seq(Quiet("project.get_state", {}))
<1>1. ASSUME NEW s \in Quiet("project.get_state", {"GetTrack"})
      PROVE  [s EXCEPT !.given = @ \cup {"CountTracks"}] \in Quiet("project.get_state", {})
  <2> DEFINE t == [s EXCEPT !.given = @ \cup {"CountTracks"}]
  <2>1. /\ s \in Steps /\ s.fn \notin {Begin, End} /\ ~s.asked
        /\ s.absent = "crash" => \/ s.fn \in {"GetTrack"} \cup s.given
                                 \/ s.fn \in Range(Critical)
    BY DEF Quiet, Inner, Fit, Tested
  <2>2. /\ t \in Steps /\ t.fn = s.fn /\ t.absent = s.absent /\ t.asked = s.asked
        /\ t.given = s.given \cup {"CountTracks"}
    BY <2>1, Named DEF Steps
  <2> HIDE DEF t
  <2>3. Tested(t, "project.get_state", {})
    BY <2>1, <2>2 DEF Tested
  <2> QED
    BY <2>1, <2>2, <2>3 DEF Quiet, Inner, Fit, Heeded, t
<1>2. DOMAIN steps = 1 .. Len(steps)
      /\ \A i \in 1 .. Len(steps) : steps[i] \in Quiet("project.get_state", {"GetTrack"})
  OBVIOUS
<1> DEFINE g(i) == [steps[i] EXCEPT !.given = @ \cup {"CountTracks"}]
<1>3. Given({"CountTracks"}, steps) = [i \in 1 .. Len(steps) |-> g(i)]
  BY <1>2 DEF Given
<1>4. \A i \in 1 .. Len(steps) : g(i) \in Quiet("project.get_state", {})
  BY <1>1, <1>2
<1> HIDE DEF g
<1> QED
  BY <1>3, <1>4

\* The same as facts to build handlers with.
LEMMA Calls ==
    \A m, needs, fn : fn \in Names =>
        /\ IfThere(fn) \in Seq(Quiet(m, needs))
        /\ Required(fn) \in Seq(Quiet(m, needs))
        /\ fn \in needs \/ fn \in Range(Critical)
              \/ (m = "lua.execute_and_read" /\ fn \in {"GetExtState", "DeleteExtState"})
             => /\ Do(fn) \in Seq(Quiet(m, needs))
                /\ Find(fn) \in Seq(Quiet(m, needs))
                /\ Asked(Do(fn)) \in Seq(Inner(m, needs))
<1> SUFFICES ASSUME NEW m, NEW needs, NEW fn \in Names
             PROVE  /\ IfThere(fn) \in Seq(Quiet(m, needs))
                    /\ Required(fn) \in Seq(Quiet(m, needs))
                    /\ fn \in needs \/ fn \in Range(Critical)
                          \/ (/\ m = "lua.execute_and_read"
                              /\ fn \in {"GetExtState", "DeleteExtState"})
                         => /\ Do(fn) \in Seq(Quiet(m, needs))
                            /\ Find(fn) \in Seq(Quiet(m, needs))
                            /\ Asked(Do(fn)) \in Seq(Inner(m, needs))
  OBVIOUS
<1>1. IfThere(fn) \in Seq(Quiet(m, needs)) /\ Required(fn) \in Seq(Quiet(m, needs))
  BY StepFits
<1>2. ASSUME fn \in needs \/ fn \in Range(Critical)
                \/ (m = "lua.execute_and_read" /\ fn \in {"GetExtState", "DeleteExtState"})
      PROVE  Do(fn) \in Seq(Quiet(m, needs))
  BY <1>2, StepFits
<1>3. ASSUME Do(fn) \in Seq(Quiet(m, needs))
      PROVE  Find(fn) \in Seq(Quiet(m, needs)) /\ Asked(Do(fn)) \in Seq(Inner(m, needs))
  <2>1. \A i \in 1 .. Len(Do(fn)) : Do(fn)[i].absent # "skip" /\ Do(fn)[i].given = {}
    BY DEF Do, Step
  <2>2. Asked(Do(fn)) \in Seq(Inner(m, needs))
    BY <1>3, <2>1, AskedFits
  <2> QED
    BY <1>3, <2>2, MaybeFits DEF Find
<1> QED
  BY <1>1, <1>2, <1>3

LEMMA Marks ==
    \A m, needs, steps : steps \in Seq(Quiet(m, needs)) =>
        /\ Maybe(steps) \in Seq(Quiet(m, needs))
        /\ OrFails(steps) \in Seq(Quiet(m, needs))
        /\ steps \in Seq(Inner(m, needs))
        /\ m \in Lossy => Asked(steps) \in Seq(Inner(m, needs))
<1> SUFFICES ASSUME NEW m, NEW needs, NEW steps \in Seq(Quiet(m, needs))
             PROVE  /\ Maybe(steps) \in Seq(Quiet(m, needs))
                    /\ OrFails(steps) \in Seq(Quiet(m, needs))
                    /\ steps \in Seq(Inner(m, needs))
                    /\ m \in Lossy => Asked(steps) \in Seq(Inner(m, needs))
  OBVIOUS
<1>1. Quiet(m, needs) \subseteq Inner(m, needs)
  BY DEF Quiet
<1> QED
  BY <1>1, MaybeFits, AskedFits

LEMMA MaybeInner ==
    \A m, needs, steps : steps \in Seq(Inner(m, needs)) => Maybe(steps) \in Seq(Inner(m, needs))
<1> SUFFICES ASSUME NEW m, NEW needs, NEW steps \in Seq(Inner(m, needs))
             PROVE  Maybe(steps) \in Seq(Inner(m, needs))
  OBVIOUS
<1>1. ASSUME NEW s \in Inner(m, needs)
      PROVE  [s EXCEPT !.may = TRUE] \in Inner(m, needs)
  BY DEF Inner, Fit, Tested, Heeded, Steps
<1>2. DOMAIN steps = 1 .. Len(steps) /\ \A i \in 1 .. Len(steps) : steps[i] \in Inner(m, needs)
  OBVIOUS
<1> DEFINE g(i) == [steps[i] EXCEPT !.may = TRUE]
<1>3. Maybe(steps) = [i \in 1 .. Len(steps) |-> g(i)]
  BY <1>2 DEF Maybe
<1>4. \A i \in 1 .. Len(steps) : g(i) \in Inner(m, needs)
  BY <1>1, <1>2
<1> HIDE DEF g
<1> QED
  BY <1>3, <1>4

LEMMA NoSteps == \A S : <<>> \in Seq(S)
  OBVIOUS

\* A handler without an undo block, and one with.
LEMMA Blockless ==
    \A m, needs : \A calls \in Seq(Inner(m, needs)) :
        calls \in Seq(Fit(m, needs)) /\ Bracketed(calls)
<1> SUFFICES ASSUME NEW m, NEW needs, NEW calls \in Seq(Inner(m, needs))
             PROVE  calls \in Seq(Fit(m, needs)) /\ Bracketed(calls)
  OBVIOUS
<1>1. calls \in Seq(Fit(m, needs))
  <2>1. Inner(m, needs) \subseteq Fit(m, needs)
    BY DEF Inner
  <2> QED
    BY <2>1
<1>2. \A i \in 1 .. Len(calls) : calls[i].fn \notin {Begin, End}
  BY DEF Inner
<1> QED
  BY <1>1, <1>2 DEF Bracketed

LEMMA HandlerSound ==
    \A m, needs, calls :
        m # "lua.execute_and_read" /\ calls \in Seq(Inner(m, needs))
            => Sound(Handler(m, needs, calls))
<1> SUFFICES ASSUME NEW m, NEW needs, NEW calls \in Seq(Inner(m, needs)),
                    m # "lua.execute_and_read"
             PROVE  Sound(Handler(m, needs, calls))
  OBVIOUS
<1>1. calls \in Seq(Fit(m, needs)) /\ Bracketed(calls)
  BY Blockless, Zenon
<1> QED
  BY <1>1 DEF Sound, Handler

LEMMA LuaHandlerSound ==
    \A m, needs, calls :
        calls \in Seq(Inner(m, needs)) /\ AfterTest(calls) => Sound(Handler(m, needs, calls))
<1> SUFFICES ASSUME NEW m, NEW needs, NEW calls \in Seq(Inner(m, needs)), AfterTest(calls)
             PROVE  Sound(Handler(m, needs, calls))
  OBVIOUS
<1>1. calls \in Seq(Fit(m, needs)) /\ Bracketed(calls)
  BY Blockless, Zenon
<1> QED
  BY <1>1 DEF Sound, Handler

LEMMA EditsSound ==
    \A m, needs, before, inside :
        /\ m # "lua.execute_and_read"
        /\ before \in Seq(Inner(m, needs))
        /\ inside \in Seq(Inner(m, needs))
      => Sound(Edits(m, needs, before, inside))
<1> SUFFICES ASSUME NEW m, NEW needs, NEW before \in Seq(Inner(m, needs)),
                    NEW inside \in Seq(Inner(m, needs)), m # "lua.execute_and_read"
             PROVE  Sound(Edits(m, needs, before, inside))
  OBVIOUS
<1> DEFINE b == IfThere(Begin)
           e == IfThere(End)
           x == before \o b
           y == x \o inside
           z == y \o e
<1>1. b \in Seq(Fit(m, needs)) /\ e \in Seq(Fit(m, needs))
  <2>1. Begin \in Functions /\ End \in Functions
    BY DEF Begin, End, Functions, Optional
  <2> QED
    BY <2>1 DEF IfThere, Step, Fit, Steps, Tested, Heeded
<1>2. Len(b) = 1 /\ Len(e) = 1 /\ b[1].fn = Begin /\ e[1].fn = End /\ <<e[1]>> = e
  BY DEF IfThere, Step
<1>3. before \in Seq(Fit(m, needs)) /\ inside \in Seq(Fit(m, needs))
  <2>1. Inner(m, needs) \subseteq Fit(m, needs)
    BY DEF Inner
  <2> QED
    BY <2>1
<1>4. /\ \A i \in 1 .. Len(before) : before[i].fn \notin {Begin, End}
      /\ \A i \in 1 .. Len(inside) : inside[i].fn \notin {Begin, End}
      /\ Len(before) \in Nat /\ Len(inside) \in Nat
  BY DEF Inner
<1>5. Begin # End
  BY DEF Begin, End
<1> DEFINE p == Len(before)
           q == Len(inside)
<1> HIDE DEF b, e
<1>6. x \in Seq(Fit(m, needs)) /\ IsJoined(x, before, b)
  BY <1>1, <1>3, Both, Joins, Zenon
<1> HIDE DEF x
<1>7. y \in Seq(Fit(m, needs)) /\ IsJoined(y, x, inside)
  BY <1>3, <1>6, Both, Joins, Zenon
<1> HIDE DEF y
<1>8. z \in Seq(Fit(m, needs)) /\ IsJoined(z, y, e)
  BY <1>1, <1>7, Both, Joins, Zenon
<1> HIDE DEF z
<1>9. /\ Len(z) = p + q + 2
      /\ z[p + q + 2] = e[1]
      /\ \A i \in 1 .. p : z[i].fn \notin {Begin, End}
      /\ z[p + 1].fn = Begin
      /\ \A i \in 1 .. q : z[p + 1 + i].fn \notin {Begin, End}
  <2>1. /\ \A i \in 1 .. p : i \in 1 .. p + 1 /\ i \in 1 .. p + 1 + q
        /\ p + 1 \in 1 .. p + 1 /\ p + 1 \in 1 .. p + 1 + q
        /\ \A i \in 1 .. q : p + 1 + i \in 1 .. p + 1 + q
        /\ 1 \in 1 .. 1 /\ p + 1 + q + 1 = p + q + 2
    BY <1>4
  <2> HIDE DEF p, q
  <2>2. Len(x) = p + 1 /\ (\A i \in 1 .. p : x[i] = before[i]) /\ x[p + 1] = b[1]
    BY <1>2, <1>6, <2>1 DEF IsJoined, p
  <2>3. Len(y) = p + 1 + q /\ (\A i \in 1 .. p + 1 : y[i] = x[i])
        /\ \A i \in 1 .. q : y[p + 1 + i] = inside[i]
    BY <1>7, <2>2 DEF IsJoined, q
  <2>4. Len(z) = p + q + 2 /\ (\A i \in 1 .. p + 1 + q : z[i] = y[i]) /\ z[p + q + 2] = e[1]
    BY <1>2, <1>8, <2>1, <2>3 DEF IsJoined
  <2> QED
    BY <1>2, <1>4, <2>1, <2>2, <2>3, <2>4 DEF p, q
<1>10. ASSUME NEW i \in 1 .. p + q + 2
       PROVE  \/ i \in 1 .. p
              \/ i = p + 1
              \/ i = p + q + 2
              \/ i - (p + 1) \in 1 .. q /\ i = p + 1 + (i - (p + 1))
  BY <1>4
<1>11. ASSUME NEW i \in 1 .. p + q + 2
       PROVE  /\ z[i].fn = Begin => i = p + 1
              /\ z[i].fn = End => i = p + q + 2
  <2> HIDE DEF p, q
  <2>1. CASE i \in 1 .. p
    BY <1>9, <2>1
  <2>2. CASE i = p + 1
    BY <1>5, <1>9, <2>2
  <2>3. CASE i - (p + 1) \in 1 .. q /\ i = p + 1 + (i - (p + 1))
    <3>1. z[p + 1 + (i - (p + 1))].fn \notin {Begin, End}
      BY <1>9, <2>3
    <3> QED
      BY <2>3, <3>1
  <2>4. CASE i = p + q + 2
    BY <1>2, <1>5, <1>9, <2>4
  <2> QED
    BY <1>10, <2>1, <2>2, <2>3, <2>4
<1>12. p + 1 # p + q + 2
  BY <1>4
<1>13. Bracketed(z)
  <2> HIDE DEF p, q
  <2> QED
    BY <1>2, <1>9, <1>11, <1>12 DEF Bracketed, e
<1>14. Edits(m, needs, before, inside) = Handler(m, needs, z)
  BY DEF Edits, b, e, x, y, z, Begin, End
<1> QED
  BY <1>8, <1>13, <1>14 DEF Sound, Handler

-----------------------------------------------------------------------------
(***************************************************************************)
(* The handlers, one by one.                                               *)
(***************************************************************************)
LEMMA PingSound == Sound(ping)
  BY HandlerSound, NoSteps, Zenon DEF ping

LEMMA ProjectSound == Sound(project_get_state)
<1> DEFINE Q == Quiet("project.get_state", {})
           QT == Quiet("project.get_state", {"GetTrack"})
           inner == Do("GetTrack") \o IfThere("GetSetMediaTrackInfo_String")
                    \o IfThere("GetMediaTrackInfo_Value") \o IfThere("TrackFX_GetCount")
                    \o IfThere("CountTrackMediaItems")
<1>1. inner \in Seq(QT)
  BY Calls, Both, Named, Zenon
<1>2. Given({"CountTracks"}, Maybe(inner)) \in Seq(Q)
  BY <1>1, Marks, GivenTracks, Zenon
<1> HIDE DEF inner
<1>3. IfThere("GetProjectTimeSignature2") \o IfThere("CountTracks")
      \o IfThere("GetCursorPosition") \o IfThere("GetPlayState")
      \o IfThere("GetProjectLength") \o Given({"CountTracks"}, Maybe(inner)) \in Seq(Q)
  BY <1>2, Calls, Both, Named, Zenon
<1> QED
  BY <1>3, HandlerSound, Marks, Zenon DEF project_get_state, inner

LEMMA TransportSound ==
    /\ Sound(transport_get_state)
    /\ Sound(transport_set_cursor)
    /\ \A button \in Buttons : Sound(transport_control(button))
<1>1. Sound(transport_get_state)
  BY HandlerSound, Calls, Marks, Both, Named, Zenon DEF transport_get_state
<1>2. Sound(transport_set_cursor)
  BY HandlerSound, Calls, Both, Named, Zenon DEF transport_set_cursor
<1>3. ASSUME NEW button \in Buttons
      PROVE  Sound(transport_control(button))
  <2>1. button \in Names
    BY Named DEF Buttons
  <2> QED
    BY <2>1, HandlerSound, Calls, Zenon DEF transport_control
<1> QED
  BY <1>1, <1>2, <1>3

LEMMA TracksSound ==
    /\ \A named \in BOOLEAN : Sound(track_add(named))
    /\ Sound(track_remove)
    /\ \A setter \in Setters : Sound(track_set_property(setter))
<1>1. ASSUME NEW named \in BOOLEAN
      PROVE  Sound(track_add(named))
  <2> DEFINE m == "track.add"
             needs == {"InsertTrackAtIndex", "GetTrack", "CountTracks"}
             naming == Do("GetTrack") \o Asked(Maybe(IfThere("GetSetMediaTrackInfo_String")))
             some == IF named THEN naming ELSE <<>>
  <2>1. naming \in Seq(Inner(m, needs))
    <3>1. m \in Lossy
      BY DEF Lossy
    <3> QED
      BY <3>1, Calls, Marks, Both, Named, Zenon
  <2>2. some \in Seq(Inner(m, needs))
    BY <2>1, NoSteps, Zenon
  <2> HIDE DEF some
  <2>3. Asked(Do("InsertTrackAtIndex")) \o some \o Arranged \o Do("CountTracks")
            \in Seq(Inner(m, needs))
    BY <2>2, Calls, Marks, Both, Named, Zenon DEF Arranged
  <2>4. OrFails(Do("CountTracks")) \in Seq(Inner(m, needs))
    BY Calls, Marks, Named, Zenon
  <2> QED
    BY <2>3, <2>4, EditsSound, Zenon DEF track_add, some
<1>2. Sound(track_remove)
  BY EditsSound, Calls, Marks, Both, Named, Zenon DEF track_remove, Arranged
<1>3. ASSUME NEW setter \in Setters
      PROVE  Sound(track_set_property(setter))
  <2>1. setter \in Names /\ "track.set_property" \in Lossy
    BY Named DEF Setters, Lossy
  <2> QED
    BY <2>1, EditsSound, Calls, Marks, Both, Named, Zenon
    DEF track_set_property, Arranged, Throw
<1> QED
  BY <1>1, <1>2, <1>3

LEMMA ItemToJson == \A m, needs : item_to_json \in Seq(Quiet(m, needs))
<1> SUFFICES ASSUME NEW m, NEW needs
             PROVE  item_to_json \in Seq(Quiet(m, needs))
  OBVIOUS
<1> DEFINE source == Do("GetMediaItemTake_Source") \o Do("GetMediaSourceType")
           tests  == {"GetMediaItemTake_Source", "GetMediaSourceType"}
<1>1. {"GetActiveTake"} \in SUBSET Names /\ tests \in SUBSET Names
  BY Named
<1>2. source \in Seq(Quiet(m, (needs \cup {"GetActiveTake"}) \cup tests))
  BY Calls, Both, Named, Zenon
<1> HIDE DEF source, tests
<1>3. Given(tests, source) \in Seq(Quiet(m, needs \cup {"GetActiveTake"}))
  BY <1>1, <1>2, GivenFits, Zenon
<1>4. Maybe(IfThere("GetSetMediaItemTakeInfo_String") \o Given(tests, source))
        \in Seq(Quiet(m, needs \cup {"GetActiveTake"}))
  BY <1>3, Calls, Marks, Both, Named, Zenon
<1>5. Given({"GetActiveTake"},
            Maybe(IfThere("GetSetMediaItemTakeInfo_String") \o Given(tests, source)))
        \in Seq(Quiet(m, needs))
  BY <1>1, <1>4, GivenFits, Zenon
<1> QED
  BY <1>5, Calls, Both, Named, Zenon DEF item_to_json, source, tests

LEMMA ItemListsSound == Sound(items_get_selected) /\ \A one \in BOOLEAN : Sound(item_list(one))
<1>1. Sound(items_get_selected)
  <2> DEFINE m == "items.get_selected"
             needs == {"CountSelectedMediaItems", "GetSelectedMediaItem"}
             tests == {"GetMediaItem_Track", "CountTracks", "GetTrack"}
             index == Do("GetMediaItem_Track") \o Do("CountTracks") \o Do("GetTrack")
  <2>1. tests \in SUBSET Names
    BY Named
  <2>2. index \in Seq(Quiet(m, needs \cup tests))
    BY Calls, Both, Named, Zenon
  <2>3. Given(tests, index) \in Seq(Quiet(m, needs))
    BY <2>1, <2>2, GivenFits, Zenon
  <2> HIDE DEF index, tests
  <2>4. Do("GetSelectedMediaItem") \o item_to_json \o Given(tests, index) \in Seq(Quiet(m, needs))
    BY <2>3, ItemToJson, Calls, Both, Named, Zenon
  <2>5. Do("CountSelectedMediaItems")
        \o Maybe(Do("GetSelectedMediaItem") \o item_to_json \o Given(tests, index))
            \in Seq(Quiet(m, needs))
    BY <2>4, Calls, Marks, Both, Named, Zenon
  <2> QED
    BY <2>5, HandlerSound, Marks, Zenon DEF items_get_selected, index, tests
<1>2. ASSUME NEW one \in BOOLEAN
      PROVE  Sound(item_list(one))
  <2> DEFINE m == "item.list"
             needs == {"CountTracks", "GetTrack", "CountTrackMediaItems", "GetTrackMediaItem"}
             items == Do("CountTrackMediaItems")
                      \o Maybe(Do("GetTrackMediaItem") \o item_to_json)
             calls == IF one THEN Find("GetTrack") \o items
                             ELSE Do("CountTracks") \o Maybe(Do("GetTrack") \o items)
  <2>1. items \in Seq(Quiet(m, needs))
    BY ItemToJson, Calls, Marks, Both, Named, Zenon
  <2> HIDE DEF items
  <2>2. Find("GetTrack") \o items \in Seq(Quiet(m, needs))
    BY <2>1, Calls, Both, Named, Zenon
  <2>3. Do("CountTracks") \o Maybe(Do("GetTrack") \o items) \in Seq(Quiet(m, needs))
    BY <2>1, Calls, Marks, Both, Named, Zenon
  <2>4. calls \in Seq(Inner(m, needs))
    BY <2>2, <2>3, Marks, Zenon
  <2>5. item_list(one) = Handler(m, needs, calls)
    BY Zenon DEF item_list, items
  <2> HIDE DEF calls
  <2> QED
    BY <2>4, <2>5, HandlerSound
<1> QED
  BY <1>1, <1>2

LEMMA ItemEditsSound ==
    Sound(item_move) /\ Sound(item_resize) /\ Sound(item_split) /\ Sound(item_delete)
<1>1. \A m, fn : m # "lua.execute_and_read" /\ fn \in Names => Sound(ItemEdit(m, fn))
  BY EditsSound, Calls, Marks, Both, Named, Zenon
  DEF ItemEdit, ItemNeeds, ItemFound, Arranged
<1> QED
  BY <1>1, Named DEF item_move, item_resize, item_split, item_delete

LEMMA FxSound ==
    /\ Sound(fx_get_parameters)
    /\ Sound(fx_add) /\ Sound(fx_remove)
    /\ Sound(fx_set_parameter) /\ Sound(fx_enable) /\ Sound(fx_disable)
<1>1. Sound(fx_get_parameters)
  <2> DEFINE m == "fx.get_parameters"
             needs == {"GetTrack", "TrackFX_GetCount", "TrackFX_GetNumParams"}
  <2>1. Maybe(IfThere("TrackFX_GetParam") \o IfThere("TrackFX_GetParamName")
              \o IfThere("TrackFX_GetFormattedParamValue")) \in Seq(Quiet(m, needs))
    BY Calls, Marks, Both, Named, Zenon
  <2> QED
    BY <2>1, HandlerSound, Calls, Marks, Both, Named, Zenon DEF fx_get_parameters
<1>2. \A m, fn : m # "lua.execute_and_read" /\ fn \in Names => Sound(FxEdit(m, fn, Arranged))
  BY EditsSound, Calls, Marks, Both, Named, Zenon DEF FxEdit, Arranged
<1>3. \A m, fn : m # "lua.execute_and_read" /\ fn \in Names => Sound(FxEdit(m, fn, <<>>))
  BY EditsSound, Calls, Marks, Both, NoSteps, Named, Zenon DEF FxEdit
<1> QED
  BY <1>1, <1>2, <1>3, Named DEF fx_add, fx_remove, fx_set_parameter, fx_enable, fx_disable

LEMMA MidiSound ==
    /\ Sound(midi_get_notes)
    /\ \A source \in Sources, unit \in Units : Sound(midi_insert_notes(source, unit))
<1>1. Sound(midi_get_notes)
  <2> DEFINE m == "midi.get_notes"
             needs == {"GetTrack", "GetTrackMediaItem", "GetActiveTake", "MIDI_CountEvts"}
  <2>1. Maybe(IfThere("MIDI_GetNote") \o IfThere("MIDI_GetProjTimeFromPPQPos")
              \o IfThere("MIDI_GetProjQNFromPPQPos")) \in Seq(Quiet(m, needs))
    BY Calls, Marks, Both, Named, Zenon
  <2> QED
    BY <2>1, HandlerSound, Calls, Marks, Both, Named, Zenon DEF midi_get_notes
<1>2. ASSUME NEW source \in Sources, NEW unit \in Units
      PROVE  Sound(midi_insert_notes(source, unit))
  <2> DEFINE m == "midi.insert_notes"
             needs == {"GetTrack", "MIDI_InsertNote"}
  <2>1. source \in Names /\ unit \in Names /\ m \in Lossy
    BY Named DEF Sources, Units, Lossy
  <2>2. /\ Maybe(Throw) \in Seq(Inner(m, needs))
        /\ OrFails(Required(source)) \in Seq(Inner(m, needs))
        /\ OrFails(Required("GetActiveTake")) \in Seq(Inner(m, needs))
        /\ Asked(Maybe(IfThere(unit))) \in Seq(Inner(m, needs))
        /\ OrFails(Maybe(Do("MIDI_InsertNote"))) \in Seq(Inner(m, needs))
        /\ IfThere("MIDI_Sort") \in Seq(Inner(m, needs))
        /\ Arranged \in Seq(Inner(m, needs))
        /\ Find("GetTrack") \in Seq(Inner(m, needs))
    BY <2>1, Calls, Marks, Named, Zenon DEF Throw, Arranged
  <2> QED
    BY <2>2, EditsSound, Both, Zenon DEF midi_insert_notes
<1> QED
  BY <1>1, <1>2

LEMMA MarkersSound == Sound(marker_list) /\ Sound(marker_add) /\ Sound(marker_remove)
<1>1. Sound(marker_list)
  BY HandlerSound, Calls, Marks, Both, Named, Zenon DEF marker_list
<1>2. \A m, fn : m # "lua.execute_and_read" /\ fn \in Names => Sound(MarkerEdit(m, fn))
  BY EditsSound, Calls, Marks, Both, NoSteps, Named, Zenon DEF MarkerEdit
<1> QED
  BY <1>1, <1>2, Named DEF marker_add, marker_remove

LEMMA RoutingSound ==
    /\ Sound(routing_list_sends)
    /\ \A valued \in BOOLEAN : Sound(routing_add_send(valued))
    /\ Sound(routing_remove_send)
<1>1. Sound(routing_list_sends)
  BY HandlerSound, Calls, Marks, Both, Named, Zenon DEF routing_list_sends
<1>2. Sound(routing_remove_send)
  BY EditsSound, Calls, Marks, Both, Named, Zenon DEF routing_remove_send
<1>3. ASSUME NEW valued \in BOOLEAN
      PROVE  Sound(routing_add_send(valued))
  <2> DEFINE m == "routing.add_send"
             needs == {"GetTrack", "CreateTrackSend"}
             some == IF valued THEN Maybe(SendValues) ELSE <<>>
  <2>1. m \in Lossy /\ {"SetTrackSendInfo_Value"} \in SUBSET Names
    BY Named DEF Lossy
  <2>2. Given({"SetTrackSendInfo_Value"}, Maybe(Throw)) \in Seq(Inner(m, needs))
    BY <2>1, Calls, Marks, GivenFits, Named, Zenon DEF Throw
  <2>3. Asked(OrFails(IfThere("SetTrackSendInfo_Value"))) \in Seq(Inner(m, needs))
    BY <2>1, Calls, Marks, Named, Zenon
  <2>4. Maybe(SendValues) \in Seq(Inner(m, needs))
    BY <2>2, <2>3, MaybeInner, Both, Zenon DEF SendValues
  <2>5. some \in Seq(Inner(m, needs))
    BY <2>4, NoSteps, Zenon
  <2> HIDE DEF some
  <2>6. Asked(Do("CreateTrackSend")) \o some \in Seq(Inner(m, needs))
    BY <2>5, Calls, Both, Named, Zenon
  <2>7. Find("GetTrack") \in Seq(Inner(m, needs))
    BY Calls, Marks, Named, Zenon
  <2> QED
    BY <2>6, <2>7, EditsSound, Zenon DEF routing_add_send, some
<1> QED
  BY <1>1, <1>2, <1>3

LEMMA EnvelopeSound == Sound(envelope_list) /\ Sound(envelope_add_point)
<1>1. Sound(envelope_list)
  BY HandlerSound, Calls, Marks, Both, Named, Zenon
  DEF envelope_list, EnvelopeNeeds, EnvelopeFound
<1>2. Sound(envelope_add_point)
  BY EditsSound, Calls, Marks, Both, Named, Zenon
  DEF envelope_add_point, EnvelopeNeeds, EnvelopeFound, Arranged
<1> QED
  BY <1>1, <1>2

(***************************************************************************)
(* lua.cpp.  Of its calls of ExtState's functions each is under a test, or *)
(* comes after one that throws.                                            *)
(***************************************************************************)
ExtUses == {"GetExtState", "DeleteExtState"}

Ext == {s \in Quiet("lua.execute_and_read", {}) :
           s.absent = "crash" /\ s.fn \in ExtUses => "HasExtState" \in s.given}

LEMMA InCritical ==
    /\ "AddRemoveReaScript" \in Range(Critical)
    /\ "Main_OnCommandEx" \in Range(Critical)
<1>1. /\ Critical[5] = "AddRemoveReaScript" /\ Critical[6] = "Main_OnCommandEx"
      /\ 5 \in DOMAIN Critical /\ 6 \in DOMAIN Critical
  BY DEF Critical
<1> QED
  BY <1>1 DEF Range

LEMMA ScriptFits == \A m : script_run \in Seq(Quiet(m, {}))
  BY InCritical, Calls, Marks, Both, Named, Zenon DEF script_run, Throw

\* The forms of steps that use ExtState after a test of their own, or not at all.
LEMMA ExtCalls ==
    \A fn \in Names :
        /\ IfThere(fn) \in Seq(Ext)
        /\ Required(fn) \in Seq(Ext)
        /\ fn \in Range(Critical) /\ fn \notin ExtUses => Do(fn) \in Seq(Ext)
<1> SUFFICES ASSUME NEW fn \in Names
             PROVE  /\ IfThere(fn) \in Seq(Ext)
                    /\ Required(fn) \in Seq(Ext)
                    /\ fn \in Range(Critical) /\ fn \notin ExtUses => Do(fn) \in Seq(Ext)
  OBVIOUS
<1> DEFINE Q == Quiet("lua.execute_and_read", {})
<1>1. /\ IfThere(fn) \in Seq(Q) /\ Required(fn) \in Seq(Q)
      /\ fn \in Range(Critical) => Do(fn) \in Seq(Q)
  BY Calls, Zenon
<1> HIDE DEF Q
<1>2. IfThere(fn)[1] \in Q /\ Required(fn)[1] \in Q /\ (fn \in Range(Critical) => Do(fn)[1] \in Q)
  BY <1>1 DEF IfThere, Required, Do, Step
<1>3. /\ IfThere(fn) = <<IfThere(fn)[1]>> /\ IfThere(fn)[1].absent = "skip"
      /\ Required(fn) = <<Required(fn)[1]>> /\ Required(fn)[1].absent = "throw"
      /\ Do(fn) = <<Do(fn)[1]>> /\ Do(fn)[1].fn = fn
  BY DEF IfThere, Required, Do, Step
<1>4. /\ IfThere(fn)[1] \in Ext /\ Required(fn)[1] \in Ext
      /\ fn \in Range(Critical) /\ fn \notin ExtUses => Do(fn)[1] \in Ext
  BY <1>2, <1>3 DEF Ext, Q
<1>5. \A s \in Ext : <<s>> \in Seq(Ext)
  OBVIOUS
<1> QED
  BY <1>3, <1>4, <1>5, Zenon

LEMMA ExtMarks == \A steps \in Seq(Ext) : Maybe(steps) \in Seq(Ext) /\ OrFails(steps) \in Seq(Ext)
<1> SUFFICES ASSUME NEW steps \in Seq(Ext)
             PROVE  Maybe(steps) \in Seq(Ext) /\ OrFails(steps) \in Seq(Ext)
  OBVIOUS
<1>1. ASSUME NEW s \in Ext
      PROVE  [s EXCEPT !.may = TRUE] \in Ext /\ [s EXCEPT !.cut = TRUE] \in Ext
  BY DEF Ext, Quiet, Inner, Fit, Tested, Heeded, Steps
<1>2. DOMAIN steps = 1 .. Len(steps) /\ \A i \in 1 .. Len(steps) : steps[i] \in Ext
  OBVIOUS
<1>3. Maybe(steps) \in Seq(Ext)
  <2> DEFINE g(i) == [steps[i] EXCEPT !.may = TRUE]
  <2>1. Maybe(steps) = [i \in 1 .. Len(steps) |-> g(i)]
    BY <1>2 DEF Maybe
  <2>2. \A i \in 1 .. Len(steps) : g(i) \in Ext
    BY <1>1, <1>2
  <2> HIDE DEF g
  <2> QED
    BY <2>1, <2>2
<1>4. OrFails(steps) \in Seq(Ext)
  <2> DEFINE g(i) == [steps[i] EXCEPT !.cut = TRUE]
  <2>1. OrFails(steps) = [i \in 1 .. Len(steps) |-> g(i)]
    BY <1>2 DEF OrFails
  <2>2. \A i \in 1 .. Len(steps) : g(i) \in Ext
    BY <1>1, <1>2
  <2> HIDE DEF g
  <2> QED
    BY <2>1, <2>2
<1> QED
  BY <1>3, <1>4

LEMMA ExtGiven ==
    \A steps \in Seq(Quiet("lua.execute_and_read", {"HasExtState"})) :
        Given({"HasExtState"}, steps) \in Seq(Ext)
<1> DEFINE Q == Quiet("lua.execute_and_read", {"HasExtState"})
<1> SUFFICES ASSUME NEW steps \in Seq(Q)
             PROVE  Given({"HasExtState"}, steps) \in Seq(Ext)
  OBVIOUS
<1>1. ASSUME NEW s \in Q
      PROVE  [s EXCEPT !.given = @ \cup {"HasExtState"}] \in Ext
  BY Named DEF Ext, Quiet, Inner, Fit, Tested, Heeded, Steps
<1> HIDE DEF Q
<1>2. DOMAIN steps = 1 .. Len(steps) /\ \A i \in 1 .. Len(steps) : steps[i] \in Q
  OBVIOUS
<1> DEFINE g(i) == [steps[i] EXCEPT !.given = @ \cup {"HasExtState"}]
<1>3. Given({"HasExtState"}, steps) = [i \in 1 .. Len(steps) |-> g(i)]
  BY <1>2 DEF Given
<1>4. \A i \in 1 .. Len(steps) : g(i) \in Ext
  BY <1>1, <1>2
<1> HIDE DEF g
<1> QED
  BY <1>3, <1>4

LEMMA ExtSequence ==
    \A steps \in Seq(Ext) :
        AfterTest(steps) /\ steps \in Seq(Inner("lua.execute_and_read", {}))
<1> SUFFICES ASSUME NEW steps \in Seq(Ext)
             PROVE  AfterTest(steps) /\ steps \in Seq(Inner("lua.execute_and_read", {}))
  OBVIOUS
<1>1. Ext \subseteq Inner("lua.execute_and_read", {})
  BY DEF Ext, Quiet
<1>2. AfterTest(steps)
  BY DEF AfterTest, Ext, ExtUses
<1> QED
  BY <1>1, <1>2

LEMMA AfterBoth ==
    \A m, needs : \A a, b \in Seq(Inner(m, needs)) :
        AfterTest(a) /\ AfterTest(b) => AfterTest(a \o b)
<1> SUFFICES ASSUME NEW m, NEW needs, NEW a \in Seq(Inner(m, needs)),
                    NEW b \in Seq(Inner(m, needs)), AfterTest(a), AfterTest(b)
             PROVE  AfterTest(a \o b)
  OBVIOUS
<1> DEFINE c == a \o b
<1>1. IsJoined(c, a, b)
  BY Joins, Zenon
<1>2. Len(a) \in Nat /\ Len(b) \in Nat
  OBVIOUS
<1> HIDE DEF c
<1>3. ASSUME NEW i \in 1 .. Len(c), c[i].absent = "crash",
             c[i].fn \in {"GetExtState", "DeleteExtState"}
      PROVE  \/ "HasExtState" \in c[i].given
             \/ \E j \in 1 .. i - 1 : TestsExtState(c[j])
  <2>1. CASE i \in 1 .. Len(a)
    <3>1. c[i] = a[i] /\ \A j \in 1 .. i - 1 : c[j] = a[j]
      BY <1>1, <1>2, <2>1 DEF IsJoined
    <3> QED
      BY <1>3, <2>1, <3>1 DEF AfterTest
  <2>2. CASE i - Len(a) \in 1 .. Len(b)
    <3> DEFINE k == i - Len(a)
    <3>1. c[i] = b[k]
      BY <1>1, <1>2, <2>2 DEF IsJoined
    <3>2. \A j \in 1 .. k - 1 : Len(a) + j \in 1 .. i - 1 /\ c[Len(a) + j] = b[j]
      BY <1>1, <1>2, <2>2 DEF IsJoined
    <3>3. \/ "HasExtState" \in b[k].given
          \/ \E j \in 1 .. k - 1 : TestsExtState(b[j])
      BY <1>3, <2>2, <3>1 DEF AfterTest
    <3> QED
      BY <3>1, <3>2, <3>3
  <2>3. i \in 1 .. Len(a) \/ i - Len(a) \in 1 .. Len(b)
    BY <1>1, <1>2 DEF IsJoined
  <2> QED
    BY <2>1, <2>2, <2>3
<1>4. AfterTest(c)
  BY <1>3 DEF AfterTest
<1> QED
  BY <1>4 DEF c

LEMMA LuaSound == Sound(lua_execute) /\ \A failed \in BOOLEAN : Sound(lua_execute_and_read(failed))
<1> DEFINE m == "lua.execute_and_read"
           I == Inner(m, {})
           given  == {"HasExtState"}
           stale  == IfThere("HasExtState") \o Given(given, Maybe(Do("DeleteExtState")))
           error  == Do("GetExtState") \o Do("DeleteExtState") \o Do("HasExtState")
                     \o Maybe(Do("DeleteExtState"))
           output == OrFails(Required("HasExtState")) \o Do("GetExtState") \o Do("DeleteExtState")
           start  == stale \o script_run \o IfThere("HasExtState")
           failure == Given(given, error) \o Throw
<1>1. Sound(lua_execute)
  <2>1. script_run \in Seq(Inner("lua.execute", {}))
    BY ScriptFits, Marks, Zenon
  <2> QED
    BY <2>1, HandlerSound, Zenon DEF lua_execute
<1>2. script_run \in Seq(Ext)
  <2>1. "AddRemoveReaScript" \notin ExtUses /\ "Main_OnCommandEx" \notin ExtUses
    BY DEF ExtUses
  <2> QED
    BY <2>1, InCritical, ExtCalls, ExtMarks, Both, Named, Zenon DEF script_run, Throw, Find
<1>3. start \in Seq(Ext)
  <2>1. Maybe(Do("DeleteExtState")) \in Seq(Quiet(m, given))
    BY Calls, Marks, Named, Zenon
  <2>2. Given(given, Maybe(Do("DeleteExtState"))) \in Seq(Ext)
    BY <2>1, ExtGiven, Zenon
  <2> QED
    BY <1>2, <2>2, ExtCalls, Both, Named, Zenon
<1>4. failure \in Seq(Ext)
  <2>1. error \in Seq(Quiet(m, given))
    BY Calls, Marks, Both, Named, Zenon
  <2> HIDE DEF error
  <2> QED
    BY <2>1, ExtGiven, ExtCalls, Both, Named, Zenon DEF Throw
<1>5. output \in Seq(I) /\ AfterTest(output)
  <2>1. output \in Seq(I)
    BY Calls, Marks, Both, Named, Zenon
  <2> DEFINE first == OrFails(Required("HasExtState"))
             r == Required("HasExtState")
             x == Do("GetExtState")
             y == Do("DeleteExtState")
             fx == first \o x
  <2>2. /\ Len(first) = 1 /\ first[1].fn = "HasExtState" /\ first[1].absent = "throw"
        /\ ~first[1].may /\ first[1].given = {}
    <3>1. /\ r = <<r[1]>>
          /\ r[1] = [fn |-> "HasExtState", given |-> {}, absent |-> "throw", may |-> FALSE,
                     cut |-> FALSE, asked |-> FALSE]
      BY DEF Required, Step
    <3> HIDE DEF r
    <3>2. DOMAIN r = 1 .. 1 /\ Len(r) = 1
      BY <3>1
    <3>3. first = [i \in 1 .. 1 |-> [r[i] EXCEPT !.cut = TRUE]]
      BY <3>2, Zenon DEF OrFails, r
    <3> HIDE DEF first
    <3>4. first[1] = [r[1] EXCEPT !.cut = TRUE] /\ Len(first) = 1
      BY <3>3
    <3> QED
      BY <3>1, <3>4
  <2>3. Len(x) = 1 /\ Len(y) = 1
    BY DEF Do, Step
  <2>4. first \in Seq(I) /\ x \in Seq(I) /\ y \in Seq(I)
    BY Calls, Marks, Named, Zenon
  <2> HIDE DEF x, y, first, I
  <2>5. fx \in Seq(I) /\ IsJoined(fx, first, x) /\ IsJoined(fx \o y, fx, y)
    BY <2>4, Joins, Both, Zenon
  <2>6. output = fx \o y
    BY Zenon DEF x, y, first
  <2> HIDE DEF output, fx
  <2>7. Len(output) = 3 /\ output[1] = first[1]
    BY <2>2, <2>3, <2>5, <2>6 DEF IsJoined
  <2>8. TestsExtState(output[1]) /\ output[1].absent # "crash"
    BY <2>2, <2>7 DEF TestsExtState
  <2>9. \A i \in 1 .. 3 : i = 1 \/ 1 \in 1 .. i - 1
    OBVIOUS
  <2>10. AfterTest(output)
    BY <2>7, <2>8, <2>9 DEF AfterTest
  <2> QED
    BY <2>1, <2>10 DEF I
<1>6. ASSUME NEW failed \in BOOLEAN
      PROVE  Sound(lua_execute_and_read(failed))
  <2> DEFINE last == IF failed THEN failure ELSE output
             calls == start \o last
  <2>1. lua_execute_and_read(failed) = Handler(m, {}, calls)
    BY Zenon DEF lua_execute_and_read
  <2> HIDE DEF start, failure, output
  <2>2. start \in Seq(I) /\ AfterTest(start)
    BY <1>3, ExtSequence
  <2>3. last \in Seq(I) /\ AfterTest(last)
    BY <1>4, <1>5, ExtSequence
  <2> HIDE DEF last
  <2>4. calls \in Seq(I) /\ AfterTest(calls)
    BY <2>2, <2>3, Both, AfterBoth, Zenon
  <2> HIDE DEF calls
  <2> QED
    BY <2>1, <2>4, LuaHandlerSound, Zenon
<1> QED
  BY <1>1, <1>6

LEMMA AllSound == \A h \in Handlers : Sound(h)
  BY PingSound, ProjectSound, TransportSound, TracksSound, ItemListsSound, ItemEditsSound,
     FxSound, MidiSound, MarkersSound, RoutingSound, EnvelopeSound, LuaSound DEF Handlers

-----------------------------------------------------------------------------
(***************************************************************************)
(* What is left of a handler's steps, when one is made and when an         *)
(* exception leaves the handler.                                           *)
(***************************************************************************)
WillEnd(steps) ==
    /\ steps # <<>>
    /\ steps[Len(steps)].fn = End
    /\ \A i \in 1 .. Len(steps) : steps[i].fn # Begin

LEMMA TailSteps ==
    \A m, needs : \A steps \in Seq(Fit(m, needs)) :
        steps # <<>> /\ Bracketed(steps) =>
            /\ Head(steps) \in Fit(m, needs)
            /\ Tail(steps) \in Seq(Fit(m, needs))
            /\ Bracketed(Tail(steps))
            /\ Head(steps).fn = Begin => WillEnd(Tail(steps))
            /\ Head(steps).fn = End => <<Head(steps)>> = IfThere(End)
            /\ WillEnd(steps) /\ Head(steps).fn # End => WillEnd(Tail(steps))
            /\ AfterTest(steps) /\ ~TestsExtState(Head(steps)) => AfterTest(Tail(steps))
<1> SUFFICES ASSUME NEW m, NEW needs, NEW steps \in Seq(Fit(m, needs)), steps # <<>>,
                    Bracketed(steps)
             PROVE  /\ Head(steps) \in Fit(m, needs)
                    /\ Tail(steps) \in Seq(Fit(m, needs))
                    /\ Bracketed(Tail(steps))
                    /\ Head(steps).fn = Begin => WillEnd(Tail(steps))
                    /\ Head(steps).fn = End => <<Head(steps)>> = IfThere(End)
                    /\ WillEnd(steps) /\ Head(steps).fn # End => WillEnd(Tail(steps))
                    /\ AfterTest(steps) /\ ~TestsExtState(Head(steps))
                           => AfterTest(Tail(steps))
  OBVIOUS
<1> DEFINE t == Tail(steps)
           n == Len(t)
<1>1. /\ Head(steps) = steps[1] /\ steps[1] \in Fit(m, needs)
      /\ t \in Seq(Fit(m, needs))
      /\ n \in Nat /\ Len(steps) = n + 1
      /\ \A i \in 1 .. n : t[i] = steps[i + 1]
  OBVIOUS
<1>2. n # 0 => t # <<>>
  <2> HIDE DEF t
  <2> QED
    OBVIOUS
<1>3. \A i \in 1 .. n : i + 1 \in 1 .. n + 1 /\ (i + 1 = n + 1 <=> i = n) /\ i + 1 # 1
  BY <1>1
<1>4. 1 \in 1 .. n + 1 /\ (n # 0 => n \in 1 .. n) /\ (1 # n + 1 <=> n # 0)
  BY <1>1
<1>5. n # 0 => t[n] = steps[n + 1]
  BY <1>1, <1>4
<1> HIDE DEF t, n
<1>6. /\ \A i \in 1 .. n + 1 :
            steps[i].fn = End => i = n + 1 /\ <<steps[i]>> = IfThere(End)
      /\ \A i \in 1 .. n + 1 :
            steps[i].fn = Begin =>
                /\ i # n + 1 /\ steps[n + 1].fn = End
                /\ \A j \in 1 .. n + 1 : steps[j].fn = Begin => j = i
  BY <1>1 DEF Bracketed
<1>7. Bracketed(t)
  <2>1. ASSUME NEW i \in 1 .. n, t[i].fn = End
        PROVE  i = n /\ <<t[i]>> = IfThere(End)
    BY <1>1, <1>3, <1>6, <2>1
  <2>2. ASSUME NEW i \in 1 .. n, t[i].fn = Begin
        PROVE  /\ i # n /\ t[n].fn = End
               /\ \A j \in 1 .. n : t[j].fn = Begin => j = i
    <3>1. i + 1 # n + 1 /\ steps[n + 1].fn = End
          /\ \A j \in 1 .. n + 1 : steps[j].fn = Begin => j = i + 1
      BY <1>1, <1>3, <1>6, <2>2
    <3>2. n # 0
      BY <1>1
    <3>3. ASSUME NEW j \in 1 .. n, t[j].fn = Begin
          PROVE  j = i
      <4>1. j + 1 = i + 1
        BY <1>1, <1>3, <3>1, <3>3
      <4> QED
        BY <1>1, <4>1
    <3> QED
      BY <1>3, <1>5, <3>1, <3>2, <3>3
  <2> QED
    BY <2>1, <2>2 DEF Bracketed, n
<1>8. ASSUME steps[1].fn = Begin
      PROVE  WillEnd(t)
  <2>1. n # 0 /\ t[n].fn = End
    BY <1>4, <1>5, <1>6, <1>8
  <2>2. \A i \in 1 .. n : t[i].fn # Begin
    BY <1>1, <1>3, <1>4, <1>6, <1>8
  <2> QED
    BY <1>2, <2>1, <2>2 DEF WillEnd, n
<1>9. steps[1].fn = End => <<steps[1]>> = IfThere(End)
  BY <1>4, <1>6
<1>10. ASSUME WillEnd(steps), steps[1].fn # End
       PROVE  WillEnd(t)
  <2>1. n # 0 /\ t[n].fn = End
    BY <1>1, <1>5, <1>10 DEF WillEnd
  <2>2. \A i \in 1 .. n : t[i].fn # Begin
    BY <1>1, <1>3, <1>10 DEF WillEnd
  <2> QED
    BY <1>2, <2>1, <2>2 DEF WillEnd, n
<1>11. ASSUME AfterTest(steps), ~TestsExtState(steps[1])
       PROVE  AfterTest(t)
  <2>1. ASSUME NEW i \in 1 .. n, t[i].absent = "crash",
               t[i].fn \in {"GetExtState", "DeleteExtState"},
               "HasExtState" \notin t[i].given
        PROVE  \E j \in 1 .. i - 1 : TestsExtState(t[j])
    <3>1. PICK j \in 1 .. i : TestsExtState(steps[j])
      <4>1. i + 1 \in 1 .. Len(steps) /\ t[i] = steps[i + 1] /\ (i + 1) - 1 = i
        BY <1>1, <1>3
      <4> QED
        BY <1>11, <2>1, <4>1 DEF AfterTest
    <3>2. j - 1 \in 1 .. i - 1 /\ j - 1 \in 1 .. n /\ (j - 1) + 1 = j
      <4>1. j # 1
        BY <1>11, <3>1
      <4> QED
        BY <1>1, <4>1
    <3>3. t[j - 1] = steps[j]
      BY <1>1, <3>2
    <3> QED
      BY <3>1, <3>2, <3>3
  <2> QED
    BY <2>1 DEF AfterTest, n
<1> QED
  BY <1>1, <1>7, <1>8, <1>9, <1>10, <1>11 DEF t

LEMMA EndFits ==
    \A m, needs :
        /\ IfThere(End) \in Seq(Fit(m, needs)) /\ <<>> \in Seq(Fit(m, needs))
        /\ Bracketed(IfThere(End)) /\ Bracketed(<<>>)
        /\ AfterTest(IfThere(End)) /\ AfterTest(<<>>)
        /\ WillEnd(IfThere(End))
<1>1. Begin # End /\ End \in Functions /\ End \notin {"GetExtState", "DeleteExtState"}
  BY DEF Begin, End, Functions, Optional
<1>2. /\ IfThere(End) = <<[fn |-> End, given |-> {}, absent |-> "skip", may |-> FALSE,
                           cut |-> FALSE, asked |-> FALSE]>>
      /\ Len(IfThere(End)) = 1
  BY DEF IfThere, Step
<1>3. \A m, needs : IfThere(End) \in Seq(Fit(m, needs)) /\ <<>> \in Seq(Fit(m, needs))
  BY <1>1, <1>2 DEF Fit, Steps, Tested, Heeded
<1>4. Bracketed(IfThere(End)) /\ AfterTest(IfThere(End)) /\ WillEnd(IfThere(End))
  <2> DEFINE e == IfThere(End)
  <2>1. Len(e) = 1 /\ e[1].fn = End /\ <<e[1]>> = IfThere(End) /\ e # <<>>
    BY <1>2
  <2> HIDE DEF e
  <2>2. Bracketed(e) /\ AfterTest(e) /\ WillEnd(e)
    BY <1>1, <2>1 DEF Bracketed, AfterTest, WillEnd
  <2> QED
    BY <2>2 DEF e
<1>5. Bracketed(<<>>) /\ AfterTest(<<>>)
  BY DEF Bracketed, AfterTest
<1> QED
  BY <1>3, <1>4, <1>5

LEMMA UnwoundSteps ==
    \A m, needs : \A steps \in Seq(Fit(m, needs)) :
        /\ Unwound(steps) \in Seq(Fit(m, needs))
        /\ Bracketed(Unwound(steps))
        /\ AfterTest(Unwound(steps))
        /\ WillEnd(steps) => WillEnd(Unwound(steps))
<1> SUFFICES ASSUME NEW m, NEW needs, NEW steps \in Seq(Fit(m, needs))
             PROVE  /\ Unwound(steps) \in Seq(Fit(m, needs))
                    /\ Bracketed(Unwound(steps))
                    /\ AfterTest(Unwound(steps))
                    /\ WillEnd(steps) => WillEnd(Unwound(steps))
  OBVIOUS
<1>1. Unwound(steps) \in {IfThere(End), <<>>}
  BY DEF Unwound, End
<1>2. ASSUME WillEnd(steps)
      PROVE  Unwound(steps) = IfThere(End)
  <2>1. Len(steps) \in DOMAIN steps /\ DOMAIN steps = 1 .. Len(steps)
    BY <1>2 DEF WillEnd
  <2> QED
    BY <1>2, <2>1 DEF Unwound, End, Begin, WillEnd
<1> QED
  BY <1>1, <1>2, EndFits, Zenon

-----------------------------------------------------------------------------
(***************************************************************************)
(* Commands.  Until the functions the plugin needs are all resolved, they  *)
(* are resolved in order.  A command that runs was found among the         *)
(* handlers when the functions it needs were there; what is left of it is  *)
(* fit for it, uses ExtState after a test if there is none, and ends the   *)
(* block it has begun, if a block can be ended.                            *)
(***************************************************************************)
Started == stage \in {"resolved", "registered", "configured", "ready", "running", "failing"}
InEntry == stage \in {"off", "resolving", "resolved", "registered", "configured"}

FirstOf(k) == {Critical[i] : i \in 1 .. k}

Resolving ==
    /\ stage = "off" => api = {}
    /\ stage = "resolving" => \E k \in 0 .. 6 : api = FirstOf(k)
    /\ Started => Range(Critical) \subseteq api

Runs(m, needs, steps) ==
    /\ needs \subseteq api
    /\ steps \in Seq(Fit(m, needs))
    /\ Bracketed(steps)
    /\ m = "lua.execute_and_read" /\ "HasExtState" \notin api => AfterTest(steps)
    /\ block /\ End \in api => WillEnd(steps)
    /\ stage = "running" /\ lost => m \in Lossy

InHandler ==
    stage \in {"running", "failing"} =>
        \E h \in Handlers : method = h.method /\ Runs(method, h.needs, rest)

Commands ==
    /\ rest \in Seq(Steps)
    /\ block \in BOOLEAN
    /\ InEntry => ~block
    /\ Resolving
    /\ InHandler
    /\ BlocksAreEnded
    /\ NullCallsOnlyAsKnown

LEMMA SixCritical ==
    /\ Len(Critical) = 6 /\ DOMAIN Critical = 1 .. 6
    /\ \A i, j \in 1 .. 6 : Critical[i] = Critical[j] => i = j
<1>1. /\ Critical[1] = "ShowConsoleMsg" /\ Critical[2] = "plugin_register"
      /\ Critical[3] = "GetResourcePath" /\ Critical[4] = "GetAppVersion"
      /\ Critical[5] = "AddRemoveReaScript" /\ Critical[6] = "Main_OnCommandEx"
      /\ Len(Critical) = 6 /\ DOMAIN Critical = 1 .. 6
  BY DEF Critical
<1>2. \A i \in 1 .. 6 : i = 1 \/ i = 2 \/ i = 3 \/ i = 4 \/ i = 5 \/ i = 6
  OBVIOUS
<1> QED
  BY <1>1, <1>2

LEMMA CountFirst == \A k \in 0 .. 6 : Cardinality(FirstOf(k)) = k
<1> DEFINE C(k) == IsFiniteSet(FirstOf(k)) /\ Cardinality(FirstOf(k)) = k
<1>1. C(0)
  <2>1. FirstOf(0) = {}
    BY DEF FirstOf
  <2> QED
    BY <2>1, FS_EmptySet
<1>2. ASSUME NEW k \in 0 .. 5, C(k)
      PROVE  C(k + 1)
  <2>1. FirstOf(k + 1) = FirstOf(k) \cup {Critical[k + 1]}
    <3>1. 1 .. k + 1 = (1 .. k) \cup {k + 1}
      OBVIOUS
    <3> QED
      BY <3>1 DEF FirstOf
  <2>2. Critical[k + 1] \notin FirstOf(k)
    <3>1. k + 1 \in 1 .. 6 /\ \A i \in 1 .. k : i \in 1 .. 6 /\ i # k + 1
      OBVIOUS
    <3> QED
      BY <3>1, SixCritical DEF FirstOf
  <2> QED
    BY <1>2, <2>1, <2>2, FS_AddElement
<1>3. C(1) /\ C(2) /\ C(3) /\ C(4) /\ C(5) /\ C(6)
  <2> HIDE DEF C
  <2>1. C(0 + 1)
    BY <1>1, <1>2
  <2>2. C(1 + 1)
    BY <1>2, <2>1
  <2>3. C(2 + 1)
    BY <1>2, <2>2
  <2>4. C(3 + 1)
    BY <1>2, <2>3
  <2>5. C(4 + 1)
    BY <1>2, <2>4
  <2>6. C(5 + 1)
    BY <1>2, <2>5
  <2> QED
    BY <2>1, <2>2, <2>3, <2>4, <2>5, <2>6
<1> QED
  BY <1>1, <1>3

LEMMA FirstSix == FirstOf(6) = Range(Critical)
  BY SixCritical DEF FirstOf, Range

LEMMA CommandsInit == Init => Commands
<1>1. <<>> \in Seq(Steps)
  BY NoSteps, Zenon
<1>2. Init => stage = "off" /\ api = {} /\ rest = <<>> /\ block = FALSE
  BY DEF Init, Unresolved
<1> QED
  BY <1>1, <1>2 DEF Commands, InEntry, Resolving, Started, InHandler, BlocksAreEnded,
                    NullCallsOnlyAsKnown

\* The calls of ReaperPluginEntry.
LEMMA CommandsEntry ==
    Commands /\ (Load \/ Require \/ Resolve \/ RegisterTimer \/ LoadConfig \/ StartServer
                 \/ StartServerFails) => Commands'
<1> SUFFICES ASSUME Commands,
                    \/ Load \/ Require \/ Resolve \/ RegisterTimer \/ LoadConfig
                    \/ StartServer \/ StartServerFails
             PROVE  Commands'
  OBVIOUS
<1>1. /\ UNCHANGED <<method, rest, block, lost>> /\ InEntry
      /\ stage' \in {"resolving", "resolved", "registered", "configured", "ready", "refused"}
  BY DEF Load, Require, Resolve, RegisterTimer, LoadConfig, StartServer, StartServerFails,
         in_command, InEntry
<1>2. /\ (rest \in Seq(Steps))' /\ (block \in BOOLEAN)' /\ ~block /\ InHandler'
      /\ BlocksAreEnded' /\ NullCallsOnlyAsKnown' /\ ~block'
  BY <1>1 DEF Commands, InHandler, BlocksAreEnded, NullCallsOnlyAsKnown
<1>3. Resolving'
  <2>1. CASE Load
    <3>1. api = FirstOf(0)
      BY <2>1 DEF Load, Commands, Resolving, FirstOf
    <3> QED
      BY <2>1, <3>1 DEF Load, Resolving, Started
  <2>2. CASE Require
    <3>1. PICK k \in 0 .. 6 : api = FirstOf(k)
      BY <2>2 DEF Require, Commands, Resolving
    <3>2. Cardinality(api) = k /\ k < 6
      BY <2>2, <3>1, CountFirst, SixCritical DEF Require
    <3>3. k + 1 \in 0 .. 6 /\ FirstOf(k + 1) = FirstOf(k) \cup {Critical[k + 1]}
      <4>1. 1 .. k + 1 = (1 .. k) \cup {k + 1} /\ k + 1 \in 0 .. 6
        BY <3>2
      <4> QED
        BY <4>1 DEF FirstOf
    <3>4. stage' = "refused" \/ (stage' = "resolving" /\ api' = FirstOf(k + 1))
      BY <2>2, <3>1, <3>2, <3>3 DEF Require
    <3> QED
      BY <3>3, <3>4 DEF Resolving, Started
  <2>3. CASE Resolve
    <3>1. PICK k \in 0 .. 6 : api = FirstOf(k)
      BY <2>3 DEF Resolve, Commands, Resolving
    <3>2. api = Range(Critical)
      BY <2>3, <3>1, CountFirst, SixCritical, FirstSix DEF Resolve
    <3> QED
      BY <2>3, <3>2 DEF Resolve, Resolving, Started
  <2>4. CASE RegisterTimer \/ LoadConfig \/ StartServer \/ StartServerFails
    <3>1. api' = api /\ Started /\ stage' \notin {"off", "resolving"}
      BY <2>4 DEF RegisterTimer, LoadConfig, StartServer, StartServerFails, Started
    <3> QED
      BY <3>1 DEF Commands, Resolving
  <2> QED
    BY <2>1, <2>2, <2>3, <2>4
<1> QED
  BY <1>2, <1>3 DEF Commands

LEMMA CommandsCall == Commands /\ (\E h \in Handlers : CallCommand(h)) => Commands'
<1> SUFFICES ASSUME Commands, NEW h \in Handlers, CallCommand(h)
             PROVE  Commands'
  OBVIOUS
<1>1. /\ h.calls \in Seq(Fit(h.method, h.needs)) /\ Bracketed(h.calls)
      /\ h.method = "lua.execute_and_read" => AfterTest(h.calls)
  BY AllSound DEF Sound
<1>2. /\ stage = "ready" /\ stage' = "running" /\ api' = api /\ block' = block
      /\ method' = h.method /\ rest' = h.calls /\ ~lost' /\ h.needs \subseteq api
  BY DEF CallCommand
<1>3. rest' \in Seq(Steps)
  <2>1. Fit(h.method, h.needs) \subseteq Steps
    BY DEF Fit
  <2> QED
    BY <1>1, <1>2, <2>1
<1>4. Runs(method, h.needs, rest)'
  BY <1>1, <1>2 DEF Runs, Commands, BlocksAreEnded, End
<1>5. Resolving'
  BY <1>2 DEF Commands, Resolving, Started
<1> QED
  BY <1>2, <1>3, <1>4, <1>5 DEF Commands, InEntry, InHandler, BlocksAreEnded, NullCallsOnlyAsKnown

\* A step of a command is made, or passed over.
LEMMA CommandsStep ==
    Commands /\ (PassOver \/ LeaveOut \/ CallFunction \/ ThrowException) => Commands'
<1> SUFFICES ASSUME Commands, PassOver \/ LeaveOut \/ CallFunction \/ ThrowException
             PROVE  Commands'
  OBVIOUS
<1>1. /\ InCommand /\ UNCHANGED <<api, method>>
      /\ stage' \in {"running", "failing"} /\ (stage' = "running" => stage = "running")
  BY DEF PassOver, LeaveOut, CallFunction, ThrowException, command_only, InCommand, Reached
<1>2. PICK h \in Handlers : method = h.method /\ Runs(method, h.needs, rest)
  BY <1>1 DEF Commands, InHandler, InCommand
<1> DEFINE F == Fit(method, h.needs)
<1>3. /\ Current \in F
      /\ Tail(rest) \in Seq(F)
      /\ Bracketed(Tail(rest))
      /\ Current.fn = Begin => WillEnd(Tail(rest))
      /\ Current.fn = End => <<Current>> = IfThere(End)
      /\ WillEnd(rest) /\ Current.fn # End => WillEnd(Tail(rest))
      /\ AfterTest(rest) /\ ~TestsExtState(Current) => AfterTest(Tail(rest))
  BY <1>1, <1>2, TailSteps, Zenon DEF Runs, InCommand, Current
<1>4. /\ Unwound(Tail(rest)) \in Seq(F)
      /\ Bracketed(Unwound(Tail(rest)))
      /\ AfterTest(Unwound(Tail(rest)))
      /\ WillEnd(Tail(rest)) => WillEnd(Unwound(Tail(rest)))
  BY <1>3, UnwoundSteps, Zenon
<1>5. rest' = Tail(rest) \/ (rest' = Unwound(Tail(rest)) /\ stage' = "failing")
  BY DEF PassOver, LeaveOut, CallFunction, ThrowException
<1>6. rest' \in Seq(F) /\ Bracketed(rest')
  BY <1>3, <1>4, <1>5, Zenon
<1>7. rest' \in Seq(Steps)
  <2>1. F \subseteq Steps
    BY DEF Fit
  <2> HIDE DEF F
  <2> QED
    BY <1>6, <2>1
<1>8. Current.fn = End => Current.absent = "skip" /\ ~Current.may /\ Current.given = {}
  <2>1. IfThere(End) = <<[fn |-> End, given |-> {}, absent |-> "skip", may |-> FALSE,
                          cut |-> FALSE, asked |-> FALSE]>>
    BY DEF IfThere, Step
  <2>2. Current.fn = End => Current = <<Current>>[1]
    OBVIOUS
  <2> HIDE DEF Current
  <2> QED
    BY <1>3, <2>1
<1>9. ASSUME method = "lua.execute_and_read", "HasExtState" \notin api
      PROVE  AfterTest(rest')
  <2>1. AfterTest(rest)
    BY <1>2, <1>9 DEF Runs
  <2>2. ASSUME TestsExtState(Current)
        PROVE  ThrowException
    BY <1>1, <1>9, <2>2 DEF TestsExtState, PassOver, LeaveOut, CallFunction, Reached
  <2>3. ThrowException => rest' = Unwound(Tail(rest))
    BY DEF ThrowException
  <2> QED
    BY <1>3, <1>4, <1>5, <2>1, <2>2, <2>3, Zenon
<1>10. ASSUME block', End \in api
       PROVE  WillEnd(rest')
  <2>1. WillEnd(Tail(rest))
    <3>1. CASE CallFunction /\ Current.fn = Begin
      BY <1>3, <3>1
    <3>2. CASE CallFunction /\ Current.fn # Begin
      <4>1. block /\ Current.fn # End
        BY <1>10, <3>2 DEF CallFunction, Begin, End
      <4> QED
        BY <1>2, <1>3, <1>10, <4>1 DEF Runs
    <3>3. CASE ~CallFunction
      <4>1. block' = block /\ Current.fn # End
        BY <1>8, <1>10, <3>3 DEF PassOver, LeaveOut, ThrowException, Reached, InCommand
      <4> QED
        BY <1>2, <1>3, <1>10, <4>1 DEF Runs
    <3> QED
      BY <3>1, <3>2, <3>3
  <2> QED
    BY <1>4, <1>5, <2>1, Zenon
<1>11. stage' = "running" /\ lost' => method \in Lossy
  <2>1. CASE LeaveOut
    <3>1. CASE Current.asked
      <4>1. method \in Lossy \/ (Current.absent # "skip" /\ Current.given = {})
        BY <1>3, <3>1 DEF Fit, Heeded
      <4> QED
        BY <1>1, <2>1, <4>1 DEF LeaveOut, Reached
    <3>2. CASE ~Current.asked
      BY <1>1, <1>2, <2>1, <3>2 DEF LeaveOut, Runs
    <3> QED
      BY <3>1, <3>2
  <2>2. CASE ~LeaveOut
    <3>1. lost' = lost
      BY <2>2 DEF PassOver, CallFunction, ThrowException
    <3> QED
      BY <1>1, <1>2, <3>1 DEF Runs
  <2> QED
    BY <2>1, <2>2
<1>12. Runs(method, h.needs, rest)'
  BY <1>1, <1>2, <1>6, <1>9, <1>10, <1>11 DEF Runs
<1>13. block' \in BOOLEAN
  BY DEF Commands, PassOver, LeaveOut, CallFunction, ThrowException
<1>14. Resolving'
  BY <1>1 DEF Commands, Resolving, Started, InCommand
<1> QED
  BY <1>1, <1>2, <1>7, <1>12, <1>13, <1>14
     DEF Commands, InEntry, InHandler, BlocksAreEnded, NullCallsOnlyAsKnown

LEMMA CommandsNullCall == Commands /\ NullCall => Commands'
<1> SUFFICES ASSUME Commands, NullCall
             PROVE  Commands'
  OBVIOUS
<1>1. stage' = "crashed" /\ UNCHANGED <<api, method, rest, block, lost>>
  BY DEF NullCall, command_only, in_command
<1>2. stage \notin DOMAIN EntryCalls
  <2>1. ASSUME stage \in DOMAIN EntryCalls
        PROVE  EntryCalls[stage] \in api
    <3>1. stage \in {"resolved", "registered", "configured"}
      BY <2>1 DEF EntryCalls
    <3>2. EntryCalls[stage] \in {Critical[1], Critical[2], Critical[3]}
      BY <3>1 DEF EntryCalls, Critical
    <3>3. {Critical[1], Critical[2], Critical[3]} \subseteq Range(Critical)
      BY SixCritical DEF Range
    <3> QED
      BY <3>1, <3>2, <3>3 DEF Commands, Resolving, Started
  <2> QED
    BY <2>1 DEF NullCall, Untested
<1>3. Reached /\ Current.absent = "crash" /\ Current.fn \notin api
  BY <1>2 DEF NullCall, Untested
<1>4. PICK h \in Handlers : method = h.method /\ Runs(method, h.needs, rest)
  BY <1>3 DEF Commands, InHandler, Reached, InCommand
<1>5. Current \in Fit(method, h.needs) /\ Current = rest[1] /\ 1 \in 1 .. Len(rest)
  <2>1. rest # <<>> /\ rest \in Seq(Fit(method, h.needs))
    BY <1>3, <1>4 DEF Reached, InCommand, Runs
  <2> QED
    BY <2>1 DEF Current
<1>6. h.needs \subseteq api /\ Current.given \subseteq api /\ Range(Critical) \subseteq api
  BY <1>3, <1>4 DEF Runs, Reached, InCommand, Commands, Resolving, Started
<1>7. \/ method = "project.get_state" /\ Current.fn = "GetTrack" /\ "CountTracks" \in Current.given
      \/ method = "lua.execute_and_read" /\ Current.fn \in {"GetExtState", "DeleteExtState"}
  BY <1>3, <1>5, <1>6 DEF Fit, Tested
<1>8. ASSUME method = "lua.execute_and_read", "HasExtState" \notin api
      PROVE  FALSE
  <2>1. AfterTest(rest)
    BY <1>4, <1>8 DEF Runs
  <2>2. Current.fn \in {"GetExtState", "DeleteExtState"}
    BY <1>7, <1>8
  <2>3. "HasExtState" \in rest[1].given
    BY <1>3, <1>5, <2>1, <2>2 DEF AfterTest
  <2> QED
    BY <1>5, <1>6, <1>8, <2>3
<1>9. NullCallsOnlyAsKnown'
  BY <1>1, <1>3, <1>6, <1>7, <1>8 DEF NullCallsOnlyAsKnown
<1> QED
  BY <1>1, <1>9 DEF Commands, InEntry, Resolving, Started, InHandler, BlocksAreEnded

LEMMA CommandsOthers == Commands /\ (Return \/ NextSession \/ EditFile) => Commands'
<1> SUFFICES ASSUME Commands, Return \/ NextSession \/ EditFile
             PROVE  Commands'
  OBVIOUS
<1>1. CASE Return
  <2>1. /\ stage' = "ready" /\ UNCHANGED <<api, rest, block>> /\ rest = <<>>
        /\ stage \in {"running", "failing"}
    BY <1>1 DEF Return, command_only
  <2>2. PICK h \in Handlers : Runs(method, h.needs, rest)
    BY <2>1 DEF Commands, InHandler
  <2>3. block => End \notin api
    BY <2>1, <2>2 DEF Runs, WillEnd
  <2>4. BlocksAreEnded'
    BY <2>1, <2>3 DEF BlocksAreEnded, End
  <2> QED
    BY <2>1, <2>4 DEF Commands, InEntry, Resolving, Started, InHandler, NullCallsOnlyAsKnown
<1>2. CASE NextSession
  <2>1. /\ stage' = "off" /\ api' = {} /\ rest' = <<>> /\ block' = FALSE
    BY <1>2 DEF NextSession, Unresolved
  <2>2. rest' \in Seq(Steps)
    BY <2>1, NoSteps, Zenon
  <2> QED
    BY <2>1, <2>2 DEF Commands, InEntry, Resolving, Started, InHandler, BlocksAreEnded,
                      NullCallsOnlyAsKnown
<1>3. CASE EditFile
  <2>1. UNCHANGED <<stage, api, method, rest, block, lost>>
    BY <1>3 DEF EditFile, in_process, in_command
  <2> QED
    BY <2>1 DEF Commands, InEntry, Resolving, Started, InHandler, Runs, BlocksAreEnded,
                NullCallsOnlyAsKnown
<1> QED
  BY <1>1, <1>2, <1>3

LEMMA CommandsNext == Commands /\ [Next]_vars => Commands'
<1> SUFFICES ASSUME Commands, [Next]_vars
             PROVE  Commands'
  OBVIOUS
<1>1. CASE UNCHANGED vars
  BY <1>1 DEF vars, in_process, in_command, Commands, InEntry, Resolving, Started, InHandler,
              Runs, BlocksAreEnded, NullCallsOnlyAsKnown
<1>2. CASE Next
  BY <1>2, CommandsEntry, CommandsCall, CommandsStep, CommandsNullCall, CommandsOthers
     DEF Next
<1> QED
  BY <1>1, <1>2

THEOREM CommandsCorrect == Spec => []Commands
  BY CommandsInit, CommandsNext, PTL DEF Spec

\* Whatever functions REAPER lacks, a null pointer is called by two commands
\* only, and where some of its functions are there and others are not.
THEOREM NullCallsOnlyAsKnownCorrect == Spec => []NullCallsOnlyAsKnown
<1>1. Commands => NullCallsOnlyAsKnown
  BY DEF Commands
<1> QED
  BY <1>1, CommandsCorrect, PTL

\* An undo block that a command began is ended when it returns, also by an
\* exception, where REAPER can end blocks.
THEOREM BlocksAreEndedCorrect == Spec => []BlocksAreEnded
<1>1. Commands => BlocksAreEnded
  BY DEF Commands
<1> QED
  BY <1>1, CommandsCorrect, PTL

\* Of what a client asks for nothing is left out when success is reported, but
\* by four commands.
THEOREM LossesOnlyAsKnownCorrect == Spec => []LossesOnlyAsKnown
<1>1. Commands => LossesOnlyAsKnown
  BY DEF Commands, InHandler, Runs, LossesOnlyAsKnown, Lossy
<1> QED
  BY <1>1, CommandsCorrect, PTL

-----------------------------------------------------------------------------
(***************************************************************************)
(* The configuration.  load_config goes through the lines of the file one  *)
(* by one; of any number of them it has the port of the last that gives    *)
(* one, and the address of the last that gives one.                        *)
(***************************************************************************)
Loaded(lines) == FoldLeft(ConfigLine, DefaultConfig, lines)

Configs == [bind : Values, port : Int]

LEMMA DefaultIsConfig == DefaultConfig \in Configs
<1>1. AllAddresses \in Addresses
  BY AddressesAssumption DEF AddressesAssumption
<1>2. 0 \in Int /\ 9876 \in Int
  OBVIOUS
<1> HIDE DEF AllAddresses
<1> QED
  BY <1>1, <1>2 DEF DefaultConfig, Configs, Values, AddressText

Line == [key : Keys, value : Values]

LEMMA ConfigLineType ==
    \A c \in Configs, line \in Line :
        /\ ConfigLine(c, line) \in Configs
        /\ ConfigLine(c, line).port =
               IF line.key = "port" /\ line.value.number # <<>> THEN line.value.number[1]
               ELSE c.port
        /\ ConfigLine(c, line).bind = IF line.key = "bind" THEN line.value ELSE c.bind
<1> SUFFICES ASSUME NEW c \in Configs, NEW line \in Line
             PROVE  /\ ConfigLine(c, line) \in Configs
                    /\ ConfigLine(c, line).port =
                           IF line.key = "port" /\ line.value.number # <<>>
                             THEN line.value.number[1] ELSE c.port
                    /\ ConfigLine(c, line).bind =
                           IF line.key = "bind" THEN line.value ELSE c.bind
  OBVIOUS
<1>1. line.value \in Values /\ line.value.number \in Seq(Int)
  BY DEF Line, Values
<1>2. line.value.number # <<>> => line.value.number[1] \in Int
  <2> DEFINE n == line.value.number
  <2>1. n \in Seq(Int)
    BY <1>1
  <2> HIDE DEF n
  <2>2. n # <<>> => n[1] \in Int
    BY <2>1
  <2> QED
    BY <2>2 DEF n
<1> QED
  BY <1>1, <1>2 DEF ConfigLine, Configs

LEMMA LoadedUnfolds ==
    ASSUME NEW lines \in Seq(Line)
    PROVE  \E h : /\ Loaded(lines) = h[1 .. Len(lines)]
                  /\ h[1 .. 0] = DefaultConfig
                  /\ \A k \in 1 .. Len(lines) :
                        h[1 .. k] = ConfigLine(h[1 .. k - 1], lines[k])
<1> DEFINE N == Len(lines)
           F == [p \in Configs \X (1 .. N) |-> ConfigLine(p[1], lines[p[2]])]
           Def(h) == [s \in SUBSET (1 .. N) |->
                         IF s = {} THEN DefaultConfig
                         ELSE ConfigLine(h[s \ {Max(s)}], lines[Max(s)])]
           iter == CHOOSE h : h = Def(h)
<1>0. N \in Nat /\ \A k \in 1 .. N : lines[k] \in Line
  OBVIOUS
<1>1. Loaded(lines) = iter[1 .. N]
  <2>1. DOMAIN lines = 1 .. N
    OBVIOUS
  <2> QED
    BY <2>1 DEF Loaded, FoldLeft, MapThenFoldSet
<1>2. \E h : h = Def(h)
  <2>1. F \in [Configs \X (1 .. N) -> Configs]
    <3>1. ASSUME NEW p \in Configs \X (1 .. N)
          PROVE  ConfigLine(p[1], lines[p[2]]) \in Configs
      <4>1. p[1] \in Configs /\ p[2] \in 1 .. N
        OBVIOUS
      <4>2. lines[p[2]] \in Line
        BY <1>0, <4>1
      <4> QED
        BY <4>1, <4>2, ConfigLineType
    <3> QED
      BY <3>1
  <2>2. PICK h \in [SUBSET (1 .. N) -> Configs] : Folds(h, F, DefaultConfig, N)
    <3> HIDE DEF F, N
    <3> QED
      BY <1>0, <2>1, DefaultIsConfig, FoldExists
  <2>3. ASSUME NEW s \in SUBSET (1 .. N), s # {}
        PROVE  Max(s) \in 1 .. N /\ h[s \ {Max(s)}] \in Configs
    <3>1. s \subseteq 1 .. N /\ s \ {Max(s)} \in SUBSET (1 .. N)
      OBVIOUS
    <3>2. Max(s) \in s
      BY <1>0, <2>3, <3>1, MaxInRange
    <3> HIDE DEF N
    <3> QED
      BY <3>1, <3>2
  <2>4. ASSUME NEW s \in SUBSET (1 .. N)
        PROVE  h[s] = Def(h)[s]
    <3>1. h[s] = IF s = {} THEN DefaultConfig ELSE F[<<h[s \ {Max(s)}], Max(s)>>]
      BY <2>2 DEF Folds
    <3>2. s # {} => F[<<h[s \ {Max(s)}], Max(s)>>]
                        = ConfigLine(h[s \ {Max(s)}], lines[Max(s)])
      BY <2>3
    <3> HIDE DEF F
    <3> QED
      BY <3>1, <3>2
  <2>5. h = Def(h)
    BY <2>4
  <2> QED
    BY <2>5
<1>3. iter = Def(iter)
  BY <1>2
<1> HIDE DEF iter
<1>4. \A s \in SUBSET (1 .. N) : iter[s] = Def(iter)[s]
  BY <1>3
<1>5. ASSUME NEW k \in 1 .. N
      PROVE  iter[1 .. k] = ConfigLine(iter[1 .. k - 1], lines[k])
  <2>1. k \in Nat \ {0} /\ 1 .. k \in SUBSET (1 .. N)
    BY <1>0
  <2>2. 1 .. k # {} /\ Max(1 .. k) = k /\ (1 .. k) \ {Max(1 .. k)} = 1 .. k - 1
    BY <2>1, Prefix
  <2> QED
    BY <1>4, <2>1, <2>2
<1>6. iter[1 .. 0] = DefaultConfig
  <2>1. 1 .. 0 \in SUBSET (1 .. N) /\ 1 .. 0 = {}
    OBVIOUS
  <2> QED
    BY <1>4, <2>1
<1> QED
  BY <1>1, <1>5, <1>6

\* The lines that give a port, and those that give an address, of the first k.
Ports(lines, k) == {i \in 1 .. k : lines[i].key = "port" /\ lines[i].value.number # <<>>}
Binds(lines, k) == {i \in 1 .. k : lines[i].key = "bind"}

LEMMA LastOf ==
    ASSUME NEW k \in Nat, NEW s, NEW t, s \subseteq 1 .. k + 1, t \subseteq 1 .. k,
           \A i \in 1 .. k : i \in s <=> i \in t
    PROVE  /\ k + 1 \in s => s # {} /\ Max(s) = k + 1
           /\ k + 1 \notin s => s = t
<1>1. ASSUME k + 1 \in s
      PROVE  Max(s) = k + 1
  <2>1. k + 1 \in Nat
    OBVIOUS
  <2> QED
    BY <1>1, <2>1, MaxIsLast
<1>2. ASSUME k + 1 \notin s
      PROVE  s = t
  <2>1. \A i \in s : i \in 1 .. k
    BY <1>2
  <2> QED
    BY <2>1
<1> QED
  BY <1>1, <1>2

HasLast(c, lines, k) ==
    /\ c \in Configs
    /\ c.port = IF Ports(lines, k) = {} THEN 9876
                ELSE lines[Max(Ports(lines, k))].value.number[1]
    /\ c.bind.address = IF Binds(lines, k) = {} THEN <<AllAddresses>>
                        ELSE lines[Max(Binds(lines, k))].value.address

LEMMA LoadedHasLast ==
    ASSUME NEW lines \in Seq(Line)
    PROVE  HasLast(Loaded(lines), lines, Len(lines))
<1>1. PICK h : /\ Loaded(lines) = h[1 .. Len(lines)]
               /\ h[1 .. 0] = DefaultConfig
               /\ \A k \in 1 .. Len(lines) :
                     h[1 .. k] = ConfigLine(h[1 .. k - 1], lines[k])
  BY LoadedUnfolds
<1> DEFINE T == {k \in Nat : k <= Len(lines) => HasLast(h[1 .. k], lines, k)}
<1>2. 0 \in T
  <2>1. Ports(lines, 0) = {} /\ Binds(lines, 0) = {}
    BY DEF Ports, Binds
  <2>2. DefaultConfig.port = 9876 /\ DefaultConfig.bind.address = <<AllAddresses>>
    BY DEF DefaultConfig, AddressText
  <2>3. HasLast(DefaultConfig, lines, 0)
    BY <2>1, <2>2, DefaultIsConfig DEF HasLast
  <2> QED
    BY <1>1, <2>3
<1>3. ASSUME NEW k \in Nat, k \in T
      PROVE  k + 1 \in T
  <2> SUFFICES ASSUME k + 1 <= Len(lines)
               PROVE  HasLast(h[1 .. k + 1], lines, k + 1)
    OBVIOUS
  <2> DEFINE c == h[1 .. k]
             d == h[1 .. k + 1]
             line == lines[k + 1]
             p == Ports(lines, k + 1)
             b == Binds(lines, k + 1)
  <2>1. k + 1 \in 1 .. Len(lines) /\ (k + 1) - 1 = k /\ k <= Len(lines)
    OBVIOUS
  <2>2. HasLast(c, lines, k) /\ line \in Line /\ d = ConfigLine(c, line)
    BY <1>1, <1>3, <2>1
  <2>3. /\ d \in Configs
        /\ d.port = IF line.key = "port" /\ line.value.number # <<>>
                      THEN line.value.number[1] ELSE c.port
        /\ d.bind = IF line.key = "bind" THEN line.value ELSE c.bind
    <3> HIDE DEF c, d, line
    <3>1. c \in Configs
      BY <2>2 DEF HasLast
    <3> QED
      BY <2>2, <3>1, ConfigLineType, Zenon
  <2>4. /\ k + 1 \in p => p # {} /\ Max(p) = k + 1
        /\ k + 1 \notin p => p = Ports(lines, k)
    <3>1. /\ p \subseteq 1 .. k + 1 /\ Ports(lines, k) \subseteq 1 .. k
          /\ \A i \in 1 .. k : i \in p <=> i \in Ports(lines, k)
      BY DEF Ports
    <3> HIDE DEF p
    <3> QED
      BY <3>1, LastOf
  <2>5. /\ k + 1 \in b => b # {} /\ Max(b) = k + 1
        /\ k + 1 \notin b => b = Binds(lines, k)
    <3>1. /\ b \subseteq 1 .. k + 1 /\ Binds(lines, k) \subseteq 1 .. k
          /\ \A i \in 1 .. k : i \in b <=> i \in Binds(lines, k)
      BY DEF Binds
    <3> HIDE DEF b
    <3> QED
      BY <3>1, LastOf
  <2>6. /\ k + 1 \in p <=> line.key = "port" /\ line.value.number # <<>>
        /\ k + 1 \in b <=> line.key = "bind"
    BY <2>1 DEF Ports, Binds
  <2> HIDE DEF c, d, p, b
  <2>7. d.port = IF p = {} THEN 9876 ELSE lines[Max(p)].value.number[1]
    BY <2>2, <2>3, <2>4, <2>6 DEF HasLast
  <2>8. d.bind.address = IF b = {} THEN <<AllAddresses>> ELSE lines[Max(b)].value.address
    BY <2>2, <2>3, <2>5, <2>6 DEF HasLast
  <2>9. HasLast(d, lines, k + 1)
    BY <2>3, <2>7, <2>8 DEF HasLast, p, b
  <2> QED
    BY <2>9 DEF d
<1> HIDE DEF T
<1>4. Len(lines) \in T
  <2>1. Len(lines) \in Nat
    OBVIOUS
  <2> QED
    BY <1>2, <1>3, <2>1, NatSetInduction
<1>5. HasLast(h[1 .. Len(lines)], lines, Len(lines))
  BY <1>4 DEF T
<1> QED
  BY <1>1, <1>5

\* The file load_config writes says what it takes without one.
LEMMA DefaultsAgree ==
    /\ <<>> \in Seq(Line) /\ DefaultFile \in Seq(Line)
    /\ Loaded(<<>>) = DefaultConfig
    /\ Loaded(DefaultFile) = DefaultConfig
<1> DEFINE f == DefaultFile
<1>1. <<>> \in Seq(Line)
  OBVIOUS
<1>2. f \in Seq(Line)
  <2>1. AllAddresses \in Addresses
    BY AddressesAssumption DEF AddressesAssumption
  <2>2. NumberText(0) \in Values /\ NumberText(9876) \in Values
        /\ AddressText(0, AllAddresses) \in Values
    <3> HIDE DEF AllAddresses
    <3> QED
      BY <2>1 DEF NumberText, AddressText, Values
  <2> HIDE DEF NumberText, AddressText
  <2>3. /\ [key |-> "none", value |-> NumberText(0)] \in Line
        /\ [key |-> "port", value |-> NumberText(9876)] \in Line
        /\ [key |-> "bind", value |-> AddressText(0, AllAddresses)] \in Line
    BY <2>2 DEF Line, Keys
  <2> QED
    BY <2>3 DEF DefaultFile
<1>3. Loaded(<<>>) = DefaultConfig
  <2>1. PICK h : Loaded(<<>>) = h[1 .. Len(<<>>)] /\ h[1 .. 0] = DefaultConfig
    BY <1>1, LoadedUnfolds
  <2>2. Len(<<>>) = 0
    OBVIOUS
  <2> QED
    BY <2>1, <2>2
<1>4. Loaded(f) = DefaultConfig
  <2>1. PICK h : /\ Loaded(f) = h[1 .. Len(f)]
                 /\ h[1 .. 0] = DefaultConfig
                 /\ \A k \in 1 .. Len(f) : h[1 .. k] = ConfigLine(h[1 .. k - 1], f[k])
    <3> HIDE DEF f
    <3> QED
      BY <1>2, LoadedUnfolds
  <2>2. /\ Len(f) = 3
        /\ f[1] = [key |-> "none", value |-> NumberText(0)]
        /\ f[2] = [key |-> "port", value |-> NumberText(9876)]
        /\ f[3] = [key |-> "bind", value |-> AddressText(0, AllAddresses)]
    BY DEF DefaultFile
  <2> HIDE DEF f
  <2>3. /\ h[1 .. 1] = ConfigLine(h[1 .. 0], f[1])
        /\ h[1 .. 2] = ConfigLine(h[1 .. 1], f[2])
        /\ h[1 .. 3] = ConfigLine(h[1 .. 2], f[3])
    <3>0. Len(f) = 3
      BY <2>2
    <3>1. \A k \in 1 .. 3 : h[1 .. k] = ConfigLine(h[1 .. k - 1], f[k])
      BY <2>1, <3>0, Zenon
    <3>2. 1 \in 1 .. 3 /\ 2 \in 1 .. 3 /\ 3 \in 1 .. 3 /\ 1 - 1 = 0 /\ 2 - 1 = 1 /\ 3 - 1 = 2
      OBVIOUS
    <3> QED
      BY <3>1, <3>2
  <2>4. ConfigLine(DefaultConfig, f[1]) = DefaultConfig
    BY <2>2 DEF ConfigLine
  <2>5. ConfigLine(DefaultConfig, f[2]) = DefaultConfig
    BY <2>2 DEF ConfigLine, DefaultConfig, NumberText
  <2>6. ConfigLine(DefaultConfig, f[3]) = DefaultConfig
    BY <2>2 DEF ConfigLine, DefaultConfig
  <2> QED
    BY <2>1, <2>2, <2>3, <2>4, <2>5, <2>6
<1> QED
  BY <1>1, <1>2, <1>3, <1>4

-----------------------------------------------------------------------------
(***************************************************************************)
(* The entry loads the file once in a session, before it starts the        *)
(* server; the server and the console have what it loaded.                 *)
(***************************************************************************)
Before == stage \in {"off", "resolving", "resolved", "registered"}

\* What load_config would read, with or without a file.
Written == IF file = <<>> THEN <<>> ELSE file[1]

AddressOf(c) == IF c.bind.address = <<>> THEN AllAddresses ELSE c.bind.address[1]

Listens(socket, c) ==
    /\ socket \in [address : Addresses, port : PortNumbers]
    /\ socket.address = AddressOf(c)
    /\ Port(c.port) # 0 => socket.port = Port(c.port)

FromFile ==
    /\ host \in Installations
    /\ file = <<>> \/ (Len(file) = 1 /\ file[1] \in Seq(Line))
    /\ read \in Seq(Line)
    /\ Before => config = <<>> /\ told = <<>> /\ listening = <<>>
    /\ stage = "configured" => config # <<>> /\ told = <<>> /\ listening = <<>>
    /\ config # <<>> => config = <<Loaded(read)>>
    /\ told # <<>> => told = <<Loaded(read).port>>
    /\ listening # <<>> =>
           /\ listening = <<listening[1]>>
           /\ Listens(listening[1], Loaded(read))
    /\ settled # <<>> => settled = <<Loaded(Written)>>

LEMMA LinesAre == Lines = Seq(Line)
  BY DEF Lines, Line

LEMMA FilesAre ==
    \A h \in Installations : \A f \in h.files :
        f = <<>> \/ (Len(f) = 1 /\ f[1] \in Seq(Line))
  BY InstallationsAssumption, LinesAre DEF InstallationsAssumption

LEMMA FromFileInit == Init => FromFile
  BY FilesAre, DefaultsAgree DEF Init, FromFile, Before

LEMMA PortIs ==
    \A n \in Int : /\ Port(n) = 0 \/ Port(n) \in PortNumbers
                   /\ n \in PortNumbers => Port(n) = n /\ Port(n) # 0
<1>1. NumbersOf16Bits \in Nat \ {0}
  BY DEF NumbersOf16Bits
<1>2. \A n \in Int : Port(n) \in Int /\ 0 <= Port(n) /\ Port(n) < NumbersOf16Bits
  BY <1>1 DEF Port
<1>3. \A n \in Nat : n < NumbersOf16Bits => Port(n) = n
  BY <1>1 DEF Port
<1>4. \A n : n \in PortNumbers <=> n \in Nat /\ n # 0 /\ n < NumbersOf16Bits
  BY <1>1 DEF PortNumbers
<1> QED
  BY <1>1, <1>2, <1>3, <1>4

LEMMA SocketIs ==
    ASSUME NEW c \in Configs
    PROVE  /\ SocketAddress(c) = [address |-> AddressOf(c), port |-> Port(c.port)]
           /\ AddressOf(c) \in Addresses /\ (Port(c.port) = 0 \/ Port(c.port) \in PortNumbers)
<1> DEFINE a == c.bind.address
<1>1. a \in Seq(Addresses) /\ c.port \in Int /\ AllAddresses \in Addresses
  BY AddressesAssumption DEF Configs, Values, AddressesAssumption
<1>2. (Port(c.port) = 0 \/ Port(c.port) \in PortNumbers)
  BY <1>1, PortIs, Zenon
<1>3. SocketAddress(c) = [address |-> AddressOf(c), port |-> Port(c.port)]
  BY Zenon DEF SocketAddress, AddressOf
<1> HIDE DEF a
<1>4. a # <<>> => a[1] \in Addresses
  BY <1>1
<1>5. AddressOf(c) = IF a = <<>> THEN AllAddresses ELSE a[1]
  BY Zenon DEF AddressOf, a
<1>6. AddressOf(c) \in Addresses
  BY <1>1, <1>4, <1>5, Zenon
<1> QED
  BY <1>2, <1>3, <1>6

LEMMA FromFileLoad == FromFile /\ LoadConfig => FromFile'
<1> SUFFICES ASSUME FromFile, LoadConfig
             PROVE  FromFile'
  OBVIOUS
<1>1. /\ stage = "registered" /\ stage' = "configured" /\ config' = <<Loaded(read')>>
      /\ settled' = config' /\ UNCHANGED <<host, listening, told>>
  BY DEF LoadConfig, Loaded
<1>2. listening' = <<>> /\ told' = <<>> /\ config' # <<>>
  BY <1>1 DEF FromFile, Before
<1>3. /\ file' = <<>> \/ (Len(file') = 1 /\ file'[1] \in Seq(Line))
      /\ read' \in Seq(Line)
      /\ Loaded(read') = Loaded(Written')
  <2>1. CASE file = <<>>
    <3>1. file' \in {<<>>, <<(<<>>)>>, <<DefaultFile>>} /\ read' = <<>>
      BY <2>1 DEF LoadConfig
    <3>2. /\ file' = <<>> => Written' = <<>>
          /\ file' = <<(<<>>)>> => Written' = <<>> /\ Len(file') = 1 /\ file'[1] = <<>>
          /\ file' = <<DefaultFile>> => Written' = DefaultFile /\ Len(file') = 1
                                        /\ file'[1] = DefaultFile
      <4> HIDE DEF DefaultFile
      <4> QED
        BY DEF Written
    <3> QED
      BY <3>1, <3>2, DefaultsAgree, Zenon
  <2>2. CASE file # <<>>
    <3>1. read' = file[1] /\ file' = file
      BY <2>2 DEF LoadConfig
    <3>2. Written' = file[1]
      BY <2>2, <3>1 DEF Written
    <3> QED
      BY <2>2, <3>1, <3>2 DEF FromFile
  <2> QED
    BY <2>1, <2>2
<1>4. (host \in Installations)'
  BY <1>1 DEF FromFile
<1>5. settled' = <<Loaded(Written')>>
  BY <1>1, <1>3
<1> QED
  BY <1>1, <1>2, <1>3, <1>4, <1>5 DEF FromFile, Before

LEMMA FromFileStart == FromFile /\ (StartServer \/ StartServerFails) => FromFile'
<1> SUFFICES ASSUME FromFile, StartServer \/ StartServerFails
             PROVE  FromFile'
  OBVIOUS
<1> DEFINE c == Loaded(read)
<1>1. /\ stage = "configured" /\ stage' = "ready" /\ told' = <<config[1].port>>
      /\ UNCHANGED <<host, file, config, read, settled>>
  BY DEF StartServer, StartServerFails
<1>2. config = <<c>> /\ config[1] = c /\ listening = <<>>
  BY <1>1 DEF FromFile
<1>3. c \in Configs
  BY LoadedHasLast DEF FromFile, HasLast
<1> HIDE DEF c
<1>4. told' = <<c.port>>
  BY <1>1, <1>2
<1>5. listening' = <<>> \/ \E s : listening' = <<s>> /\ Listens(s, c)
  <2>1. CASE StartServerFails
    BY <1>2, <2>1 DEF StartServerFails
  <2>2. CASE StartServer
    <3> DEFINE a == AddressOf(c)
               q == Port(c.port)
               addr == [address |-> a, port |-> q]
    <3>1. SocketAddress(c) = addr /\ a \in Addresses /\ (q = 0 \/ q \in PortNumbers)
      BY <1>3, SocketIs
    <3>2. PICK p \in IF SocketAddress(c).port = 0 THEN Ephemeral ELSE {SocketAddress(c).port} :
             listening' = <<[SocketAddress(c) EXCEPT !.port = p]>>
      BY <1>2, <2>2 DEF StartServer
    <3>3. SocketAddress(c).port = q
      BY <3>1
    <3>4. p \in PortNumbers /\ (q # 0 => p = q)
      <4> HIDE DEF q
      <4> QED
        BY <3>1, <3>2, <3>3, PortsAssumption DEF PortsAssumption
    <3> DEFINE s == [address |-> a, port |-> p]
    <3>5. [SocketAddress(c) EXCEPT !.port = p] = s
      BY <3>1
    <3>6. Listens(s, c)
      <4> HIDE DEF a, q
      <4>1. s \in [address : Addresses, port : PortNumbers] /\ s.address = a /\ s.port = p
        BY <3>1, <3>4
      <4> HIDE DEF s
      <4> QED
        BY <3>4, <4>1 DEF Listens, a, q
    <3> HIDE DEF s
    <3> QED
      BY <3>2, <3>5, <3>6
  <2> QED
    BY <2>1, <2>2
<1>6. listening' # <<>> => listening' = <<listening'[1]>> /\ Listens(listening'[1], c)
  BY <1>5
<1>7. (Listens(listening[1], Loaded(read)))' <=> Listens(listening'[1], c)
  BY <1>1 DEF c, Listens
<1>8. Written' = Written
  BY <1>1 DEF Written
<1>9. (listening # <<>> => listening = <<listening[1]>> /\ Listens(listening[1], Loaded(read)))'
  BY <1>6, <1>7
<1>10. (told # <<>> => told = <<Loaded(read).port>>)'
  BY <1>1, <1>4 DEF c
<1>11. (settled # <<>> => settled = <<Loaded(Written)>>)'
  BY <1>1, <1>8 DEF FromFile
<1> QED
  BY <1>1, <1>9, <1>10, <1>11 DEF FromFile, Before

LEMMA FromFileOthers ==
    /\ FromFile
    /\ \/ Load \/ Require \/ Resolve \/ RegisterTimer \/ (\E h \in Handlers : CallCommand(h))
       \/ PassOver \/ LeaveOut \/ CallFunction \/ ThrowException \/ Return \/ NullCall
       \/ UNCHANGED vars
    => FromFile'
<1> SUFFICES ASSUME FromFile,
                    \/ Load \/ Require \/ Resolve \/ RegisterTimer
                    \/ (\E h \in Handlers : CallCommand(h))
                    \/ PassOver \/ LeaveOut \/ CallFunction \/ ThrowException \/ Return
                    \/ NullCall \/ UNCHANGED vars
             PROVE  FromFile'
  OBVIOUS
<1>1. UNCHANGED <<host, file, config, told, listening, read, settled>>
  BY DEF Load, Require, Resolve, RegisterTimer, CallCommand, PassOver, LeaveOut, CallFunction,
         ThrowException, Return, NullCall, command_only, vars, in_process
<1>2. (Before' => Before) /\ (stage' = "configured" => stage = "configured")
  BY DEF Load, Require, Resolve, RegisterTimer, CallCommand, PassOver, LeaveOut, CallFunction,
         ThrowException, Return, NullCall, vars, in_process, Before, InCommand, Reached
<1> QED
  BY <1>1, <1>2 DEF FromFile, Listens, Written

LEMMA FromFileSessions == FromFile /\ (NextSession \/ EditFile) => FromFile'
<1> SUFFICES ASSUME FromFile, NextSession \/ EditFile
             PROVE  FromFile'
  OBVIOUS
<1>1. CASE NextSession
  <2>1. /\ config' = <<>> /\ told' = <<>> /\ listening' = <<>> /\ stage' = "off"
        /\ UNCHANGED <<host, file, read, settled>>
    BY <1>1 DEF NextSession
  <2> QED
    BY <2>1 DEF FromFile, Before, Written
<1>2. CASE EditFile
  <2>1. /\ file' \in host.files /\ settled' = <<>>
        /\ UNCHANGED <<host, stage, config, told, listening, read>>
    BY <1>2 DEF EditFile, in_process
  <2>2. file' = <<>> \/ (Len(file') = 1 /\ file'[1] \in Seq(Line))
    BY <2>1, FilesAre DEF FromFile
  <2> QED
    BY <2>1, <2>2 DEF FromFile, Before, Listens
<1> QED
  BY <1>1, <1>2

LEMMA FromFileNext == FromFile /\ [Next]_vars => FromFile'
  BY FromFileLoad, FromFileStart, FromFileOthers, FromFileSessions DEF Next

THEOREM FromFileCorrect == Spec => []FromFile
  BY FromFileInit, FromFileNext, PTL DEF Spec

\* The server listens where the last line for it in the file says, and the
\* console names the port of the file, whatever the lines.
THEOREM ListensAsConfiguredCorrect == Spec => []ListensAsConfigured
<1>1. FromFile => ListensAsConfigured
  <2> SUFFICES ASSUME FromFile
               PROVE  ListensAsConfigured
    OBVIOUS
  <2> DEFINE c == Loaded(read)
  <2>1. c \in Configs /\ c.port = PortMeant /\ c.bind.address = BindMeant
    <3>1. HasLast(c, read, Len(read)) /\ DOMAIN read = 1 .. Len(read)
      BY LoadedHasLast DEF FromFile
    <3>2. Ports(read, Len(read)) = PortLines /\ Binds(read, Len(read)) = BindLines
      BY <3>1 DEF Ports, Binds, PortLines, BindLines
    <3> HIDE DEF c
    <3>3. c \in Configs /\ c.port = PortMeant
      BY <3>1, <3>2 DEF HasLast, PortMeant
    <3>4. c.bind.address = BindMeant
      BY <3>1, <3>2 DEF HasLast, BindMeant
    <3> QED
      BY <3>3, <3>4
  <2>2. told # <<>> => told = <<c.port>>
    BY DEF FromFile
  <2>3. listening # <<>> => listening = <<listening[1]>> /\ Listens(listening[1], c)
    BY DEF FromFile
  <2> HIDE DEF c
  <2>4. \A s \in Range(listening) : s = listening[1] /\ Listens(s, c)
    <3>1. CASE listening = <<>>
      BY <3>1 DEF Range
    <3>2. CASE listening # <<>>
      <4>1. PICK t : listening = <<t>> /\ Listens(t, c)
        BY <2>3, <3>2, Zenon
      <4> QED
        BY <4>1 DEF Range
    <3> QED
      BY <3>1, <3>2
  <2>5. ASSUME NEW s \in Range(listening)
        PROVE  /\ PortMeant \in PortNumbers => s.port = PortMeant
               /\ s.address = IF BindMeant = <<>> THEN AllAddresses ELSE BindMeant[1]
    <3>1. Listens(s, c)
      BY <2>4
    <3>2. PortMeant \in PortNumbers => Port(c.port) = PortMeant /\ Port(c.port) # 0
      <4>1. c.port \in Int
        BY <2>1 DEF Configs
      <4> QED
        BY <2>1, <4>1, PortIs, Zenon
    <3>3. AddressOf(c) = IF BindMeant = <<>> THEN AllAddresses ELSE BindMeant[1]
      BY <2>1, Zenon DEF AddressOf
    <3> QED
      BY <3>1, <3>2, <3>3 DEF Listens
  <2> QED
    BY <2>1, <2>2, <2>5 DEF ListensAsConfigured
<1> QED
  BY <1>1, FromFileCorrect, PTL

\* A session runs with the configuration of the one before, if nobody edited
\* the file: also when that one wrote it, or could not.
THEOREM RestartKeepsCorrect == Spec => RestartKeeps
<1>1. FromFile /\ FromFile' /\ [Next]_vars =>
          [stage = "registered" /\ stage' = "configured" /\ settled # <<>>
             => config' = settled]_vars
  <2> SUFFICES ASSUME FromFile, [Next]_vars, stage = "registered", stage' = "configured",
                      settled # <<>>
               PROVE  config' = settled
    OBVIOUS
  <2>1. LoadConfig
    BY DEF Next, Load, Require, Resolve, RegisterTimer, StartServer, StartServerFails,
           CallCommand, PassOver, LeaveOut, CallFunction, ThrowException, Return, NullCall,
           NextSession, EditFile, InCommand, Reached, vars, in_process
  <2>2. config' = <<Loaded(read')>> /\ settled = <<Loaded(Written)>>
    BY <2>1 DEF LoadConfig, Loaded, FromFile
  <2>3. read' = Written
    BY <2>1 DEF LoadConfig, Written
  <2> QED
    BY <2>2, <2>3
<1> QED
  BY <1>1, FromFileCorrect, PTL DEF Spec, RestartKeeps

-----------------------------------------------------------------------------
(***************************************************************************)
(* Every variable has its type: what is left to say beside the two         *)
(* invariants above.                                                       *)
(***************************************************************************)
Stages == {"off", "resolving", "resolved", "registered", "configured", "ready", "running",
           "failing", "refused", "crashed"}
Methods == {"none"} \cup {h.method : h \in Handlers}

Typed ==
    /\ session \in 1 .. MaxSessions
    /\ stage \in Stages
    /\ api \subseteq Functions \ host.lacks
    /\ timer \in BOOLEAN
    /\ method \in Methods
    /\ lost \in BOOLEAN

LEMMA TypedInit == Init => Typed
<1>1. 1 \in 1 .. MaxSessions
  BY PortsAssumption DEF PortsAssumption
<1> QED
  BY <1>1 DEF Init, Typed, Stages, Methods, Unresolved

LEMMA TypedEntry == Typed /\ Commands /\ (Require \/ Resolve) => Typed'
<1> SUFFICES ASSUME Typed, Commands, Require \/ Resolve
             PROVE  Typed'
  OBVIOUS
<1>1. UNCHANGED <<host, session, timer, method, lost>> /\ stage' \in Stages
  BY DEF Require, Resolve, in_command, Typed, Stages
<1>2. api' \subseteq Functions \ host.lacks
  <2>1. CASE Require
    <3>1. PICK k \in 0 .. 6 : api = FirstOf(k)
      BY <2>1 DEF Require, Commands, Resolving
    <3>2. Cardinality(api) = k /\ k + 1 \in 1 .. 6
      BY <2>1, <3>1, CountFirst, SixCritical DEF Require
    <3>3. Critical[k + 1] \in Functions
      BY <3>2, SixCritical DEF Functions, Range
    <3>4. api' = api \/ (Critical[k + 1] \notin host.lacks /\ api' = api \cup {Critical[k + 1]})
      BY <2>1, <3>2 DEF Require
    <3> QED
      BY <3>3, <3>4 DEF Typed
  <2>2. CASE Resolve
    <3>1. api' = api \cup (Optional \ host.lacks)
      BY <2>2 DEF Resolve
    <3> QED
      BY <3>1 DEF Typed, Functions
  <2> QED
    BY <2>1, <2>2
<1> QED
  BY <1>1, <1>2 DEF Typed

LEMMA TypedCommand ==
    Typed /\ ((\E h \in Handlers : CallCommand(h)) \/ PassOver \/ LeaveOut \/ CallFunction
              \/ ThrowException \/ Return \/ NullCall) /\ Commands => Typed'
<1> SUFFICES ASSUME Typed, Commands,
                    \/ \E h \in Handlers : CallCommand(h)
                    \/ PassOver \/ LeaveOut \/ CallFunction \/ ThrowException
                    \/ Return \/ NullCall
             PROVE  Typed'
  OBVIOUS
<1>1. UNCHANGED <<host, session, api, timer>>
  BY DEF CallCommand, PassOver, LeaveOut, CallFunction, ThrowException, Return, NullCall,
         command_only
<1>2. CASE \E h \in Handlers : CallCommand(h)
  <2>1. stage' = "running" /\ lost' = FALSE /\ \E h \in Handlers : method' = h.method
    BY <1>2 DEF CallCommand
  <2>2. method' \in Methods
    BY <2>1 DEF Methods
  <2> QED
    BY <1>1, <2>1, <2>2 DEF Typed, Stages
<1>3. CASE PassOver \/ CallFunction \/ ThrowException \/ NullCall
  <2>1. stage' \in {stage, "failing", "crashed"} /\ lost' = lost /\ method' = method
    BY <1>3 DEF PassOver, CallFunction, ThrowException, NullCall, in_command
  <2> QED
    BY <1>1, <2>1 DEF Typed, Stages
<1>4. CASE LeaveOut
  <2>1. stage' = stage /\ method' = method
    BY <1>4 DEF LeaveOut
  <2>2. lost' \in BOOLEAN
    <3>1. lost' = (lost \/ Current.asked)
      BY <1>4 DEF LeaveOut
    <3> HIDE DEF Current
    <3> QED
      BY <3>1, Zenon
  <2> QED
    BY <1>1, <2>1, <2>2 DEF Typed
<1>5. CASE Return
  <2>1. stage' = "ready" /\ method' = "none" /\ lost' = FALSE
    BY <1>5 DEF Return
  <2> QED
    BY <1>1, <2>1 DEF Typed, Stages, Methods
<1> QED
  BY <1>2, <1>3, <1>4, <1>5

LEMMA TypedOthers ==
    Typed /\ (Load \/ RegisterTimer \/ LoadConfig \/ StartServer \/ StartServerFails
              \/ NextSession \/ EditFile \/ UNCHANGED vars) => Typed'
<1> SUFFICES ASSUME Typed, Load \/ RegisterTimer \/ LoadConfig \/ StartServer
                           \/ StartServerFails \/ NextSession \/ EditFile \/ UNCHANGED vars
             PROVE  Typed'
  OBVIOUS
<1>1. CASE Load \/ RegisterTimer \/ LoadConfig \/ StartServer \/ StartServerFails \/ EditFile
           \/ UNCHANGED vars
  <2>1. UNCHANGED <<host, session, api, method, lost>>
    BY <1>1 DEF Load, RegisterTimer, LoadConfig, StartServer, StartServerFails, EditFile,
                vars, in_process, in_command
  <2>2. stage' \in Stages /\ timer' \in BOOLEAN
    BY <1>1 DEF Load, RegisterTimer, LoadConfig, StartServer, StartServerFails, EditFile,
                vars, in_process, in_command, Stages, Typed
  <2> QED
    BY <2>1, <2>2 DEF Typed
<1>2. CASE NextSession
  <2>1. /\ session < MaxSessions /\ session' = session + 1 /\ stage' = "off" /\ api' = {}
        /\ timer' = FALSE /\ method' = "none" /\ lost' = FALSE
    BY <1>2 DEF NextSession, Unresolved
  <2>2. session' \in 1 .. MaxSessions
    BY <2>1, PortsAssumption DEF PortsAssumption, Typed
  <2> QED
    BY <2>1, <2>2 DEF Typed, Stages, Methods
<1> QED
  BY <1>1, <1>2

LEMMA TypedNext == Typed /\ Commands /\ [Next]_vars => Typed'
  BY TypedEntry, TypedCommand, TypedOthers DEF Next

LEMMA TypesFollow == Typed /\ Commands /\ FromFile => TypeOK
<1> SUFFICES ASSUME Typed, Commands, FromFile
             PROVE  TypeOK
  OBVIOUS
<1>1. \A lines \in Seq(Line) : Loaded(lines) \in Configs
  BY LoadedHasLast DEF HasLast
<1>2. \A c \in Configs : IsConfig(c)
  BY DEF Configs, IsConfig
<1>3. Loaded(read) \in Configs /\ Loaded(Written) \in Configs
  <2>1. Written \in Seq(Line)
    <3>1. file = <<>> => Written = <<>>
      BY DEF Written
    <3>2. file # <<>> => Written = file[1] /\ file[1] \in Seq(Line)
      BY DEF Written, FromFile
    <3> QED
      BY <3>1, <3>2, DefaultsAgree
  <2> QED
    BY <1>1, <2>1 DEF FromFile
<1> HIDE DEF Loaded
<1>4. config = <<>> \/ (Len(config) = 1 /\ IsConfig(config[1]))
  BY <1>2, <1>3 DEF FromFile
<1>5. settled = <<>> \/ (Len(settled) = 1 /\ IsConfig(settled[1]))
  BY <1>2, <1>3 DEF FromFile
<1>6. told \in Seq(Int)
  <2>1. \A n \in Int : <<n>> \in Seq(Int)
    OBVIOUS
  <2>2. Loaded(read).port \in Int
    BY <1>3 DEF Configs
  <2>3. told = <<>> \/ told = <<Loaded(read).port>>
    BY DEF FromFile
  <2> QED
    BY <2>1, <2>2, <2>3, NoSteps, Zenon
<1>7. listening \in Seq([address : Addresses, port : PortNumbers])
  <2> DEFINE Sockets == [address : Addresses, port : PortNumbers]
  <2>1. listening = <<>> \/ (listening = <<listening[1]>> /\ listening[1] \in Sockets)
    BY DEF FromFile, Listens
  <2> HIDE DEF Sockets
  <2>2. \A s \in Sockets : <<s>> \in Seq(Sockets)
    OBVIOUS
  <2>3. listening \in Seq(Sockets)
    BY <2>1, <2>2, NoSteps, Zenon
  <2> QED
    BY <2>3 DEF Sockets
<1>8. \A s \in Range(rest) : s.fn \in Functions \cup {NoFunction}
  <2>1. rest \in Seq(Steps) /\ \A s \in Steps : s.fn \in Functions \cup {NoFunction}
    BY DEF Commands, Steps
  <2>2. \A s \in Range(rest) : s \in Steps
    <3> HIDE DEF Steps
    <3> QED
      BY <2>1 DEF Range
  <2> QED
    BY <2>1, <2>2
<1>9. file = <<>> \/ (Len(file) = 1 /\ file[1] \in Lines)
  BY LinesAre DEF FromFile
<1> QED
  BY <1>4, <1>5, <1>6, <1>7, <1>8, <1>9, LinesAre
     DEF TypeOK, FromFile, Commands, Typed, Stages, Methods

\* Every variable has its type.
THEOREM TypeCorrect == Spec => []TypeOK
<1>1. Spec => []Typed
  BY TypedInit, TypedNext, CommandsCorrect, PTL DEF Spec
<1> QED
  BY <1>1, TypesFollow, CommandsCorrect, FromFileCorrect, PTL
=============================================================================

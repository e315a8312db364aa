-------------------------- MODULE ProjectCommands ---------------------------
(***************************************************************************)
(* The commands that edit REAPER's project (tracks, items, fx, midi,       *)
(* markers, routing and envelope.cpp in commands/) inside undo blocks      *)
(* (undo.cpp), and a client that keeps book of the project by the replies. *)
(*                                                                         *)
(* The project is REAPER's.  Here it is what the commands' calls make of   *)
(* it: a sequence of tracks, each with its items and envelope points,      *)
(* which REAPER keeps in the order of their times, those of one time in    *)
(* any order, and its effects and sends; and a set of markers and regions. *)
(* Clients name those by their numbers and all the others by index, from 1 *)
(* here and from 0 in the code.                                            *)
(*                                                                         *)
(* A command is a plan: the project after each of its calls to REAPER, and *)
(* how it ends.  An exception between two calls is a plan that is cut.     *)
(***************************************************************************)
EXTENDS Naturals, Sequences, FiniteSets, SequencesExt, FiniteSetsExt

CONSTANTS
    Start,        \* the project at the start, known to the client
    Times,        \* positions of items and envelope points
    Numbers,      \* of markers, and of regions
    MaxTracks,    \* bound: tracks the client adds up to
    MaxCommands   \* bound: commands called

\* The notes of a request.
Notes == <<"first", "second">>

Item    == [time : Times, sized : BOOLEAN, notes : Seq(Range(Notes))]
Point   == [time : Times, added : BOOLEAN]
Track   == [id : Nat, touched : BOOLEAN, items : Seq(Item),
            points : Seq(Point), fx : Seq(BOOLEAN), sends : Seq(Nat)]
Marker  == [number : Numbers, region : BOOLEAN]
Project == [tracks : Seq(Track), markers : SUBSET Marker]

InOrder(s) == \A j, k \in DOMAIN s : j < k => s[j].time <= s[k].time

\* A project with its items and points as REAPER keeps them.
Ordered(p) ==
    \A i \in DOMAIN p.tracks : InOrder(p.tracks[i].items) /\ InOrder(p.tracks[i].points)

ASSUME StartAssumption == Times \subseteq Nat /\ Start \in Project /\ Ordered(Start)
ASSUME ProjectBoundsAssumption == MaxTracks \in Nat /\ MaxCommands \in Nat

VARIABLES
    project,   \* REAPER's project
    depth,     \* the undo blocks begun and not ended
    undo,      \* the project as REAPER's last undo point recorded it
    stage,     \* where the main thread is in a command
    command,   \* the plan of the command in progress, <<>> between commands
    calls,     \* how many of its calls to REAPER have been made
    before,    \* history: the project when it was called
    called,    \* how many commands have been called
    failed,    \* history: the method of the last command, if it failed
    hollow,    \* history: the method of the last command, if it reported success
               \* and what the reply is about is not there
    books,     \* the projects there may be, for all the client knows by the replies
    unclear    \* whether the client has to list the project after the last reply

bookkeeping == <<before, called, failed, hollow, books, unclear>>
vars == <<project, depth, undo, stage, command, calls, bookkeeping>>

Init ==
    /\ project = Start
    /\ depth   = 0
    /\ undo    = Start
    /\ stage   = "idle"
    /\ command = <<>>
    /\ calls   = 0
    /\ before  = Start
    /\ called  = 0
    /\ failed  = "none"
    /\ hollow  = "none"
    /\ books   = {Start}
    /\ unclear = FALSE

-----------------------------------------------------------------------------
(***************************************************************************)
(* A plan: the request, which is the method and what it names, whether the *)
(* undo block is reached, the project after each call that changes it,     *)
(* whether it ends in an exception, whether success is reported, the index *)
(* or count the reply tells, and whether what the reply is about exists.   *)
(***************************************************************************)
Succeeds(request, projects) ==
    [request |-> request, block |-> TRUE, projects |-> projects, fails |-> FALSE,
     success |-> TRUE, told |-> 0, exists |-> TRUE]

Throws(request, projects) ==
    [request |-> request, block |-> TRUE, projects |-> projects, fails |-> TRUE,
     success |-> FALSE, told |-> 0, exists |-> TRUE]

\* REAPER's function returns that nothing was done, and this is reported.
Declines(request) == [Succeeds(request, <<>>) EXCEPT !.success = FALSE]

\* A parameter is missing or of the wrong type, an object is not found, or an
\* optional function of REAPER is absent: the command fails before its block.
Refused(request) == [Throws(request, <<>>) EXCEPT !.block = FALSE]

\* There is nothing of the index the client gives.
OnNothing(plan) == [plan EXCEPT !.exists = FALSE]

\* The reply gives an index for what was added, and there it is, or elsewhere.
Tells(plan, index, place) == [plan EXCEPT !.told = index, !.exists = (index = place)]

\* The project when the command is over.
Final(p, plan) == IF plan.projects = <<>> THEN p ELSE Last(plan.projects)

(***************************************************************************)
(* REAPER's side.                                                          *)
(***************************************************************************)
NewTrack(id) == [id |-> id, touched |-> FALSE, items |-> <<>>, points |-> <<>>,
                 fx |-> <<>>, sends |-> <<>>]

FreshId(tracks) == Max({tracks[i].id : i \in 1 .. Len(tracks)} \cup {0}) + 1

WithTrack(p, i) == [p EXCEPT !.tracks = InsertAt(@, i, NewTrack(FreshId(@)))]

\* Deleting a track deletes the sends to it.
SendsWithout(sends, id) ==
    FoldLeft(LAMBDA kept, d : IF d = id THEN kept ELSE Append(kept, d), <<>>, sends)

DeleteTrack(tracks, i) ==
    [t \in 1 .. Len(tracks) - 1 |->
        LET track == RemoveAt(tracks, i)[t]
        IN  [track EXCEPT !.sends = SendsWithout(@, tracks[i].id)]]

NewItem(t)  == [time |-> t, sized |-> FALSE, notes |-> <<>>]
NewPoint(t) == [time |-> t, added |-> TRUE]

\* Where something of time t may come to be among the items or points s: before
\* the later ones and after the earlier ones.
Places(s, t) ==
    {n \in 1 .. Len(s) + 1 : /\ \A j \in 1 .. n - 1 : s[j].time <= t
                             /\ \A j \in n .. Len(s) : t <= s[j].time}

Put(s, x) == {InsertAt(s, n, x) : n \in Places(s, x.time)}

WithItems(p, i, items) == [p EXCEPT !.tracks[i].items = items]
WithFx(p, i, n)        == [p EXCEPT !.tracks[i].fx = InsertAt(@, n, FALSE)]

\* An effect the client has set something of.
TouchFx(p, i, k) == [p EXCEPT !.tracks[i].fx[k] = TRUE]

FreeNumbers(p, region) ==
    {n \in Numbers : [number |-> n, region |-> region] \notin p.markers}

WithMarker(p, n, region) ==
    [p EXCEPT !.markers = @ \cup {[number |-> n, region |-> region]}]

(***************************************************************************)
(* tracks.cpp                                                              *)
(***************************************************************************)
\* track.add at one of the places there are.  A name that is no string is found
\* out before the track is inserted.  (Fault: after it.)
FaultyNameCheckedLate(p, i) == {Throws(<<"track.add", i, TRUE>>, <<WithTrack(p, i)>>)}
NameChecked(p, i) == {Refused(<<"track.add", i, TRUE>>)}

Touched(p, i) == [p EXCEPT !.tracks[i].touched = TRUE]

TrackAdd(p, i) ==
    LET new == WithTrack(p, i)
    IN  NameChecked(p, i)
        \cup {Succeeds(<<"track.add", i, FALSE>>, <<new>>),
              Succeeds(<<"track.add", i, TRUE>>, <<new, Touched(new, i)>>)}

\* At an index further on REAPER adds the track at the end, and at a negative one
\* it is for REAPER to say where, or whether, it adds one.  No track is found
\* there to be named, and the reply reports the index all the same.
TrackAddOutside(p) ==
    LET end == Len(p.tracks) + 1
        Outside(i, named) == OnNothing(Succeeds(<<"track.add", i, named>>, <<>>))
        Lands(i, named, n) == [Outside(i, named) EXCEPT !.projects = <<WithTrack(p, n)>>]
    IN  {Lands(end + 1, named, end) : named \in BOOLEAN}
        \cup {Lands(0, named, n) : named \in BOOLEAN, n \in 1 .. end}
        \cup {Outside(0, named) : named \in BOOLEAN}

TrackRemove(p, i) ==
    {Succeeds(<<"track.remove", i>>, <<[p EXCEPT !.tracks = DeleteTrack(@, i)]>>)}

\* The value is of the wrong type, or the property unknown, inside the block but
\* before the call that sets it.
TrackSetProperty(p, i) ==
    {Throws(<<"track.set_property", i>>, <<>>),
     Succeeds(<<"track.set_property", i>>, <<Touched(p, i)>>)}

(***************************************************************************)
(* items.cpp: the k-th item of a track, and a time, which other items may  *)
(* have.                                                                   *)
(***************************************************************************)
Others(p, i, k) == RemoveAt(p.tracks[i].items, k)

ItemMove(p, i, k, t) ==
    LET moved == [p.tracks[i].items[k] EXCEPT !.time = t]
    IN  {Succeeds(<<"item.move", i, k, t>>, <<WithItems(p, i, items)>>) :
            items \in Put(Others(p, i, k), moved)}

\* The length is set, not the time.
ItemResize(p, i, k) ==
    {Succeeds(<<"item.resize", i, k>>, <<[p EXCEPT !.tracks[i].items[k].sized = TRUE]>>)}

\* SplitMediaItem returns no item when the time is not within the item; its
\* notes stay with the left part here.
ItemSplit(p, i, k, t) ==
    LET items   == p.tracks[i].items
        request == <<"item.split", i, k, t>>
    IN  {Declines(request)}
        \cup {Succeeds(request, <<WithItems(p, i, split)>>) :
                split \in {s \in Put(items, NewItem(t)) : items[k].time < t}}

ItemDelete(p, i, k) ==
    {Succeeds(<<"item.delete", i, k>>, <<WithItems(p, i, Others(p, i, k))>>),
     Declines(<<"item.delete", i, k>>)}

(***************************************************************************)
(* fx.cpp                                                                  *)
(***************************************************************************)
\* fx.add without a position: REAPER adds the effect, and fx_index tells at which
\* place, or is negative when it does not know the effect.  (Fault: the client is
\* told of the end of the chain in any case.)
FaultyFxAdd(p, i) ==
    LET request == <<"fx.add", i, FALSE>>
    IN  {Tells(Succeeds(request, <<WithFx(p, i, n)>>), Len(p.tracks[i].fx) + 1, n) :
            n \in 1 .. Len(p.tracks[i].fx) + 1} \cup {Declines(request)}
FxAdd(p, i) ==
    LET request == <<"fx.add", i, FALSE>>
    IN  {Tells(Succeeds(request, <<WithFx(p, i, n)>>), n, n) :
            n \in 1 .. Len(p.tracks[i].fx) + 1} \cup {Declines(request)}

\* With one, which is handed to REAPER for how to instantiate the effect, it may
\* also find the effect in the chain and add none.
FxAddPositioned(p, i) ==
    LET request == <<"fx.add", i, TRUE>>
        Added(n) == Tells(Succeeds(request, <<WithFx(p, i, n)>>), n, n)
        Found(n) == Tells(Succeeds(request, <<>>), n, n)
    IN  {Added(n) : n \in 1 .. Len(p.tracks[i].fx) + 1}
        \cup {Found(n) : n \in 1 .. Len(p.tracks[i].fx)}
        \cup {Declines(request)}

\* The result of a call by an index that may be of nothing is reported.  (Fault:
\* it is not looked at.)
FaultyReported(plan) == OnNothing(Succeeds(plan.request, <<>>))
Reported(plan)       == OnNothing(Declines(plan.request))

FxRemove(p, i, k) ==
    {Succeeds(<<"fx.remove", i, k>>, <<[p EXCEPT !.tracks[i].fx = RemoveAt(@, k)]>>),
     Declines(<<"fx.remove", i, k>>)}

\* A parameter of the effect; it may have none of that index.
FxSetParameter(p, i, k) ==
    {Succeeds(<<"fx.set_parameter", i, k>>, <<TouchFx(p, i, k)>>),
     OnNothing(Declines(<<"fx.set_parameter", i, k>>))}

\* fx.enable and fx.disable.
FxEnable(p, i, k) == {Succeeds(<<"fx.enable", i, k>>, <<TouchFx(p, i, k)>>)}

\* An effect that is not there: TrackFX_SetEnabled returns nothing.
FxMissing(p, i) ==
    LET k == Len(p.tracks[i].fx) + 1
    IN  {Reported(Declines(<<"fx.remove", i, k>>)),
         Reported(Declines(<<"fx.set_parameter", i, k>>)),
         OnNothing(Succeeds(<<"fx.enable", i, k>>, <<>>))}

(***************************************************************************)
(* routing.cpp                                                             *)
(***************************************************************************)
\* CreateTrackSend may refuse, and then nothing more is done.  A volume or pan
\* that is no number is found out after the send was created.
RoutingAddSend(p, i, j) ==
    LET request == <<"routing.add_send", i, j>>
        sent    == [p EXCEPT !.tracks[i].sends = Append(@, p.tracks[j].id)]
        place   == Len(p.tracks[i].sends) + 1
    IN  {Tells(Succeeds(request, <<sent>>), place, place),
         Declines(request),
         Throws(request, <<sent>>)}

RoutingRemoveSend(p, i, k) ==
    {Succeeds(<<"routing.remove_send", i, k>>,
              <<[p EXCEPT !.tracks[i].sends = RemoveAt(@, k)]>>),
     Declines(<<"routing.remove_send", i, k>>)}

\* A send that is not there.
SendMissing(p, i) ==
    {Reported(Declines(<<"routing.remove_send", i, Len(p.tracks[i].sends) + 1>>))}

(***************************************************************************)
(* envelope.cpp.  A point is inserted unsorted, as the last one, then the  *)
(* points are sorted; the index reported is that of the insertion, or      *)
(* negative when REAPER inserts none.                                      *)
(***************************************************************************)
EnvelopeAddPoint(p, i, t) ==
    LET points  == p.tracks[i].points
        request == <<"envelope.add_point", i, t>>
        Added(n) == Succeeds(request,
                        <<[p EXCEPT !.tracks[i].points = InsertAt(@, n, NewPoint(t))]>>)
    IN  {Declines(request)}
        \cup {Tells(Added(n), Len(points) + 1, n) : n \in Places(points, t)}

(***************************************************************************)
(* midi.cpp: midi.insert_notes, for two notes, into the k-th item or into  *)
(* a new one at a time.  A note is passed over if it has no position, and  *)
(* REAPER may refuse it; the reply counts the others.  That the notes are  *)
(* no array is found out after the new item was created, and that a note   *)
(* has a member of the wrong type after the notes before it were inserted. *)
(***************************************************************************)
\* The project after each of the notes that are inserted.
Inserting(p, i, k, notes) ==
    [n \in 1 .. Len(notes) |->
        [p EXCEPT !.tracks[i].items[k].notes = @ \o SubSeq(notes, 1, n)]]

NotesTaken == {<<>>, <<"first">>, <<"second">>, Notes}
TakenByThen == {<<>>, <<"first">>}

InsertNotes(p, i, k, request, created) ==
    {[Succeeds(request, created \o Inserting(p, i, k, notes)) EXCEPT !.told = Len(notes)] :
        notes \in NotesTaken}
    \cup {Throws(request, created \o Inserting(p, i, k, notes)) : notes \in TakenByThen}

MidiInsertNotes(p, i, k) == InsertNotes(p, i, k, <<"midi.insert_notes", i, k>>, <<>>)

MidiInsertNewItem(p, i, t) ==
    LET items   == p.tracks[i].items
        request == <<"midi.insert_notes", i, 0, t>>
        New(n)  == WithItems(p, i, InsertAt(items, n, NewItem(t)))
    IN  {Throws(request, <<>>)}
        \cup UNION {InsertNotes(New(n), i, n, request, <<New(n)>>) : n \in Places(items, t)}

(***************************************************************************)
(* markers.cpp: a marker or a region.  REAPER gives it the number that is  *)
(* wanted, or another one when that is taken or none is wanted; the reply  *)
(* does not say which.                                                     *)
(***************************************************************************)
NoNumber == 0

MarkerAdd(p, want, region) ==
    LET request == <<"marker.add", want, region>>
        free    == FreeNumbers(p, region)
    IN  {Declines(request)}
        \cup {Succeeds(request, <<WithMarker(p, n, region)>>) :
                n \in IF want \in free THEN {want} ELSE free}

MarkerRemove(p, m) ==
    LET request == <<"marker.remove", m.number, m.region>>
    IN  {Succeeds(request, <<[p EXCEPT !.markers = @ \ {m}]>>), Declines(request)}

MarkerMissing(m) == {Reported(Declines(<<"marker.remove", m.number, m.region>>))}

-----------------------------------------------------------------------------
(***************************************************************************)
(* What the commands the client may call come to, on the project p.        *)
(***************************************************************************)
OfItem(p, i, k) ==
    UNION ({ItemResize(p, i, k), ItemDelete(p, i, k), MidiInsertNotes(p, i, k)}
           \cup {ItemMove(p, i, k, t) : t \in Times}
           \cup {ItemSplit(p, i, k, t) : t \in Times})

OfTrack(p, i) ==
    LET fx == 1 .. Len(p.tracks[i].fx)
    IN  UNION ({TrackRemove(p, i), TrackSetProperty(p, i), FxAdd(p, i),
                FxAddPositioned(p, i), FxMissing(p, i), SendMissing(p, i)}
               \cup {FxRemove(p, i, k) : k \in fx}
               \cup {FxSetParameter(p, i, k) : k \in fx}
               \cup {FxEnable(p, i, k) : k \in fx}
               \cup {RoutingAddSend(p, i, j) : j \in 1 .. Len(p.tracks)}
               \cup {RoutingRemoveSend(p, i, k) : k \in 1 .. Len(p.tracks[i].sends)}
               \cup {EnvelopeAddPoint(p, i, t) : t \in Times}
               \cup {MidiInsertNewItem(p, i, t) : t \in Times}
               \cup {OfItem(p, i, k) : k \in 1 .. Len(p.tracks[i].items)})

TrackAdds(p) ==
    IF Len(p.tracks) < MaxTracks
      THEN TrackAddOutside(p) \cup UNION {TrackAdd(p, i) : i \in 1 .. Len(p.tracks) + 1}
      ELSE {}

OfMarkers(p) ==
    UNION ({MarkerAdd(p, want, region) : want \in Numbers \cup {NoNumber}, region \in BOOLEAN}
           \cup {MarkerRemove(p, m) : m \in p.markers}
           \cup {MarkerMissing(m) : m \in Marker \ p.markers})

Plans(p) ==
    {Refused(<<"any">>)} \cup TrackAdds(p) \cup OfMarkers(p)
    \cup UNION {OfTrack(p, i) : i \in 1 .. Len(p.tracks)}

-----------------------------------------------------------------------------
(***************************************************************************)
(* The client.  It knows what it has asked for and the reply, of which an  *)
(* error says only that there was one.                                     *)
(***************************************************************************)
SameToClient(plan, other) ==
    /\ plan.request = other.request
    /\ plan.fails   = other.fails
    /\ plan.success = other.success
    /\ plan.told    = other.told

Method(plan) == plan.request[1]

\* The methods whose exceptions may come after a change.
PartialMethods == {"midi.insert_notes", "routing.add_send"}

Occupied(s, t) == \E j \in DOMAIN s : s[j].time = t

\* What was asked for puts an item or a point where there is another of its time.
MakesTie(p, request) ==
    LET track == p.tracks[request[2]]
    IN  \/ request[1] = "item.move" /\ Occupied(RemoveAt(track.items, request[3]), request[4])
        \/ request[1] = "item.split" /\ Occupied(track.items, request[4])
        \/ /\ request[1] = "midi.insert_notes" /\ request[3] = 0
           /\ Occupied(track.items, request[4])
        \/ request[1] = "envelope.add_point" /\ Occupied(track.points, request[3])

\* The reply to the plan, on the project p, leaves open what the project is now.
\* All that is looked at is the project as the client knew it, its request, and
\* the reply.
Unclear(p, plan) ==
    \/ plan.fails /\ Method(plan) \in PartialMethods
    \/ /\ plan.success
       /\ \/ MakesTie(p, plan.request)
          \/ Method(plan) = "midi.insert_notes" /\ plan.told \notin {0, Len(Notes)}
          \/ Method(plan) = "marker.add"
             /\ plan.request[2] \notin FreeNumbers(p, plan.request[3])
          \/ Method(plan) = "fx.add" /\ plan.request[3]
          \/ Method(plan) = "track.add" /\ plan.request[2] = 0

(***************************************************************************)
(* The main thread in CommandRegistry::dispatch.                           *)
(***************************************************************************)
Plan == command[1]

Call ==
    /\ stage = "idle"
    /\ ~unclear
    /\ called < MaxCommands
    /\ \E plan \in Plans(project) : command' = <<plan>>
    /\ stage' = "called"
    /\ before' = project
    /\ called' = called + 1
    /\ failed' = "none"
    /\ hollow' = "none"
    /\ UNCHANGED <<project, depth, undo, calls, books, unclear>>

\* The constructor of UndoBlock.  (Fault: the block is a temporary object, and
\* its destructor runs at once.)
FaultyTemporaryBlock == undo' = project /\ UNCHANGED depth
Construct == depth' = depth + 1 /\ UNCHANGED undo

BeginBlock ==
    /\ stage = "called"
    /\ Plan.block
    /\ Construct
    /\ stage' = "inside"
    /\ UNCHANGED <<project, command, calls, bookkeeping>>

ReaperCall ==
    /\ stage = "inside"
    /\ calls < Len(Plan.projects)
    /\ calls' = calls + 1
    /\ project' = Plan.projects[calls + 1]
    /\ UNCHANGED <<depth, undo, stage, command, bookkeeping>>

\* The destructor of UndoBlock, at the return or while the exception unwinds:
\* the block ends, and the undo point records the project.  (Fault: the block is
\* ended by a last statement of the command, which an exception passes by.)
FaultyEndAtReturnOnly ==
    IF Plan.fails THEN UNCHANGED <<depth, undo>> ELSE depth' = depth - 1 /\ undo' = project

Destruct ==
    IF depth = 0 THEN UNCHANGED <<depth, undo>> ELSE depth' = depth - 1 /\ undo' = project

EndBlock ==
    /\ stage = "inside"
    /\ calls = Len(Plan.projects)
    /\ Destruct
    /\ stage' = "over"
    /\ UNCHANGED <<project, command, calls, bookkeeping>>

\* The reply is received.  The client reckons with every project that a command
\* with this request and this reply may have left.
Answered ==
    /\ stage = "over" \/ (stage = "called" /\ ~Plan.block)
    /\ books' = UNION {{Final(p, plan) : plan \in {q \in Plans(p) : SameToClient(q, Plan)}} :
                          p \in books}
    /\ unclear' = Unclear(before, Plan)
    /\ failed' = IF Plan.fails THEN Method(Plan) ELSE "none"
    /\ hollow' = IF Plan.success /\ ~Plan.exists THEN Method(Plan) ELSE "none"
    /\ command' = <<>>
    /\ stage' = "idle"
    /\ calls' = 0
    /\ UNCHANGED <<project, depth, undo, before, called>>

\* The client lists the project (project.get_state, item.list and the others).
List ==
    /\ stage = "idle"
    /\ unclear
    /\ books' = {project}
    /\ unclear' = FALSE
    /\ UNCHANGED <<project, depth, undo, stage, command, calls, before, called, failed, hollow>>

Next == Call \/ BeginBlock \/ ReaperCall \/ EndBlock \/ Answered \/ List

Spec == Init /\ [][Next]_vars

-----------------------------------------------------------------------------
TypeOK ==
    /\ project \in Project /\ Ordered(project)
    /\ depth   \in {0, 1}
    /\ undo    \in Project
    /\ stage   \in {"idle", "called", "inside", "over"}
    /\ (command = <<>>) = (stage = "idle")
    /\ calls   \in Nat
    /\ called  \in 0 .. MaxCommands
    /\ books   \subseteq Project
    /\ unclear \in BOOLEAN

(***************************************************************************)
(* A command that fails has changed nothing, whatever it had begun: of all *)
(* commands only midi.insert_notes and routing.add_send can leave a part   *)
(* of their work behind.                                                   *)
(***************************************************************************)
FailuresChangeNothing ==
    stage = "idle" /\ failed \notin {"none"} \cup PartialMethods => project = before

(***************************************************************************)
(* Every change ends up in REAPER's undo history: between commands no      *)
(* block is open and the last undo point is the project as it is, after    *)
(* failed commands too.                                                    *)
(***************************************************************************)
UndoIsUpToDate == stage = "idle" => depth = 0 /\ undo = project

(***************************************************************************)
(* A client that edits the project alone can keep book of it by its        *)
(* requests and the replies, and so name objects by index or number: after *)
(* each reply only one project is possible, and it is REAPER's.  It has to *)
(* list the project after a failure of the two commands that may leave     *)
(* something behind; after an item or point was put at a time where there  *)
(* was one; when some of its notes were inserted and others not; when      *)
(* REAPER has chosen a marker's number, or been given a position for an    *)
(* effect; and after a track was added at a negative index.                *)
(***************************************************************************)
BooksAreRight == stage = "idle" /\ ~unclear => books = {project}

(***************************************************************************)
(* A command is not reported to have succeeded on something that is not    *)
(* there, nor to have added something elsewhere than it has, except by     *)
(* fx.enable and fx.disable; by track.add, which reports a place that is   *)
(* none; and by envelope.add_point, which reports the place the point had  *)
(* before the points were sorted.                                          *)
(***************************************************************************)
SuccessIsOfSomething ==
    hollow \in {"none", "fx.enable", "track.add", "envelope.add_point"}
=============================================================================

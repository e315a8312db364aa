----------------------------- MODULE LuaScripts -----------------------------
(***************************************************************************)
(* The commands lua.execute and lua.execute_and_read (commands/lua.cpp):   *)
(* a script is written to a temporary file, registered as an action, run   *)
(* and removed again; what it says comes back through REAPER's ExtState,   *)
(* under keys made of a counter.                                           *)
(*                                                                         *)
(* All of it is on the main thread, yet commands interleave.  A script may *)
(* open a window, and REAPER then goes on calling the timer and running    *)
(* deferred scripts in the middle of the command.  A script may also defer *)
(* itself and speak again after its command has been answered.             *)
(***************************************************************************)
EXTENDS Naturals, Sequences, SequencesExt

CONSTANTS
    MaxScripts,  \* bound: commands called
    MaxNesting   \* bound: commands in progress, each in a window of the one below

ASSUME LuaBoundsAssumption == MaxScripts \in Nat /\ MaxNesting \in Nat

Commands == {"lua.execute", "lua.execute_and_read"}

\* The scripts are numbered as they are called; NoScript is none of them.
Scripts  == 1 .. MaxScripts
NoScript == 0

\* A path mkstemp has made belongs to its script; when mkstemp fails, every
\* script is written to the same path.
Fallback == 0
Paths    == Scripts \cup {Fallback}

VARIABLES
    called,     \* how many commands have been called
    counter,    \* s_request_counter
    result,     \* result[k]: the script whose output is in ExtState under key k
    error,      \* error[k]: the script whose error is in ExtState under key k
    frames,     \* the commands in progress, the innermost last
    files,      \* the temporary files there are
    actions,    \* the paths registered as ReaScript actions
    deferred,   \* the deferred scripts, with the key they write to
    done        \* history: the commands that ended, with their replies

ext  == <<result, error>>
vars == <<called, counter, ext, frames, files, actions, deferred, done>>

Keys  == 0 .. MaxScripts
NoKey == MaxScripts

Init ==
    /\ called   = 0
    /\ counter  = 0
    /\ result   = [k \in Keys |-> NoScript]
    /\ error    = [k \in Keys |-> NoScript]
    /\ frames   = <<>>
    /\ files    = {}
    /\ actions  = {}
    /\ deferred = {}
    /\ done     = {}

-----------------------------------------------------------------------------
\* The main thread is free to call a command or a deferred script: it is in no
\* command, or in one whose script has a window open.
Free == frames # <<>> => ~Last(frames).failed

\* A command in progress.  said and failed are history: what its script did.
Frame(path, key) ==
    [script |-> called + 1, path |-> path, key |-> key, said |-> FALSE,
     failed |-> FALSE]

\* How the command of frame f ended, and whose words the reply holds.
Reply(f, kind, from) ==
    done' = done \cup {[script |-> f.script, path |-> f.path, said |-> f.said,
                        failed |-> f.failed, kind |-> kind, from |-> from]}

\* Fetch a key from the counter.  (Faults: it is not incremented; the two keys
\* of a command are counted.)
FaultyCounterKept == counter
FaultyCounterTwice == counter + 2
FetchAdd == counter + 1

\* lua.execute_and_read takes a key and clears what is under it.
TakeKey(command) ==
    IF command = "lua.execute_and_read"
      THEN /\ counter' = FetchAdd
           /\ result' = [result EXCEPT ![counter] = NoScript]
           /\ error' = [error EXCEPT ![counter] = NoScript]
      ELSE UNCHANGED <<counter, ext>>

\* The temporary file cannot be opened for writing: one that mkstemp has made
\* stays.
OpenFails(f) ==
    /\ Reply(f, "no file", NoScript)
    /\ files' = files \cup ({f.path} \ {Fallback})
    /\ UNCHANGED <<frames, actions>>

\* What is left of the files when that of f is removed.  (Fault: it is not.)
FaultyFileKept(f) == files \cup {f.path}
FileRemoved(f) == files \ {f.path}

\* AddRemoveReaScript refuses the file.
RegistrationFails(f) ==
    /\ Reply(f, "no action", NoScript)
    /\ files' = FileRemoved(f)
    /\ UNCHANGED <<frames, actions>>

\* Main_OnCommandEx starts the script.
Runs(f) ==
    /\ frames' = Append(frames, f)
    /\ files' = files \cup {f.path}
    /\ actions' = actions \cup {f.path}
    /\ UNCHANGED done

\* The main thread calls a command, up to the point where its script runs.
Call(command) ==
    /\ Free
    /\ called < MaxScripts
    /\ Len(frames) < MaxNesting
    /\ called' = called + 1
    /\ TakeKey(command)
    /\ \E path \in {called + 1, Fallback} :
          LET f == Frame(path, IF command = "lua.execute" THEN NoKey ELSE counter)
          IN  OpenFails(f) \/ RegistrationFails(f) \/ Runs(f)
    /\ UNCHANGED deferred

(***************************************************************************)
(* What the innermost script does while it runs, in its wrapper.           *)
(***************************************************************************)
Speaks == frames # <<>> /\ Last(frames).key # NoKey /\ ~Last(frames).failed

\* It calls reaserve_output().
Output ==
    /\ Speaks
    /\ result' = [result EXCEPT ![Last(frames).key] = Last(frames).script]
    /\ frames' = [frames EXCEPT ![Len(frames)].said = TRUE]
    /\ UNCHANGED <<called, counter, error, files, actions, deferred, done>>

\* It raises an error, which pcall catches and the wrapper notes.
Fail ==
    /\ Speaks
    /\ error' = [error EXCEPT ![Last(frames).key] = Last(frames).script]
    /\ frames' = [frames EXCEPT ![Len(frames)].failed = TRUE]
    /\ UNCHANGED <<called, counter, result, files, actions, deferred, done>>

\* It calls reaper.defer() on a function that will call reaserve_output().
Defer ==
    /\ Speaks
    /\ deferred' = deferred \cup {[script |-> Last(frames).script,
                                   key    |-> Last(frames).key]}
    /\ UNCHANGED <<called, counter, ext, frames, files, actions, done>>

\* REAPER runs what a script has deferred, once that script itself has ended;
\* it speaks, and may defer itself again.
DeferredOutput ==
    /\ Free
    /\ \E d \in deferred :
          /\ \A i \in 1 .. Len(frames) : frames[i].script # d.script
          /\ result' = [result EXCEPT ![d.key] = d.script]
    /\ UNCHANGED <<called, counter, error, frames, files, actions, deferred, done>>

(***************************************************************************)
(* The innermost script ends.                                              *)
(***************************************************************************)
\* Unregister the action and remove the file.
CleanUp(f) ==
    /\ frames' = Front(frames)
    /\ actions' = actions \ {f.path}
    /\ files' = FileRemoved(f)
    /\ UNCHANGED <<called, counter, deferred>>

ExecuteReturns ==
    /\ frames # <<>>
    /\ LET f == Last(frames)
       IN  f.key = NoKey /\ CleanUp(f) /\ Reply(f, "success", NoScript)
    /\ UNCHANGED ext

\* The result a script left before it failed is dropped.  (Fault: it is kept.)
FaultyResultKept(k) == result
ResultDropped(k) == [result EXCEPT ![k] = NoScript]

ReadReturnsError ==
    /\ frames # <<>>
    /\ LET f == Last(frames)
       IN  /\ error[f.key] # NoScript
           /\ CleanUp(f)
           /\ Reply(f, "lua error", error[f.key])
           /\ error' = [error EXCEPT ![f.key] = NoScript]
           /\ result' = ResultDropped(f.key)

ReadReturnsNothing ==
    /\ frames # <<>>
    /\ LET f == Last(frames)
       IN  /\ f.key # NoKey
           /\ error[f.key] = NoScript
           /\ result[f.key] = NoScript
           /\ CleanUp(f)
           /\ Reply(f, "no output", NoScript)
    /\ UNCHANGED ext

\* The output is parsed, once ExtState holds it no longer.  One that is not
\* JSON is returned as it is; one with a number too large for a double throws
\* what the handler does not catch, and the reply is that error.
ReadReturnsOutput ==
    /\ frames # <<>>
    /\ LET f == Last(frames)
       IN  /\ f.key # NoKey
           /\ error[f.key] = NoScript
           /\ result[f.key] # NoScript
           /\ CleanUp(f)
           /\ \E kind \in {"output", "number overflow"} : Reply(f, kind, result[f.key])
           /\ result' = [result EXCEPT ![f.key] = NoScript]
    /\ UNCHANGED error

-----------------------------------------------------------------------------
Script  == Output \/ Fail \/ Defer \/ DeferredOutput
Returns == ExecuteReturns \/ ReadReturnsError \/ ReadReturnsNothing \/ ReadReturnsOutput

Next == Script \/ Returns \/ \E command \in Commands : Call(command)

Spec == Init /\ [][Next]_vars

-----------------------------------------------------------------------------
Kinds == {"success", "no file", "no action", "lua error", "no output", "output",
          "number overflow"}

TypeOK ==
    /\ called   \in 0 .. MaxScripts
    /\ counter  \in 0 .. called
    /\ result   \in [Keys -> Scripts \cup {NoScript}]
    /\ error    \in [Keys -> Scripts \cup {NoScript}]
    /\ frames   \in Seq([script : Scripts, path : Paths, key : Keys,
                         said : BOOLEAN, failed : BOOLEAN])
    /\ files    \subseteq Paths
    /\ actions  \subseteq Paths
    /\ deferred \subseteq [script : Scripts, key : Keys]
    /\ done     \subseteq [script : Scripts, path : Paths, said : BOOLEAN,
                           failed : BOOLEAN, kind : Kinds,
                           from : Scripts \cup {NoScript}]

(***************************************************************************)
(* A reply holds the words of its own script, whatever other scripts say   *)
(* meanwhile: its output, or the complaint about a number in it, when it   *)
(* has spoken and not failed, its error when it has failed, and the        *)
(* complaint that it said nothing when it did not.                         *)
(***************************************************************************)
RepliesAreOwn ==
    \A r \in done :
        /\ r.kind \in {"output", "number overflow"} =>
               r.from = r.script /\ r.said /\ ~r.failed
        /\ r.kind = "lua error" => r.from = r.script /\ r.failed
        /\ r.kind = "no output" => ~r.said /\ ~r.failed

(***************************************************************************)
(* No command leaves anything in ExtState: what is found under a key that  *)
(* no command in progress uses was put there by a deferred script after    *)
(* its command had ended, and an error is found only until it is reported. *)
(***************************************************************************)
Using(k) == {f \in ToSet(frames) : f.key = k}

ExtStateIsCleared ==
    \A k \in Keys : Using(k) = {} =>
        /\ error[k] = NoScript
        /\ result[k] # NoScript => [script |-> result[k], key |-> k] \in deferred

(***************************************************************************)
(* Temporary files and actions are those of the commands in progress, but  *)
(* for the files that could not be opened, which mkstemp has left.         *)
(***************************************************************************)
Unopened == {r.path : r \in {s \in done : s.kind = "no file"}}

FilesAreRemoved ==
    LET used == {f.path : f \in ToSet(frames)}
    IN  files \subseteq used \cup Unopened /\ actions \subseteq used
=============================================================================

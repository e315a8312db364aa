-------------------------- MODULE LuaScriptsProofs ---------------------------
(***************************************************************************)
(* Proofs about LuaScripts, for any number of scripts and any depth of     *)
(* commands called in each other's windows.                                *)
(***************************************************************************)
EXTENDS LuaScripts, SequenceTheorems, TLAPS

FrameType == [script : Scripts, path : Paths, key : Keys, said : BOOLEAN,
              failed : BOOLEAN]

Running == 1 .. Len(frames)

(***************************************************************************)
(* What Append, Front and an update of the last element make of frames.    *)
(***************************************************************************)
LEMMA LastFacts ==
    ASSUME frames \in Seq(FrameType), frames # <<>>
    PROVE  /\ Len(frames) \in Nat /\ Len(frames) \in Running
           /\ Last(frames) = frames[Len(frames)]
           /\ Last(frames) \in FrameType
BY LenProperties DEF Last, Running

LEMMA AppendFacts ==
    ASSUME frames \in Seq(FrameType), NEW f \in FrameType, frames' = Append(frames, f)
    PROVE  /\ frames' \in Seq(FrameType)
           /\ Len(frames) \in Nat
           /\ Running' = 1 .. Len(frames) + 1
           /\ \A i \in Running : frames'[i] = frames[i]
           /\ frames'[Len(frames) + 1] = f
BY AppendProperties, LenProperties DEF Running

LEMMA FrontFacts ==
    ASSUME frames \in Seq(FrameType), frames # <<>>, frames' = Front(frames)
    PROVE  /\ frames' \in Seq(FrameType)
           /\ Running' = 1 .. Len(frames) - 1
           /\ \A i \in Running' : frames'[i] = frames[i]
<1>1. Len(frames) \in Nat /\ \A i \in 1 .. Len(frames) - 1 : frames[i] \in FrameType
  BY LenProperties
<1>2. Len(frames) # 0
  BY EmptySeq, LenProperties
<1> QED
  BY <1>1, <1>2, SubSeqProperties DEF Front, Running

LEMMA UpdateFacts ==
    ASSUME frames \in Seq(FrameType), frames # <<>>, NEW f \in FrameType,
           frames' = [frames EXCEPT ![Len(frames)] = f]
    PROVE  /\ frames' \in Seq(FrameType)
           /\ Running' = Running
           /\ \A i \in Running : frames'[i] = IF i = Len(frames) THEN f ELSE frames[i]
<1>1. Len(frames) \in 1 .. Len(frames)
  BY LastFacts DEF Running
<1> QED
  BY <1>1, ExceptSeq DEF Running

-----------------------------------------------------------------------------
(***************************************************************************)
(* The call of a command, and the end of one, as the proofs use them.      *)
(***************************************************************************)
Started(f) ==
    /\ called' = called + 1
    /\ called < MaxScripts
    /\ f \in FrameType
    /\ f.script = called + 1
    /\ ~f.said /\ ~f.failed
    /\ \/ f.key = NoKey /\ UNCHANGED <<counter, ext>>
       \/ /\ f.key = counter
          /\ counter' = counter + 1
          /\ result' = [result EXCEPT ![counter] = NoScript]
          /\ error' = [error EXCEPT ![counter] = NoScript]
    /\ UNCHANGED deferred
    /\ OpenFails(f) \/ RegistrationFails(f) \/ Runs(f)

LEMMA CallStarts ==
    ASSUME TypeOK, NEW command \in Commands, Call(command)
    PROVE  \E f : Started(f)
<1>1. PICK path \in {called + 1, Fallback} :
        LET f == Frame(path, IF command = "lua.execute" THEN NoKey ELSE counter)
        IN  OpenFails(f) \/ RegistrationFails(f) \/ Runs(f)
  BY DEF Call
<1> DEFINE f == Frame(path, IF command = "lua.execute" THEN NoKey ELSE counter)
<1>2. called + 1 \in Scripts /\ counter \in Keys /\ NoKey \in Keys /\ path \in Paths
  BY LuaBoundsAssumption DEF Call, TypeOK, Scripts, Keys, NoKey, Paths
<1>3. /\ f \in FrameType /\ f.script = called + 1
      /\ ~f.said /\ ~f.failed
      /\ f.key = IF command = "lua.execute" THEN NoKey ELSE counter
  BY <1>2 DEF Frame, FrameType
<1>4. OpenFails(f) \/ RegistrationFails(f) \/ Runs(f)
  BY <1>1
<1> HIDE DEF f
<1>5. \/ f.key = NoKey /\ UNCHANGED <<counter, ext>>
      \/ /\ f.key = counter
         /\ counter' = counter + 1
         /\ result' = [result EXCEPT ![counter] = NoScript]
         /\ error' = [error EXCEPT ![counter] = NoScript]
  <2>1. CASE command = "lua.execute"
    BY <1>3, <2>1 DEF Call, TakeKey
  <2>2. CASE command = "lua.execute_and_read"
    BY <1>3, <2>2 DEF Call, TakeKey, FetchAdd
  <2> QED
    BY <2>1, <2>2 DEF Commands
<1>6. called' = called + 1 /\ called < MaxScripts /\ UNCHANGED deferred
  BY DEF Call
<1>7. Started(f)
  BY <1>3, <1>4, <1>5, <1>6 DEF Started
<1> QED
  BY <1>7

LEMMA TypeNext == TypeOK /\ [Next]_vars => TypeOK'
<1> SUFFICES ASSUME TypeOK, [Next]_vars PROVE TypeOK'
  OBVIOUS
<1> USE DEF TypeOK
<1>f. frames \in Seq(FrameType)
  BY DEF FrameType
<1>k. \A f \in FrameType : f.key \in Keys /\ f.script \in Scripts
  BY DEF FrameType
<1>1. CASE Output
  <2> DEFINE f == [Last(frames) EXCEPT !.said = TRUE]
  <2>1. Last(frames) \in FrameType /\ f \in FrameType
    BY <1>1, <1>f, LastFacts DEF Output, Speaks, FrameType
  <2>2. frames' = [frames EXCEPT ![Len(frames)] = f]
    BY <1>1 DEF Output, Last
  <2>3. frames' \in Seq(FrameType)
    BY <1>1, <1>f, <2>1, <2>2, UpdateFacts DEF Output, Speaks
  <2> QED
    BY <1>1, <1>k, <2>1, <2>3 DEF Output, FrameType
<1>2. CASE Fail
  <2> DEFINE f == [Last(frames) EXCEPT !.failed = TRUE]
  <2>1. Last(frames) \in FrameType /\ f \in FrameType
    BY <1>2, <1>f, LastFacts DEF Fail, Speaks, FrameType
  <2>2. frames' = [frames EXCEPT ![Len(frames)] = f]
    BY <1>2 DEF Fail, Last
  <2>3. frames' \in Seq(FrameType)
    BY <1>2, <1>f, <2>1, <2>2, UpdateFacts DEF Fail, Speaks
  <2> QED
    BY <1>2, <1>k, <2>1, <2>3 DEF Fail, FrameType
<1>3. CASE Defer
  <2>1. Last(frames) \in FrameType
    BY <1>3, <1>f, LastFacts DEF Defer, Speaks
  <2> QED
    BY <1>3, <1>k, <2>1 DEF Defer, ext
<1>4. CASE DeferredOutput
  BY <1>4 DEF DeferredOutput
<1>5. CASE Returns
  <2>1. frames # <<>> /\ CleanUp(Last(frames))
    BY <1>5 DEF Returns, ExecuteReturns, ReadReturnsError, ReadReturnsNothing,
                ReadReturnsOutput
  <2>2. Last(frames) \in FrameType
    BY <1>f, <2>1, LastFacts
  <2>3. frames' \in Seq(FrameType)
    BY <1>f, <2>1, FrontFacts DEF CleanUp
  <2>4. /\ called' = called /\ counter' = counter /\ deferred' = deferred
        /\ files' \subseteq Paths /\ actions' \subseteq Paths
    BY <2>1 DEF CleanUp, FileRemoved
  <2>5. /\ result' \in [Keys -> Scripts \cup {NoScript}]
        /\ error' \in [Keys -> Scripts \cup {NoScript}]
    BY <1>5 DEF Returns, ExecuteReturns, ReadReturnsError, ReadReturnsNothing,
                ReadReturnsOutput, ResultDropped, ext
  <2>6. \E kind \in Kinds, from \in Scripts \cup {NoScript} : Reply(Last(frames), kind, from)
    BY <1>5, <1>k, <2>2 DEF Returns, ExecuteReturns, ReadReturnsError, ReadReturnsNothing,
                      ReadReturnsOutput, Kinds
  <2>7. done' \subseteq [script : Scripts, path : Paths, said : BOOLEAN, failed : BOOLEAN,
                         kind : Kinds, from : Scripts \cup {NoScript}]
    BY <2>2, <2>6 DEF Reply, FrameType
  <2> QED
    BY <2>3, <2>4, <2>5, <2>7 DEF FrameType
<1>6. CASE \E command \in Commands : Call(command)
  <2>1. PICK f : Started(f)
    BY <1>6, CallStarts
  <2>2. /\ called' \in 0 .. MaxScripts
        /\ counter' \in 0 .. called'
        /\ result' \in [Keys -> Scripts \cup {NoScript}]
        /\ error' \in [Keys -> Scripts \cup {NoScript}]
        /\ deferred' = deferred
    BY <2>1, LuaBoundsAssumption DEF Started, ext
  <2>3. f \in FrameType /\ f.path \in Paths
    BY <2>1 DEF Started, FrameType
  <2>4. frames' \in Seq(FrameType)
    BY <1>f, <2>1, <2>3, AppendFacts DEF Started, OpenFails, RegistrationFails, Runs
  <2>5. files' \subseteq Paths /\ actions' \subseteq Paths
    BY <2>1, <2>3 DEF Started, OpenFails, RegistrationFails, Runs, FileRemoved
  <2>6. \/ done' = done
        \/ \E kind \in Kinds, from \in Scripts \cup {NoScript} : Reply(f, kind, from)
    BY <2>1 DEF Started, OpenFails, RegistrationFails, Runs, Kinds
  <2>7. done' \subseteq [script : Scripts, path : Paths, said : BOOLEAN, failed : BOOLEAN,
                         kind : Kinds, from : Scripts \cup {NoScript}]
    BY <2>3, <2>6 DEF Reply, FrameType
  <2> QED
    BY <2>2, <2>4, <2>5, <2>7 DEF FrameType
<1>7. CASE UNCHANGED vars
  BY <1>7 DEF vars, ext
<1> QED
  BY <1>1, <1>2, <1>3, <1>4, <1>5, <1>6, <1>7 DEF Next, Script

LEMMA TypeInit == Init => TypeOK
BY LuaBoundsAssumption DEF Init, TypeOK, Keys, Scripts, Paths

\* Keys, scripts and paths stay in their ranges, whatever nests in what: the
\* counter never passes the commands called.
THEOREM TypeCorrect == Spec => []TypeOK
BY TypeInit, TypeNext, PTL DEF Spec

-----------------------------------------------------------------------------
(***************************************************************************)
(* Scripts and keys.  Apart: the commands in progress are different        *)
(* scripts with different keys, and a deferred script has the key of its   *)
(* own command.  Own: under the key of a command in progress is what its   *)
(* script has said and nothing else.  Clear: nothing is kept for commands  *)
(* without a key.  Cleared and Removed are ExtStateIsCleared and           *)
(* FilesAreRemoved, by position in frames.                                 *)
(***************************************************************************)
Apart ==
    /\ \A i \in Running :
           /\ frames[i].script <= called
           /\ frames[i].key # NoKey => frames[i].key < counter
    /\ \A i, j \in Running : i # j =>
           /\ frames[i].script # frames[j].script
           /\ frames[i].key = frames[j].key => frames[i].key = NoKey
    /\ \A d \in deferred :
           /\ d.script <= called
           /\ d.key < counter
           /\ \A i \in Running : d.script = frames[i].script <=> d.key = frames[i].key

OwnWords(f) ==
    /\ result[f.key] = IF f.said THEN f.script ELSE NoScript
    /\ error[f.key] = IF f.failed THEN f.script ELSE NoScript

Own == \A i \in Running : frames[i].key # NoKey => OwnWords(frames[i])

Clear == result[NoKey] = NoScript /\ error[NoKey] = NoScript

Unused(k) == \A i \in Running : frames[i].key # k

Cleared ==
    \A k \in Keys : Unused(k) =>
        /\ error[k] = NoScript
        /\ result[k] # NoScript => [script |-> result[k], key |-> k] \in deferred

Used(path) == \E i \in Running : frames[i].path = path

Removed ==
    /\ \A path \in files : path \in Unopened \/ Used(path)
    /\ \A path \in actions : Used(path)

Inv == TypeOK /\ Apart /\ Own /\ Clear /\ Cleared /\ Removed /\ RepliesAreOwn

LEMMA InvInit == Init => Inv
<1> SUFFICES ASSUME Init PROVE Inv
  OBVIOUS
<1>1. TypeOK
  BY TypeInit
<1>2. Running = {}
  BY DEF Init, Running
<1>3. NoKey \in Keys
  BY LuaBoundsAssumption DEF NoKey, Keys
<1> QED
  BY <1>1, <1>2, <1>3 DEF Init, Inv, Apart, Own, Clear, Cleared, Removed, RepliesAreOwn

\* The types of what an action looks at.
LEMMA Ranges ==
    ASSUME TypeOK
    PROVE  /\ frames \in Seq(FrameType)
           /\ Len(frames) \in Nat
           /\ \A i \in Running : frames[i] \in FrameType
           /\ \A f \in FrameType : f.key \in Keys /\ f.script \in Scripts
           /\ MaxScripts \in Nat /\ NoKey = MaxScripts /\ NoKey \in Keys
           /\ called \in Nat /\ counter \in Nat /\ counter <= called /\ called <= MaxScripts
           /\ \A k \in Keys : k \in Nat
           /\ \A s \in Scripts : s \in Nat /\ s # NoScript
           /\ \A d \in deferred : d.key \in Keys /\ d.script \in Scripts
<1>1. frames \in Seq(FrameType)
  BY DEF TypeOK, FrameType
<1>2. Len(frames) \in Nat /\ \A i \in Running : frames[i] \in FrameType
  BY <1>1, LenProperties DEF Running
<1> QED
  BY <1>1, <1>2, LuaBoundsAssumption DEF TypeOK, FrameType, Keys, NoKey, Scripts, NoScript

LEMMA OutputKeeps == Inv /\ Output => Inv'
<1> SUFFICES ASSUME Inv, Output PROVE Inv'
  OBVIOUS
<1>1. TypeOK /\ TypeOK'
  BY TypeNext DEF Inv, Next, Script
<1> DEFINE n == Len(frames)
           f == [frames[n] EXCEPT !.said = TRUE]
<1>2. /\ n \in Running /\ frames[n] \in FrameType
      /\ frames[n].key # NoKey /\ ~frames[n].failed
      /\ result' = [result EXCEPT ![frames[n].key] = frames[n].script]
      /\ frames' = [frames EXCEPT ![n] = f]
  BY <1>1, LastFacts, Ranges DEF Output, Speaks, Last
<1>3. /\ f \in FrameType
      /\ f.key = frames[n].key /\ f.script = frames[n].script /\ f.path = frames[n].path
      /\ f.said /\ f.failed = frames[n].failed
  BY <1>2 DEF FrameType
<1> HIDE DEF f
<1>4. /\ Running' = Running
      /\ \A i \in Running : frames'[i] = IF i = n THEN f ELSE frames[i]
  BY <1>1, <1>2, <1>3, Ranges, UpdateFacts DEF Output, Speaks
<1>5. \A i \in Running : /\ frames'[i].key = frames[i].key
                         /\ frames'[i].script = frames[i].script
                         /\ frames'[i].path = frames[i].path
  BY <1>3, <1>4
<1>6. UNCHANGED <<called, counter, error, files, actions, deferred, done>>
  BY DEF Output
<1>7. Apart'
  BY <1>4, <1>5, <1>6 DEF Inv, Apart
<1>8. Own'
  <2> SUFFICES ASSUME NEW i \in Running, frames[i].key # NoKey
               PROVE  /\ result'[frames'[i].key] =
                            IF frames'[i].said THEN frames'[i].script ELSE NoScript
                      /\ error'[frames'[i].key] =
                            IF frames'[i].failed THEN frames'[i].script ELSE NoScript
    BY <1>4, <1>5 DEF Own, OwnWords
  <2>1. CASE i = n
    BY <1>1, <1>2, <1>3, <1>4, <1>6, <2>1, Ranges DEF Inv, Own, OwnWords, TypeOK
  <2>2. CASE i # n
    BY <1>1, <1>2, <1>4, <1>6, <2>2, Ranges DEF Inv, Own, OwnWords, Apart, TypeOK
  <2> QED
    BY <2>1, <2>2
<1>9. Clear'
  BY <1>1, <1>2, <1>6, Ranges DEF Inv, Clear, TypeOK
<1>10. Cleared'
  <2> SUFFICES ASSUME NEW k \in Keys, Unused(k)'
               PROVE  /\ error[k] = NoScript
                      /\ result'[k] # NoScript => [script |-> result'[k], key |-> k] \in deferred
    BY <1>6 DEF Cleared
  <2>1. Unused(k) /\ k # frames[n].key
    BY <1>2, <1>4, <1>5 DEF Unused
  <2> QED
    BY <1>1, <1>2, <2>1 DEF Inv, Cleared, TypeOK
<1>11. Removed'
  <2>1. Unopened' = Unopened
    BY <1>6 DEF Unopened
  <2>2. \A path : Used(path) => Used(path)'
    BY <1>4, <1>5 DEF Used
  <2> QED
    BY <1>6, <2>1, <2>2 DEF Inv, Removed
<1>12. RepliesAreOwn'
  BY <1>6 DEF Inv, RepliesAreOwn
<1> QED
  BY <1>1, <1>7, <1>8, <1>9, <1>10, <1>11, <1>12 DEF Inv

LEMMA FailKeeps == Inv /\ Fail => Inv'
<1> SUFFICES ASSUME Inv, Fail PROVE Inv'
  OBVIOUS
<1>1. TypeOK /\ TypeOK'
  BY TypeNext DEF Inv, Next, Script
<1> DEFINE n == Len(frames)
           f == [frames[n] EXCEPT !.failed = TRUE]
<1>2. /\ n \in Running /\ frames[n] \in FrameType
      /\ frames[n].key # NoKey
      /\ error' = [error EXCEPT ![frames[n].key] = frames[n].script]
      /\ frames' = [frames EXCEPT ![n] = f]
  BY <1>1, LastFacts, Ranges DEF Fail, Speaks, Last
<1>3. /\ f \in FrameType
      /\ f.key = frames[n].key /\ f.script = frames[n].script /\ f.path = frames[n].path
      /\ f.said = frames[n].said /\ f.failed
  BY <1>2 DEF FrameType
<1> HIDE DEF f
<1>4. /\ Running' = Running
      /\ \A i \in Running : frames'[i] = IF i = n THEN f ELSE frames[i]
  BY <1>1, <1>2, <1>3, Ranges, UpdateFacts DEF Fail, Speaks
<1>5. \A i \in Running : /\ frames'[i].key = frames[i].key
                         /\ frames'[i].script = frames[i].script
                         /\ frames'[i].path = frames[i].path
  BY <1>3, <1>4
<1>6. UNCHANGED <<called, counter, result, files, actions, deferred, done>>
  BY DEF Fail
<1>7. Apart'
  BY <1>4, <1>5, <1>6 DEF Inv, Apart
<1>8. Own'
  <2> SUFFICES ASSUME NEW i \in Running, frames[i].key # NoKey
               PROVE  /\ result'[frames'[i].key] =
                            IF frames'[i].said THEN frames'[i].script ELSE NoScript
                      /\ error'[frames'[i].key] =
                            IF frames'[i].failed THEN frames'[i].script ELSE NoScript
    BY <1>4, <1>5 DEF Own, OwnWords
  <2> DEFINE k == frames[i].key
  <2>1. /\ k \in Keys /\ frames'[i].key = k
        /\ frames[n].key \in Keys
        /\ frames'[i].said = frames[i].said /\ frames'[i].script = frames[i].script
    BY <1>1, <1>2, <1>3, <1>4, Ranges
  <2>2. /\ result[k] = IF frames[i].said THEN frames[i].script ELSE NoScript
        /\ error[k] = IF frames[i].failed THEN frames[i].script ELSE NoScript
    BY DEF Inv, Own, OwnWords
  <2>3. error \in [Keys -> Scripts \cup {NoScript}]
    BY <1>1 DEF TypeOK
  <2>4. CASE i = n
    <3>1. frames'[i].failed
      BY <1>3, <1>4, <2>4
    <3>2. error'[k] = frames[i].script
      BY <1>2, <2>1, <2>3, <2>4
    <3> QED
      BY <1>6, <2>1, <2>2, <3>1, <3>2
  <2>5. CASE i # n
    <3>1. frames'[i].failed = frames[i].failed
      BY <1>4, <2>5
    <3>2. k # frames[n].key
      BY <1>2, <2>5 DEF Inv, Apart
    <3>3. error'[k] = error[k]
      BY <1>2, <2>1, <2>3, <3>2
    <3> QED
      BY <1>6, <2>1, <2>2, <3>1, <3>3
  <2> QED
    BY <2>4, <2>5
<1>9. Clear'
  BY <1>1, <1>2, <1>6, Ranges DEF Inv, Clear, TypeOK
<1>10. Cleared'
  <2> SUFFICES ASSUME NEW k \in Keys, Unused(k)'
               PROVE  /\ error'[k] = NoScript
                      /\ result[k] # NoScript => [script |-> result[k], key |-> k] \in deferred
    BY <1>6 DEF Cleared
  <2>1. Unused(k) /\ k # frames[n].key
    BY <1>2, <1>4, <1>5 DEF Unused
  <2> QED
    BY <1>1, <1>2, <2>1 DEF Inv, Cleared, TypeOK
<1>11. Removed'
  <2>1. Unopened' = Unopened
    BY <1>6 DEF Unopened
  <2>2. \A path : Used(path) => Used(path)'
    BY <1>4, <1>5 DEF Used
  <2> QED
    BY <1>6, <2>1, <2>2 DEF Inv, Removed
<1>12. RepliesAreOwn'
  BY <1>6 DEF Inv, RepliesAreOwn
<1> QED
  BY <1>1, <1>7, <1>8, <1>9, <1>10, <1>11, <1>12 DEF Inv

LEMMA DeferKeeps == Inv /\ Defer => Inv'
<1> SUFFICES ASSUME Inv, Defer PROVE Inv'
  OBVIOUS
<1>1. TypeOK /\ TypeOK'
  BY TypeNext DEF Inv, Next, Script
<1> DEFINE n == Len(frames)
<1>2. /\ n \in Running /\ frames[n] \in FrameType /\ frames[n].key # NoKey
      /\ deferred' = deferred \cup {[script |-> frames[n].script, key |-> frames[n].key]}
  BY <1>1, LastFacts, Ranges DEF Defer, Speaks, Last
<1>3. UNCHANGED <<called, counter, result, error, frames, files, actions, done>>
  BY DEF Defer, ext
<1>4. Apart'
  BY <1>1, <1>2, <1>3 DEF Inv, Apart, Running
<1>5. Cleared'
  BY <1>2, <1>3 DEF Inv, Cleared, Unused, Running
<1>6. Own' /\ Clear'
  BY <1>3 DEF Inv, Own, OwnWords, Clear, Running
<1>7. Removed'
  BY <1>3 DEF Inv, Removed, Used, Unopened, Running
<1>8. RepliesAreOwn'
  BY <1>3 DEF Inv, RepliesAreOwn
<1> QED
  BY <1>1, <1>4, <1>5, <1>6, <1>7, <1>8 DEF Inv

LEMMA DeferredOutputKeeps == Inv /\ DeferredOutput => Inv'
<1> SUFFICES ASSUME Inv, DeferredOutput PROVE Inv'
  OBVIOUS
<1>1. TypeOK /\ TypeOK'
  BY TypeNext DEF Inv, Next, Script
<1>2. PICK d \in deferred : /\ \A i \in Running : frames[i].script # d.script
                            /\ result' = [result EXCEPT ![d.key] = d.script]
  BY DEF DeferredOutput, Running
<1>3. UNCHANGED <<called, counter, error, frames, files, actions, deferred, done>>
  BY DEF DeferredOutput
<1>4. d.key \in Keys /\ d.key # NoKey /\ \A i \in Running : frames[i].key # d.key
  BY <1>1, <1>2, Ranges DEF Inv, Apart
<1>5. Own'
  BY <1>1, <1>2, <1>3, <1>4, Ranges DEF Inv, Own, OwnWords, TypeOK, Running
<1>6. Clear'
  BY <1>1, <1>2, <1>3, <1>4, Ranges DEF Inv, Clear, TypeOK
<1>7. Cleared'
  <2> SUFFICES ASSUME NEW k \in Keys, Unused(k)
               PROVE  /\ error[k] = NoScript
                      /\ result'[k] # NoScript => [script |-> result'[k], key |-> k] \in deferred
    BY <1>3 DEF Cleared, Unused, Running
  <2>1. d = [script |-> d.script, key |-> d.key]
    BY <1>1 DEF TypeOK
  <2> QED
    BY <1>1, <1>2, <2>1 DEF Inv, Cleared, TypeOK
<1>8. Apart'
  BY <1>3 DEF Inv, Apart, Running
<1>9. Removed'
  BY <1>3 DEF Inv, Removed, Used, Unopened, Running
<1>10. RepliesAreOwn'
  BY <1>3 DEF Inv, RepliesAreOwn
<1> QED
  BY <1>1, <1>5, <1>6, <1>7, <1>8, <1>9, <1>10 DEF Inv

(***************************************************************************)
(* The end of a command: what is under its key is its own, is reported,    *)
(* and is gone.                                                            *)
(***************************************************************************)
Ended(f) ==
    /\ f.key # NoKey =>
           /\ result'[f.key] = NoScript
           /\ error'[f.key] = NoScript
    /\ \A k \in Keys : k # f.key => result'[k] = result[k] /\ error'[k] = error[k]
    /\ f.key = NoKey => UNCHANGED ext

\* What RepliesAreOwn says of the reply of frame f.
Honest(f, kind, from) ==
    /\ kind \in {"output", "number overflow"} =>
           from = f.script /\ f.said /\ ~f.failed
    /\ kind = "lua error" => from = f.script /\ f.failed
    /\ kind = "no output" => ~f.said /\ ~f.failed

LEMMA ReplyKeeps ==
    ASSUME RepliesAreOwn, NEW f, NEW kind, NEW from,
           Reply(f, kind, from), Honest(f, kind, from)
    PROVE  RepliesAreOwn'
<1> DEFINE r == [script |-> f.script, path |-> f.path, said |-> f.said,
                 failed |-> f.failed, kind |-> kind, from |-> from]
<1>1. done' = done \cup {r}
  BY DEF Reply
<1>2. /\ r.kind \in {"output", "number overflow"} =>
             r.from = r.script /\ r.said /\ ~r.failed
      /\ r.kind = "lua error" => r.from = r.script /\ r.failed
      /\ r.kind = "no output" => ~r.said /\ ~r.failed
  BY DEF Honest
<1> HIDE DEF r
<1> QED
  BY <1>1, <1>2 DEF RepliesAreOwn

LEMMA ReturnEnds ==
    ASSUME Inv, Returns
    PROVE  /\ Ended(frames[Len(frames)])
           /\ \E kind, from :
                /\ Reply(frames[Len(frames)], kind, from)
                /\ Honest(frames[Len(frames)], kind, from)
<1> DEFINE f == frames[Len(frames)]
<1>1. TypeOK /\ frames # <<>>
  BY DEF Inv, Returns, ExecuteReturns, ReadReturnsError, ReadReturnsNothing, ReadReturnsOutput
<1>2. /\ Len(frames) \in Running /\ f \in FrameType /\ Last(frames) = f
      /\ f.key \in Keys /\ f.script # NoScript
  BY <1>1, LastFacts, Ranges
<1>3. f.key # NoKey => OwnWords(f)
  BY <1>2 DEF Inv, Own
<1>4. error[f.key] # NoScript => f.key # NoKey
  BY DEF Inv, Clear
<1>5. /\ result \in [Keys -> Scripts \cup {NoScript}]
      /\ error \in [Keys -> Scripts \cup {NoScript}]
  BY <1>1 DEF TypeOK
<1> HIDE DEF f
<1>6. CASE ExecuteReturns
  <2>1. f.key = NoKey /\ Reply(f, "success", NoScript) /\ UNCHANGED ext
    BY <1>2, <1>6 DEF ExecuteReturns
  <2>2. Ended(f)
    BY <2>1 DEF Ended, ext
  <2>3. Honest(f, "success", NoScript)
    BY DEF Honest
  <2> QED
    BY <2>1, <2>2, <2>3 DEF f
<1>7. CASE ReadReturnsError
  <2>1. /\ error[f.key] # NoScript /\ Reply(f, "lua error", error[f.key])
        /\ error' = [error EXCEPT ![f.key] = NoScript]
        /\ result' = [result EXCEPT ![f.key] = NoScript]
    BY <1>2, <1>7 DEF ReadReturnsError, ResultDropped
  <2>2. Ended(f)
    BY <1>2, <1>4, <1>5, <2>1 DEF Ended
  <2>3. error[f.key] = f.script /\ f.failed
    BY <1>3, <1>4, <2>1 DEF OwnWords
  <2>4. Honest(f, "lua error", error[f.key])
    BY <2>3 DEF Honest
  <2> QED
    BY <2>1, <2>2, <2>4 DEF f
<1>8. CASE ReadReturnsNothing
  <2>1. /\ f.key # NoKey /\ error[f.key] = NoScript /\ result[f.key] = NoScript
        /\ Reply(f, "no output", NoScript) /\ UNCHANGED ext
    BY <1>2, <1>8 DEF ReadReturnsNothing
  <2>2. Ended(f)
    BY <2>1 DEF Ended, ext
  <2>3. ~f.said /\ ~f.failed
    BY <1>2, <1>3, <2>1 DEF OwnWords
  <2>4. Honest(f, "no output", NoScript)
    BY <2>3 DEF Honest
  <2> QED
    BY <2>1, <2>2, <2>4 DEF f
<1>9. CASE ReadReturnsOutput
  <2>1. /\ f.key # NoKey /\ error[f.key] = NoScript /\ result[f.key] # NoScript
        /\ \E kind \in {"output", "number overflow"} : Reply(f, kind, result[f.key])
        /\ result' = [result EXCEPT ![f.key] = NoScript]
        /\ UNCHANGED error
    BY <1>2, <1>9 DEF ReadReturnsOutput
  <2>2. Ended(f)
    BY <1>2, <1>5, <2>1 DEF Ended
  <2>3. result[f.key] = f.script /\ f.said /\ ~f.failed
    BY <1>2, <1>3, <2>1 DEF OwnWords
  <2>4. \A kind \in {"output", "number overflow"} : Honest(f, kind, result[f.key])
    BY <2>3 DEF Honest
  <2> QED
    BY <2>1, <2>2, <2>4 DEF f
<1> QED
  BY <1>6, <1>7, <1>8, <1>9 DEF Returns

LEMMA ReturnsKeeps == Inv /\ Returns => Inv'
<1> SUFFICES ASSUME Inv, Returns PROVE Inv'
  OBVIOUS
<1>1. TypeOK /\ TypeOK'
  BY TypeNext DEF Inv, Next
<1> DEFINE n == Len(frames)
           f == frames[n]
<1>2. frames # <<>> /\ CleanUp(Last(frames))
  BY DEF Returns, ExecuteReturns, ReadReturnsError, ReadReturnsNothing, ReadReturnsOutput
<1>3. n \in Nat /\ n \in Running /\ f \in FrameType /\ Last(frames) = f /\ f.key \in Keys
  BY <1>1, <1>2, LastFacts, Ranges
<1>4. /\ Running' = 1 .. n - 1
      /\ \A i \in Running' : frames'[i] = frames[i]
  BY <1>1, <1>2, FrontFacts, Ranges DEF CleanUp
<1>5. Running = Running' \cup {n} /\ n \notin Running'
  BY <1>3, <1>4 DEF Running
<1>6. /\ UNCHANGED <<called, counter, deferred>>
      /\ actions' = actions \ {f.path}
      /\ files' = files \ {f.path}
  BY <1>2, <1>3 DEF CleanUp, FileRemoved
<1>7. Ended(f)
  BY ReturnEnds
<1> HIDE DEF n, f
<1>8. \A i \in Running' : i \in Running /\ i # n /\ frames'[i] = frames[i]
  BY <1>4, <1>5
<1>9. Apart'
  BY <1>6, <1>8 DEF Inv, Apart
<1>10. Own'
  <2> SUFFICES ASSUME NEW i \in Running', frames[i].key # NoKey
               PROVE  OwnWords(frames[i])'
    BY <1>8 DEF Own
  <2>1. frames[i].key # f.key /\ frames[i].key \in Keys
    BY <1>1, <1>3, <1>8, Ranges DEF Inv, Apart, f
  <2>2. OwnWords(frames[i])
    BY <1>8 DEF Inv, Own
  <2>3. /\ result'[frames[i].key] = result[frames[i].key]
        /\ error'[frames[i].key] = error[frames[i].key]
    BY <1>7, <2>1 DEF Ended
  <2> QED
    BY <1>8, <2>2, <2>3 DEF OwnWords
<1>11. Clear'
  BY <1>1, <1>7, Ranges DEF Inv, Clear, Ended, ext
<1>12. Cleared'
  <2> SUFFICES ASSUME NEW k \in Keys, Unused(k)'
               PROVE  /\ error'[k] = NoScript
                      /\ result'[k] # NoScript => [script |-> result'[k], key |-> k] \in deferred
    BY <1>6 DEF Cleared
  <2>1. CASE k = f.key
    BY <1>7, <1>11, <2>1 DEF Ended, Clear
  <2>2. CASE k # f.key
    <3>1. Unused(k)
      BY <1>5, <1>8, <2>2 DEF Unused, f
    <3> QED
      BY <1>7, <2>2, <3>1 DEF Inv, Cleared, Ended
  <2> QED
    BY <2>1, <2>2
<1>13. PICK kind, from : Reply(f, kind, from) /\ Honest(f, kind, from)
  BY ReturnEnds DEF f, n
<1>14. Removed'
  <2>1. Unopened \subseteq Unopened'
    BY <1>13 DEF Reply, Unopened
  <2>2. \A path : Used(path) /\ path # f.path => Used(path)'
    BY <1>5, <1>8 DEF Used, f
  <2> QED
    BY <1>6, <2>1, <2>2 DEF Inv, Removed
<1>15. RepliesAreOwn'
  BY <1>13, ReplyKeeps DEF Inv
<1> QED
  BY <1>1, <1>9, <1>10, <1>11, <1>12, <1>14, <1>15 DEF Inv

(***************************************************************************)
(* The call of a command: a new script with a new key, under which nothing *)
(* is found.  Its frame f is added, or it ends at once.                    *)
(***************************************************************************)
LEMMA CallKeeps == Inv /\ (\E command \in Commands : Call(command)) => Inv'
<1> SUFFICES ASSUME Inv, \E command \in Commands : Call(command) PROVE Inv'
  OBVIOUS
<1>1. TypeOK /\ TypeOK'
  BY TypeNext DEF Inv, Next
<1>2. PICK f : Started(f)
  BY <1>1, CallStarts
<1>3. /\ f \in FrameType /\ f.script = called + 1 /\ ~f.said /\ ~f.failed
      /\ called' = called + 1 /\ deferred' = deferred
      /\ counter' \in {counter, counter + 1}
      /\ f.key # NoKey => f.key = counter /\ counter' = counter + 1
      /\ counter \in Keys /\ counter # NoKey
  BY <1>1, <1>2, Ranges DEF Started, Keys, NoKey
<1>4. \A k \in Keys : /\ result'[k] = IF k = f.key /\ k # NoKey THEN NoScript ELSE result[k]
                      /\ error'[k] = IF k = f.key /\ k # NoKey THEN NoScript ELSE error[k]
  BY <1>1, <1>2, <1>3 DEF Started, ext, TypeOK
<1>5. \/ UNCHANGED frames /\ Running' = Running
      \/ /\ frames' = Append(frames, f)
         /\ Running' = Running \cup {Len(frames) + 1}
         /\ Len(frames) + 1 \notin Running
         /\ \A i \in Running : frames'[i] = frames[i]
         /\ frames'[Len(frames) + 1] = f
  <2>1. CASE UNCHANGED frames
    BY <2>1 DEF Running
  <2>2. CASE frames' = Append(frames, f)
    <3>1. /\ Len(frames) \in Nat
          /\ Running' = 1 .. Len(frames) + 1
          /\ \A i \in Running : frames'[i] = frames[i]
          /\ frames'[Len(frames) + 1] = f
      BY <1>1, <1>3, <2>2, AppendFacts, Ranges
    <3>2. Running' = Running \cup {Len(frames) + 1} /\ Len(frames) + 1 \notin Running
      BY <3>1 DEF Running
    <3> QED
      BY <2>2, <3>1, <3>2
  <2> QED
    BY <1>2, <2>1, <2>2 DEF Started, OpenFails, RegistrationFails, Runs
<1>6. /\ Running \subseteq Running'
      /\ \A i \in Running : frames'[i] = frames[i]
      /\ \A i \in Running' \ Running : frames'[i] = f
      /\ \A i, j \in Running' \ Running : i = j
  BY <1>5
<1>7. Apart'
  <2>1. \A i \in Running : /\ frames[i].script <= called
                           /\ frames[i].script # f.script
                           /\ frames[i].key # NoKey => frames[i].key < counter
                           /\ frames[i].key = f.key => f.key = NoKey
                           /\ frames[i].key \in Nat /\ frames[i].script \in Nat
    BY <1>1, <1>3, Ranges DEF Inv, Apart
  <2>2. \A d \in deferred : /\ d.script <= called /\ d.key < counter
                            /\ d.script # f.script /\ d.key # f.key
                            /\ d.key \in Nat /\ d.script \in Nat
    BY <1>1, <1>3, Ranges DEF Inv, Apart
  <2>3. \A i \in Running' : /\ frames'[i].script <= called'
                            /\ frames'[i].key # NoKey => frames'[i].key < counter'
    BY <1>1, <1>3, <1>6, <2>1, Ranges
  <2>4. \A i, j \in Running' : i # j =>
           /\ frames'[i].script # frames'[j].script
           /\ frames'[i].key = frames'[j].key => frames'[i].key = NoKey
    BY <1>6, <2>1 DEF Inv, Apart
  <2>5. \A d \in deferred :
           /\ d.script <= called'
           /\ d.key < counter'
           /\ \A i \in Running' : d.script = frames'[i].script <=> d.key = frames'[i].key
    BY <1>1, <1>3, <1>6, <2>2, Ranges DEF Inv, Apart
  <2> QED
    BY <1>3, <2>3, <2>4, <2>5 DEF Apart
<1>8. Own'
  <2> SUFFICES ASSUME NEW i \in Running', frames'[i].key # NoKey
               PROVE  /\ result'[frames'[i].key] =
                            IF frames'[i].said THEN frames'[i].script ELSE NoScript
                      /\ error'[frames'[i].key] =
                            IF frames'[i].failed THEN frames'[i].script ELSE NoScript
    BY DEF Own, OwnWords
  <2>1. CASE i \in Running
    <3>1. frames[i].key # f.key /\ frames[i].key \in Keys
      BY <1>1, <1>3, <1>6, <2>1, Ranges DEF Inv, Apart
    <3>2. OwnWords(frames[i])
      BY <1>6, <2>1 DEF Inv, Own
    <3> QED
      BY <1>4, <1>6, <2>1, <3>1, <3>2 DEF OwnWords
  <2>2. CASE i \notin Running
    BY <1>1, <1>3, <1>4, <1>6, <2>2, Ranges DEF OwnWords
  <2> QED
    BY <2>1, <2>2
<1>9. Clear'
  BY <1>1, <1>4, Ranges DEF Inv, Clear
<1>10. Cleared'
  <2> SUFFICES ASSUME NEW k \in Keys, Unused(k)'
               PROVE  /\ error'[k] = NoScript
                      /\ result'[k] # NoScript => [script |-> result'[k], key |-> k] \in deferred
    BY <1>3 DEF Cleared
  <2>1. Unused(k)
    BY <1>6 DEF Unused
  <2> QED
    BY <1>4, <2>1 DEF Inv, Cleared
<1>11. Removed'
  <2>1. \A path : Used(path) => Used(path)'
    BY <1>6 DEF Used
  <2>2. CASE OpenFails(f)
    <3>1. Unopened \subseteq Unopened' /\ f.path \in Unopened'
      <4> DEFINE r == [script |-> f.script, path |-> f.path, said |-> f.said,
                       failed |-> f.failed, kind |-> "no file", from |-> NoScript]
      <4>1. done' = done \cup {r} /\ r.kind = "no file" /\ r.path = f.path
        BY <2>2 DEF OpenFails, Reply
      <4> HIDE DEF r
      <4> QED
        BY <4>1 DEF Unopened
    <3> QED
      BY <2>1, <2>2, <3>1 DEF OpenFails, Inv, Removed
  <2>3. CASE RegistrationFails(f)
    <3>1. Unopened \subseteq Unopened'
      BY <2>3 DEF RegistrationFails, Reply, Unopened
    <3> QED
      BY <2>1, <2>3, <3>1 DEF RegistrationFails, FileRemoved, Inv, Removed
  <2>4. CASE Runs(f)
    <3>1. Used(f.path)'
      BY <1>1, <1>3, <2>4, AppendFacts, Ranges DEF Runs, Used
    <3>2. Unopened' = Unopened
      BY <2>4 DEF Runs, Unopened
    <3> QED
      BY <2>1, <2>4, <3>1, <3>2 DEF Runs, Inv, Removed
  <2> QED
    BY <1>2, <2>2, <2>3, <2>4 DEF Started
<1>12. RepliesAreOwn'
  <2>1. CASE UNCHANGED done
    BY <2>1 DEF Inv, RepliesAreOwn
  <2>2. CASE \E kind \in {"no file", "no action"} : Reply(f, kind, NoScript)
    <3>1. PICK kind \in {"no file", "no action"} : Reply(f, kind, NoScript)
      BY <2>2
    <3>2. Honest(f, kind, NoScript)
      BY DEF Honest
    <3> QED
      BY <3>1, <3>2, ReplyKeeps DEF Inv
  <2> QED
    BY <1>2, <2>1, <2>2 DEF Started, OpenFails, RegistrationFails, Runs
<1> QED
  BY <1>1, <1>7, <1>8, <1>9, <1>10, <1>11, <1>12 DEF Inv

LEMMA InvNext == Inv /\ [Next]_vars => Inv'
<1> SUFFICES ASSUME Inv, [Next]_vars PROVE Inv'
  OBVIOUS
<1>1. CASE UNCHANGED vars
  <2>1. UNCHANGED <<called, counter, result, error, frames, files, actions, deferred, done>>
    BY <1>1 DEF vars, ext
  <2>2. TypeOK'
    BY TypeNext DEF Inv
  <2>3. Apart' /\ Own' /\ Clear'
    BY <2>1 DEF Inv, Apart, Own, OwnWords, Clear, Running
  <2>4. Cleared'
    BY <2>1 DEF Inv, Cleared, Unused, Running
  <2>5. Removed'
    BY <2>1 DEF Inv, Removed, Used, Unopened, Running
  <2>6. RepliesAreOwn'
    BY <2>1 DEF Inv, RepliesAreOwn
  <2> QED
    BY <2>2, <2>3, <2>4, <2>5, <2>6 DEF Inv
<1> QED
  BY <1>1, OutputKeeps, FailKeeps, DeferKeeps, DeferredOutputKeeps, ReturnsKeeps, CallKeeps
     DEF Next, Script

-----------------------------------------------------------------------------
LEMMA InvImplies == Inv => ExtStateIsCleared /\ FilesAreRemoved
<1> SUFFICES ASSUME Inv PROVE ExtStateIsCleared /\ FilesAreRemoved
  OBVIOUS
<1>1. DOMAIN frames = Running
  BY Ranges, LenProperties DEF Inv, Running
<1>2. ASSUME NEW k, Using(k) = {} PROVE Unused(k)
  BY <1>1, <1>2 DEF Using, ToSet, Unused
<1>3. ASSUME NEW path, Used(path) PROVE path \in {f.path : f \in ToSet(frames)}
  BY <1>1, <1>3 DEF Used, ToSet
<1> QED
  BY <1>2, <1>3 DEF Inv, Cleared, Removed, ExtStateIsCleared, FilesAreRemoved

\* A reply holds the words of its own script, however commands nest in each
\* other's windows and whatever deferred scripts say (lua.cpp's keys).
THEOREM RepliesAreOwnCorrect == Spec => []RepliesAreOwn
<1>1. Inv => RepliesAreOwn
  BY DEF Inv
<1> QED
  BY <1>1, InvInit, InvNext, PTL DEF Spec

\* Commands leave nothing in ExtState but what deferred scripts say later.
THEOREM ExtStateIsClearedCorrect == Spec => []ExtStateIsCleared
BY InvInit, InvNext, InvImplies, PTL DEF Spec

\* Temporary files and ReaScript actions do not outlive their commands, but for
\* the files mkstemp made and nobody could open.
THEOREM FilesAreRemovedCorrect == Spec => []FilesAreRemoved
BY InvInit, InvNext, InvImplies, PTL DEF Spec
=============================================================================

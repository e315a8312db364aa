------------------------ MODULE ProjectCommandsProofs ------------------------
(***************************************************************************)
(* Proofs about ProjectCommands, for every project, every number of tracks *)
(* and any number of commands: the undo history covers the project between *)
(* commands, failures change nothing but in the two known commands, the    *)
(* client's books are right, success is success on something, but in the   *)
(* known cases, and the variables keep their types.                        *)
(***************************************************************************)
EXTENDS ProjectCommands, SequenceTheorems, FiniteSetTheorems, FoldLemmas, TLAPS

(***************************************************************************)
(* Undo blocks.  Between commands, before a block and after it, the undo   *)
(* history is up to date; in a block it need not be.                       *)
(***************************************************************************)
UndoInv ==
    /\ stage \in {"idle", "called", "inside", "over"}
    /\ stage = "inside" => depth = 1
    /\ stage # "inside" => depth = 0 /\ undo = project

LEMMA UndoInvInit == Init => UndoInv
BY DEF Init, UndoInv

LEMMA UndoInvNext == UndoInv /\ [Next]_vars => UndoInv'
<1> SUFFICES ASSUME UndoInv, [Next]_vars PROVE UndoInv'
  OBVIOUS
<1> USE DEF UndoInv
<1>1. CASE Call
  BY <1>1 DEF Call
<1>2. CASE BeginBlock
  BY <1>2 DEF BeginBlock, Construct
<1>3. CASE ReaperCall
  BY <1>3 DEF ReaperCall
<1>4. CASE EndBlock
  BY <1>4 DEF EndBlock, Destruct
<1>5. CASE Answered
  BY <1>5 DEF Answered
<1>6. CASE List
  BY <1>6 DEF List
<1>7. CASE UNCHANGED vars
  BY <1>7 DEF vars
<1> QED
  BY <1>1, <1>2, <1>3, <1>4, <1>5, <1>6, <1>7 DEF Next

\* No command leaves its block open, and the last undo point is the project as
\* it is, whatever exception ended the command (undo.cpp).
THEOREM UndoCoversEveryChange == Spec => []UndoIsUpToDate
<1>1. UndoInv => UndoIsUpToDate
  BY DEF UndoInv, UndoIsUpToDate
<1> QED
  BY <1>1, UndoInvInit, UndoInvNext, PTL DEF Spec

-----------------------------------------------------------------------------
(***************************************************************************)
(* Finite sets of numbers have a largest one, so there is an identity that *)
(* no track has.                                                           *)
(***************************************************************************)
HasMaxOf(n) ==
    \A S \in SUBSET Nat :
        IsFiniteSet(S) /\ Cardinality(S) = n /\ S # {} => \E m \in S : \A y \in S : m >= y

LEMMA FiniteHasMax ==
    ASSUME NEW S \in SUBSET Nat, IsFiniteSet(S), S # {}
    PROVE  \E m \in S : \A y \in S : m >= y
<1> DEFINE T == {n \in Nat : HasMaxOf(n)}
<1>1. 0 \in T
  BY FS_EmptySet DEF HasMaxOf
<1>2. ASSUME NEW n \in Nat, n \in T
      PROVE  n + 1 \in T
  <2>0. HasMaxOf(n)
    BY <1>2
  <2>1. ASSUME NEW R \in SUBSET Nat, IsFiniteSet(R), Cardinality(R) = n + 1, R # {}
        PROVE  \E m \in R : \A y \in R : m >= y
    <3>1. PICK e \in R : TRUE
      BY <2>1
    <3>2. IsFiniteSet(R \ {e}) /\ Cardinality(R \ {e}) = n
      <4>1. /\ IsFiniteSet(R \ {e})
            /\ Cardinality(R \ {e}) = IF e \in R THEN Cardinality(R) - 1 ELSE Cardinality(R)
        BY <2>1, FS_RemoveElement, Zenon
      <4> QED
        BY <2>1, <4>1
    <3>3. CASE R \ {e} = {}
      BY <3>3
    <3>4. CASE R \ {e} # {}
      <4>1. PICK m \in R \ {e} : \A y \in R \ {e} : m >= y
        BY <2>0, <3>2, <3>4 DEF HasMaxOf
      <4>2. CASE m >= e
        BY <4>1, <4>2
      <4>3. CASE e >= m
        BY <4>1, <4>3
      <4> QED
        BY <4>2, <4>3
    <3> QED
      BY <3>3, <3>4
  <2>2. HasMaxOf(n + 1)
    BY <2>1 DEF HasMaxOf
  <2> QED
    BY <2>2
<1> HIDE DEF T
<1>3. Cardinality(S) \in Nat
  BY FS_CardinalityType
<1>4. Cardinality(S) \in T
  BY <1>1, <1>2, <1>3, NatSetInduction
<1>5. HasMaxOf(Cardinality(S))
  BY <1>4 DEF T
<1> QED
  BY <1>5 DEF HasMaxOf

-----------------------------------------------------------------------------
\* One step of SendsWithout, by position.
SendKept(sends, id) ==
    [p \in Seq(Nat) \X (1 .. Len(sends)) |->
        IF sends[p[2]] = id THEN p[1] ELSE Append(p[1], sends[p[2]])]

LEMMA SendsWithoutType ==
    ASSUME NEW sends \in Seq(Nat), NEW id
    PROVE  SendsWithout(sends, id) \in Seq(Nat)
<1> DEFINE N == Len(sends)
           Def(h) == [s \in SUBSET (1 .. N) |->
                         IF s = {} THEN <<>>
                         ELSE IF sends[Max(s)] = id THEN h[s \ {Max(s)}]
                              ELSE Append(h[s \ {Max(s)}], sends[Max(s)])]
           iter == CHOOSE h : h = Def(h)
<1>1. SendsWithout(sends, id) = iter[1 .. N]
  <2>1. DOMAIN sends = 1 .. N
    OBVIOUS
  <2> QED
    BY <2>1 DEF SendsWithout, FoldLeft, MapThenFoldSet
<1>2. \E h : h = Def(h)
  <2>1. /\ N \in Nat /\ <<>> \in Seq(Nat)
        /\ SendKept(sends, id) \in [Seq(Nat) \X (1 .. N) -> Seq(Nat)]
    BY DEF SendKept
  <2>2. PICK h \in [SUBSET (1 .. N) -> Seq(Nat)] : Folds(h, SendKept(sends, id), <<>>, N)
    BY <2>1, FoldExists
  <2>3. ASSUME NEW s \in SUBSET (1 .. N), s # {}
        PROVE  /\ Max(s) \in 1 .. N
               /\ h[s \ {Max(s)}] \in Seq(Nat)
    <3>1. N \in Nat /\ s \subseteq 1 .. N
      OBVIOUS
    <3>2. Max(s) \in s
      BY <2>3, <3>1, MaxInRange
    <3>3. s \ {Max(s)} \in SUBSET (1 .. N)
      OBVIOUS
    <3> HIDE DEF N
    <3> QED
      BY <3>1, <3>2, <3>3
  <2>4. ASSUME NEW s \in SUBSET (1 .. N)
        PROVE  h[s] = Def(h)[s]
    BY <2>2, <2>3 DEF Folds, SendKept
  <2> QED
    BY <2>4
<1>3. iter = Def(iter)
  BY <1>2
<1> HIDE DEF iter
<1>4. \A s \in SUBSET (1 .. N) : iter[s] = Def(iter)[s]
  BY <1>3
<1> DEFINE T == {k \in Nat : k <= N => iter[1 .. k] \in Seq(Nat)}
<1>5. 0 \in T
  <2>1. 1 .. 0 \in SUBSET (1 .. N) /\ 1 .. 0 = {}
    OBVIOUS
  <2>2. iter[1 .. 0] = <<>>
    BY <1>4, <2>1
  <2>3. <<>> \in Seq(Nat)
    OBVIOUS
  <2> QED
    BY <2>2, <2>3
<1>6. ASSUME NEW k \in Nat, k \in T
      PROVE  k + 1 \in T
  <2> SUFFICES ASSUME k + 1 <= N
               PROVE  iter[1 .. k + 1] \in Seq(Nat)
    OBVIOUS
  <2>1. k + 1 \in Nat \ {0} /\ 1 .. k + 1 \in SUBSET (1 .. N) /\ (k + 1) - 1 = k
    OBVIOUS
  <2>2. iter[1 .. k + 1] = IF sends[k + 1] = id THEN iter[1 .. k]
                           ELSE Append(iter[1 .. k], sends[k + 1])
    BY <1>4, <2>1, Prefix
  <2>3. iter[1 .. k] \in Seq(Nat) /\ sends[k + 1] \in Nat
    BY <1>6
  <2> QED
    BY <2>2, <2>3
<1> HIDE DEF T
<1>7. N \in T
  BY <1>5, <1>6, NatSetInduction
<1> QED
  BY <1>1, <1>7 DEF T

-----------------------------------------------------------------------------
(***************************************************************************)
(* Sequences that are changed at a place stay sequences.                   *)
(***************************************************************************)
LEMMA InsertedType ==
    ASSUME NEW S, NEW s \in Seq(S), NEW i \in 1 .. Len(s) + 1, NEW x \in S
    PROVE  /\ InsertAt(s, i, x) \in Seq(S)
           /\ Len(InsertAt(s, i, x)) = Len(s) + 1
<1>1. /\ SubSeq(s, 1, i - 1) \in Seq(S) /\ Len(SubSeq(s, 1, i - 1)) = i - 1
      /\ SubSeq(s, i, Len(s)) \in Seq(S) /\ Len(SubSeq(s, i, Len(s))) = Len(s) - i + 1
  OBVIOUS
<1> DEFINE a == SubSeq(s, 1, i - 1)
           b == SubSeq(s, i, Len(s))
           c == a \o <<x>>
<1>2. InsertAt(s, i, x) = c \o b
  BY DEF InsertAt
<1> HIDE DEF a, b
<1>3. a \in Seq(S) /\ b \in Seq(S) /\ Len(a) = i - 1 /\ Len(b) = Len(s) - i + 1
  BY <1>1 DEF a, b
<1>4. c \in Seq(S) /\ Len(c) = i
  BY <1>3
<1> HIDE DEF c
<1> QED
  BY <1>2, <1>3, <1>4

LEMMA RemovedType ==
    ASSUME NEW S, NEW s \in Seq(S), NEW i \in 1 .. Len(s)
    PROVE  RemoveAt(s, i) \in Seq(S) /\ Len(RemoveAt(s, i)) = Len(s) - 1
<1>1. /\ SubSeq(s, 1, i - 1) \in Seq(S) /\ Len(SubSeq(s, 1, i - 1)) = i - 1
      /\ SubSeq(s, i + 1, Len(s)) \in Seq(S) /\ Len(SubSeq(s, i + 1, Len(s))) = Len(s) - i
  OBVIOUS
<1> DEFINE a == SubSeq(s, 1, i - 1)
           b == SubSeq(s, i + 1, Len(s))
<1>2. RemoveAt(s, i) = a \o b
  BY DEF RemoveAt
<1> HIDE DEF a, b
<1>3. a \in Seq(S) /\ b \in Seq(S) /\ Len(a) = i - 1 /\ Len(b) = Len(s) - i
  BY <1>1 DEF a, b
<1> QED
  BY <1>2, <1>3

LEMMA ReplacedType ==
    ASSUME NEW S, NEW s \in Seq(S), NEW i \in 1 .. Len(s), NEW x \in S
    PROVE  [s EXCEPT ![i] = x] \in Seq(S)
OBVIOUS

-----------------------------------------------------------------------------
(***************************************************************************)
(* The elements of a sequence that is changed at a place, and their order. *)
(***************************************************************************)
LEMMA InsertedElements ==
    ASSUME NEW S, NEW s \in Seq(S), NEW i \in 1 .. Len(s) + 1, NEW x \in S
    PROVE  \A j \in 1 .. Len(s) + 1 :
              InsertAt(s, i, x)[j] = IF j < i THEN s[j] ELSE IF j = i THEN x ELSE s[j - 1]
<1>1. /\ SubSeq(s, 1, i - 1) \in Seq(S) /\ Len(SubSeq(s, 1, i - 1)) = i - 1
      /\ \A j \in 1 .. i - 1 : SubSeq(s, 1, i - 1)[j] = s[j]
      /\ SubSeq(s, i, Len(s)) \in Seq(S) /\ Len(SubSeq(s, i, Len(s))) = Len(s) - i + 1
      /\ \A j \in 1 .. Len(s) - i + 1 : SubSeq(s, i, Len(s))[j] = s[j + i - 1]
  OBVIOUS
<1> DEFINE a == SubSeq(s, 1, i - 1)
           b == SubSeq(s, i, Len(s))
           c == a \o <<x>>
<1>2. InsertAt(s, i, x) = c \o b
  BY DEF InsertAt
<1> HIDE DEF a, b
<1>3. /\ a \in Seq(S) /\ Len(a) = i - 1 /\ \A j \in 1 .. i - 1 : a[j] = s[j]
      /\ b \in Seq(S) /\ Len(b) = Len(s) - i + 1
      /\ \A j \in 1 .. Len(s) - i + 1 : b[j] = s[j + i - 1]
  BY <1>1 DEF a, b
<1>4. /\ c \in Seq(S) /\ Len(c) = i
      /\ \A j \in 1 .. i : c[j] = IF j < i THEN s[j] ELSE x
  BY <1>3
<1> HIDE DEF c
<1>5. ASSUME NEW j \in 1 .. Len(s) + 1
      PROVE  (c \o b)[j] = IF j <= i THEN c[j] ELSE b[j - i]
  BY <1>3, <1>4
<1> QED
  BY <1>2, <1>3, <1>4, <1>5

LEMMA RemovedElements ==
    ASSUME NEW S, NEW s \in Seq(S), NEW i \in 1 .. Len(s)
    PROVE  \A j \in 1 .. Len(s) - 1 : RemoveAt(s, i)[j] = IF j < i THEN s[j] ELSE s[j + 1]
<1>1. /\ SubSeq(s, 1, i - 1) \in Seq(S) /\ Len(SubSeq(s, 1, i - 1)) = i - 1
      /\ \A j \in 1 .. i - 1 : SubSeq(s, 1, i - 1)[j] = s[j]
      /\ SubSeq(s, i + 1, Len(s)) \in Seq(S) /\ Len(SubSeq(s, i + 1, Len(s))) = Len(s) - i
      /\ \A j \in 1 .. Len(s) - i : SubSeq(s, i + 1, Len(s))[j] = s[j + i]
  OBVIOUS
<1> DEFINE a == SubSeq(s, 1, i - 1)
           b == SubSeq(s, i + 1, Len(s))
<1>2. RemoveAt(s, i) = a \o b
  BY DEF RemoveAt
<1> HIDE DEF a, b
<1>3. /\ a \in Seq(S) /\ Len(a) = i - 1 /\ \A j \in 1 .. i - 1 : a[j] = s[j]
      /\ b \in Seq(S) /\ Len(b) = Len(s) - i
      /\ \A j \in 1 .. Len(s) - i : b[j] = s[j + i]
  BY <1>1 DEF a, b
<1> QED
  BY <1>2, <1>3

LEMMA PutInOrder ==
    ASSUME NEW S, \A y \in S : y.time \in Nat,
           NEW s \in Seq(S), InOrder(s), NEW x \in S, NEW n \in Places(s, x.time)
    PROVE  InsertAt(s, n, x) \in Seq(S) /\ InOrder(InsertAt(s, n, x))
<1> DEFINE new == InsertAt(s, n, x)
<1>1. /\ n \in 1 .. Len(s) + 1
      /\ \A j \in 1 .. n - 1 : s[j].time <= x.time
      /\ \A j \in n .. Len(s) : x.time <= s[j].time
  BY DEF Places
<1>2. /\ new \in Seq(S) /\ Len(new) = Len(s) + 1
      /\ \A j \in 1 .. Len(s) + 1 :
            new[j] = IF j < n THEN s[j] ELSE IF j = n THEN x ELSE s[j - 1]
  BY <1>1, InsertedType, InsertedElements
<1> HIDE DEF new
<1>3. \A j, k \in 1 .. Len(s) : j < k => s[j].time <= s[k].time
  BY DEF InOrder
<1>4. x.time \in Nat /\ \A j \in 1 .. Len(s) : s[j].time \in Nat
  OBVIOUS
<1>5. ASSUME NEW j \in 1 .. Len(s) + 1, NEW k \in 1 .. Len(s) + 1, j < k
      PROVE  new[j].time <= new[k].time
  <2>1. CASE k < n
    <3>1. new[j] = s[j] /\ new[k] = s[k] /\ j \in 1 .. Len(s) /\ k \in 1 .. Len(s)
      BY <1>1, <1>2, <1>5, <2>1
    <3> QED
      BY <1>3, <1>5, <3>1
  <2>2. CASE k = n
    <3>1. new[j] = s[j] /\ new[k] = x /\ j \in 1 .. n - 1
      BY <1>1, <1>2, <1>5, <2>2
    <3> QED
      BY <1>1, <3>1
  <2>3. CASE k > n /\ j < n
    <3>1. new[j] = s[j] /\ new[k] = s[k - 1] /\ j \in 1 .. n - 1 /\ k - 1 \in n .. Len(s)
      BY <1>1, <1>2, <1>5, <2>3
    <3>2. s[j].time <= x.time /\ x.time <= s[k - 1].time
      BY <1>1, <3>1
    <3>3. s[j].time \in Nat /\ s[k - 1].time \in Nat
      BY <1>1, <1>4, <3>1
    <3> QED
      BY <1>4, <3>1, <3>2, <3>3
  <2>4. CASE k > n /\ j = n
    <3>1. new[j] = x /\ new[k] = s[k - 1] /\ k - 1 \in n .. Len(s)
      BY <1>1, <1>2, <1>5, <2>4
    <3> QED
      BY <1>1, <3>1
  <2>5. CASE j > n
    <3>1. /\ new[j] = s[j - 1] /\ new[k] = s[k - 1]
          /\ j - 1 \in 1 .. Len(s) /\ k - 1 \in 1 .. Len(s) /\ j - 1 < k - 1
      BY <1>1, <1>2, <1>5, <2>5
    <3> QED
      BY <1>3, <3>1
  <2> QED
    BY <1>1, <2>1, <2>2, <2>3, <2>4, <2>5
<1> QED
  BY <1>2, <1>5 DEF InOrder, new

LEMMA RemoveInOrder ==
    ASSUME NEW S, NEW s \in Seq(S), InOrder(s), NEW i \in 1 .. Len(s)
    PROVE  RemoveAt(s, i) \in Seq(S) /\ InOrder(RemoveAt(s, i))
<1> DEFINE new == RemoveAt(s, i)
<1>1. /\ new \in Seq(S) /\ Len(new) = Len(s) - 1
      /\ \A j \in 1 .. Len(s) - 1 : new[j] = IF j < i THEN s[j] ELSE s[j + 1]
  BY RemovedType, RemovedElements
<1> HIDE DEF new
<1>2. \A j, k \in 1 .. Len(s) : j < k => s[j].time <= s[k].time
  BY DEF InOrder
<1>3. ASSUME NEW j \in 1 .. Len(s) - 1, NEW k \in 1 .. Len(s) - 1, j < k
      PROVE  new[j].time <= new[k].time
  <2> DEFINE u == IF j < i THEN j ELSE j + 1
             v == IF k < i THEN k ELSE k + 1
  <2>1. u \in 1 .. Len(s) /\ v \in 1 .. Len(s) /\ u < v
    BY <1>3
  <2>2. new[j] = s[u] /\ new[k] = s[v]
    BY <1>1
  <2> HIDE DEF u, v
  <2> QED
    BY <1>2, <2>1, <2>2
<1>4. DOMAIN new = 1 .. Len(s) - 1
  BY <1>1
<1>5. InOrder(new)
  BY <1>3, <1>4 DEF InOrder
<1> QED
  BY <1>1, <1>5 DEF new

LEMMA ReplaceInOrder ==
    ASSUME NEW S, NEW s \in Seq(S), InOrder(s), NEW i \in 1 .. Len(s),
           NEW x \in S, x.time = s[i].time
    PROVE  [s EXCEPT ![i] = x] \in Seq(S) /\ InOrder([s EXCEPT ![i] = x])
BY ReplacedType DEF InOrder

\* Where no other thing has its time, there is one place for it.
ThePlace(s, t) == CHOOSE n \in Places(s, t) : TRUE

LEMMA OnePlace ==
    ASSUME NEW S, \A y \in S : y.time \in Nat,
           NEW s \in Seq(S), NEW t \in Nat, ~Occupied(s, t), NEW n \in Places(s, t)
    PROVE  n = ThePlace(s, t)
<1>1. ASSUME NEW j \in Places(s, t), NEW k \in Places(s, t), j < k
      PROVE  FALSE
  <2>1. j \in 1 .. Len(s) /\ s[j].time <= t /\ t <= s[j].time
    BY <1>1 DEF Places
  <2>2. s[j].time \in Nat
    BY <2>1
  <2>3. s[j].time = t
    BY <2>1, <2>2
  <2> QED
    BY <2>1, <2>3 DEF Occupied
<1>2. \A j, k \in Places(s, t) : j = k
  <2>1. \A j \in Places(s, t) : j \in Nat
    BY DEF Places
  <2> QED
    BY <1>1, <2>1
<1>3. ThePlace(s, t) \in Places(s, t)
  BY Zenon DEF ThePlace
<1> QED
  BY <1>2, <1>3

-----------------------------------------------------------------------------
(***************************************************************************)
(* The projects there are: with items and points in order.                 *)
(***************************************************************************)
GoodItems  == {s \in Seq(Item) : InOrder(s)}
GoodPoints == {s \in Seq(Point) : InOrder(s)}

GoodTrack == [id : Nat, touched : BOOLEAN, items : GoodItems, points : GoodPoints,
              fx : Seq(BOOLEAN), sends : Seq(Nat)]

GoodProject == [tracks : Seq(GoodTrack), markers : SUBSET Marker]

LEMMA GoodIsOrdered ==
    ASSUME NEW p
    PROVE  p \in GoodProject <=> p \in Project /\ Ordered(p)
<1>1. \A track : track \in GoodTrack <=> /\ track \in Track
                                         /\ InOrder(track.items) /\ InOrder(track.points)
  BY DEF GoodTrack, Track, GoodItems, GoodPoints
<1>2. ASSUME p \in GoodProject PROVE p \in Project /\ Ordered(p)
  <2>1. /\ p.tracks \in Seq(GoodTrack) /\ p.markers \subseteq Marker
        /\ p = [tracks |-> p.tracks, markers |-> p.markers]
    BY <1>2 DEF GoodProject
  <2>2. \A i \in DOMAIN p.tracks : p.tracks[i] \in GoodTrack
    BY <2>1
  <2>3. p.tracks \in Seq(Track)
    BY <1>1, <2>1, <2>2
  <2> QED
    BY <1>1, <2>1, <2>2, <2>3 DEF Project, Ordered
<1>3. ASSUME p \in Project, Ordered(p) PROVE p \in GoodProject
  <2>1. /\ p.tracks \in Seq(Track) /\ p.markers \subseteq Marker
        /\ p = [tracks |-> p.tracks, markers |-> p.markers]
    BY <1>3 DEF Project
  <2>2. \A i \in DOMAIN p.tracks : p.tracks[i] \in GoodTrack
    BY <1>1, <1>3, <2>1 DEF Ordered
  <2>3. p.tracks \in Seq(GoodTrack)
    BY <2>1, <2>2
  <2> QED
    BY <2>1, <2>3 DEF GoodProject
<1> QED
  BY <1>2, <1>3

LEMMA TrackFields ==
    ASSUME NEW p \in GoodProject, NEW i \in 1 .. Len(p.tracks)
    PROVE  /\ p.tracks[i] \in GoodTrack /\ p.tracks[i].id \in Nat
           /\ p.tracks[i].items \in Seq(Item) /\ InOrder(p.tracks[i].items)
           /\ p.tracks[i].points \in Seq(Point) /\ InOrder(p.tracks[i].points)
           /\ p.tracks[i].fx \in Seq(BOOLEAN) /\ p.tracks[i].sends \in Seq(Nat)
<1>1. p.tracks \in Seq(GoodTrack)
  BY DEF GoodProject
<1>2. p.tracks[i] \in GoodTrack
  BY <1>1
<1> QED
  BY <1>2 DEF GoodTrack, GoodItems, GoodPoints

LEMMA TracksType ==
    ASSUME NEW p \in GoodProject
    PROVE  /\ p.tracks \in Seq(GoodTrack) /\ Len(p.tracks) \in Nat
           /\ \A tracks \in Seq(GoodTrack) : [p EXCEPT !.tracks = tracks] \in GoodProject
BY DEF GoodProject

LEMMA TimeType ==
    /\ Times \subseteq Nat
    /\ \A x \in Item : x.time \in Nat
    /\ \A x \in Point : x.time \in Nat
BY StartAssumption DEF Item, Point

\* One track is changed.
LEMMA TrackUpdate ==
    ASSUME NEW p \in GoodProject, NEW i \in 1 .. Len(p.tracks), NEW track \in GoodTrack
    PROVE  [p EXCEPT !.tracks[i] = track] \in GoodProject
<1>1. p.tracks \in Seq(GoodTrack)
  BY DEF GoodProject
<1>2. [p.tracks EXCEPT ![i] = track] \in Seq(GoodTrack)
  BY <1>1, ReplacedType
<1> QED
  BY <1>2 DEF GoodProject

LEMMA TrackUpdates ==
    ASSUME NEW p \in GoodProject, NEW i \in 1 .. Len(p.tracks)
    PROVE  /\ Touched(p, i) \in GoodProject
           /\ \A items \in Seq(Item) :
                 InOrder(items) => WithItems(p, i, items) \in GoodProject
           /\ \A points \in Seq(Point) :
                 InOrder(points) => [p EXCEPT !.tracks[i].points = points] \in GoodProject
           /\ \A fx \in Seq(BOOLEAN) : [p EXCEPT !.tracks[i].fx = fx] \in GoodProject
           /\ \A sends \in Seq(Nat) : [p EXCEPT !.tracks[i].sends = sends] \in GoodProject
<1> DEFINE track == p.tracks[i]
<1>1. track \in GoodTrack
  BY TrackFields
<1> HIDE DEF track
<1>2. /\ [track EXCEPT !.touched = TRUE] \in GoodTrack
      /\ \A items \in GoodItems : [track EXCEPT !.items = items] \in GoodTrack
      /\ \A points \in GoodPoints : [track EXCEPT !.points = points] \in GoodTrack
      /\ \A fx \in Seq(BOOLEAN) : [track EXCEPT !.fx = fx] \in GoodTrack
      /\ \A sends \in Seq(Nat) : [track EXCEPT !.sends = sends] \in GoodTrack
  BY <1>1 DEF GoodTrack
<1>3. Touched(p, i) \in GoodProject
  <2> DEFINE new == [track EXCEPT !.touched = TRUE]
  <2>1. Touched(p, i) = [p EXCEPT !.tracks[i] = new]
    BY DEF Touched, track
  <2>2. new \in GoodTrack
    BY <1>2
  <2> HIDE DEF new
  <2> QED
    BY <2>1, <2>2, TrackUpdate
<1>4. ASSUME NEW items \in Seq(Item), InOrder(items)
      PROVE  WithItems(p, i, items) \in GoodProject
  <2>1. WithItems(p, i, items) = [p EXCEPT !.tracks[i] = [track EXCEPT !.items = items]]
    BY DEF WithItems, track
  <2>2. items \in GoodItems
    BY <1>4 DEF GoodItems
  <2> QED
    BY <1>2, <2>1, <2>2, TrackUpdate
<1>5. ASSUME NEW points \in Seq(Point), InOrder(points)
      PROVE  [p EXCEPT !.tracks[i].points = points] \in GoodProject
  <2>1. [p EXCEPT !.tracks[i].points = points]
          = [p EXCEPT !.tracks[i] = [track EXCEPT !.points = points]]
    BY DEF track
  <2>2. points \in GoodPoints
    BY <1>5 DEF GoodPoints
  <2> QED
    BY <1>2, <2>1, <2>2, TrackUpdate
<1>6. ASSUME NEW fx \in Seq(BOOLEAN)
      PROVE  [p EXCEPT !.tracks[i].fx = fx] \in GoodProject
  <2>1. [p EXCEPT !.tracks[i].fx = fx] = [p EXCEPT !.tracks[i] = [track EXCEPT !.fx = fx]]
    BY DEF track
  <2> QED
    BY <1>2, <2>1, TrackUpdate
<1>7. ASSUME NEW sends \in Seq(Nat)
      PROVE  [p EXCEPT !.tracks[i].sends = sends] \in GoodProject
  <2>1. [p EXCEPT !.tracks[i].sends = sends]
          = [p EXCEPT !.tracks[i] = [track EXCEPT !.sends = sends]]
    BY DEF track
  <2> QED
    BY <1>2, <2>1, TrackUpdate
<1> QED
  BY <1>3, <1>4, <1>5, <1>6, <1>7

LEMMA NewTrackType ==
    ASSUME NEW id \in Nat
    PROVE  NewTrack(id) \in GoodTrack
<1>1. /\ <<>> \in Seq(BOOLEAN) /\ <<>> \in Seq(Nat) /\ <<>> \in Seq(Item)
      /\ <<>> \in Seq(Point) /\ InOrder(<<>>)
  BY DEF InOrder
<1> QED
  BY <1>1 DEF NewTrack, GoodTrack, GoodItems, GoodPoints

LEMMA FreshIdType ==
    ASSUME NEW p \in Seq(GoodTrack)
    PROVE  FreshId(p) \in Nat
<1> DEFINE ids == {p[i].id : i \in 1 .. Len(p)}
           f   == [i \in 1 .. Len(p) |-> p[i].id]
<1>1. \A i \in 1 .. Len(p) : p[i].id \in Nat
  <2>1. \A track \in GoodTrack : track.id \in Nat
    BY DEF GoodTrack
  <2>2. \A i \in 1 .. Len(p) : p[i] \in GoodTrack
    OBVIOUS
  <2> QED
    BY <2>1, <2>2
<1>2. f \in Surjection(1 .. Len(p), ids)
  BY DEF Surjection
<1>3. IsFiniteSet(1 .. Len(p))
  BY FS_Interval
<1>4. IsFiniteSet(ids)
  BY <1>2, <1>3, FS_Surjection
<1>5. ids \cup {0} \in SUBSET Nat /\ IsFiniteSet(ids \cup {0})
  <2>1. ids \cup {0} \in SUBSET Nat
    BY <1>1
  <2>2. IsFiniteSet(ids \cup {0})
    BY <1>4, FS_AddElement, Zenon
  <2> QED
    BY <2>1, <2>2
<1>6. \E m \in ids \cup {0} : \A y \in ids \cup {0} : m >= y
  BY <1>5, FiniteHasMax
<1>7. Max(ids \cup {0}) \in ids \cup {0}
  BY <1>6, Zenon DEF Max
<1>8. Max(ids \cup {0}) \in Nat
  BY <1>5, <1>7
<1>9. FreshId(p) = Max(ids \cup {0}) + 1
  BY DEF FreshId
<1> HIDE DEF ids
<1> QED
  BY <1>8, <1>9

LEMMA WithTrackType ==
    ASSUME NEW p \in GoodProject, NEW i \in 1 .. Len(p.tracks) + 1
    PROVE  /\ WithTrack(p, i) \in GoodProject
           /\ Len(WithTrack(p, i).tracks) = Len(p.tracks) + 1
<1> DEFINE track == NewTrack(FreshId(p.tracks))
           new   == InsertAt(p.tracks, i, track)
<1>1. p.tracks \in Seq(GoodTrack)
  BY DEF GoodProject
<1>2. track \in GoodTrack
  BY <1>1, FreshIdType, NewTrackType
<1>3. WithTrack(p, i) = [p EXCEPT !.tracks = new]
  BY DEF WithTrack
<1> HIDE DEF track
<1>4. new \in Seq(GoodTrack) /\ Len(new) = Len(p.tracks) + 1
  BY <1>1, <1>2, InsertedType
<1> HIDE DEF new
<1>5. WithTrack(p, i).tracks = new
  BY <1>3 DEF GoodProject
<1> QED
  BY <1>3, <1>4, <1>5, TracksType

LEMMA DeleteTrackType ==
    ASSUME NEW tracks \in Seq(GoodTrack), NEW i \in 1 .. Len(tracks)
    PROVE  DeleteTrack(tracks, i) \in Seq(GoodTrack)
<1> DEFINE rest == RemoveAt(tracks, i)
<1>1. rest \in Seq(GoodTrack) /\ Len(rest) = Len(tracks) - 1
  BY RemovedType
<1>2. Len(tracks) - 1 \in Nat /\ 1 .. Len(tracks) - 1 = DOMAIN rest
  BY <1>1
<1>3. DeleteTrack(tracks, i) =
        [t \in 1 .. Len(tracks) - 1 |->
            [rest[t] EXCEPT !.sends = SendsWithout(rest[t].sends, tracks[i].id)]]
  BY DEF DeleteTrack
<1> HIDE DEF rest
<1>4. ASSUME NEW t \in 1 .. Len(tracks) - 1
      PROVE  [rest[t] EXCEPT !.sends = SendsWithout(rest[t].sends, tracks[i].id)] \in GoodTrack
  <2>0. rest[t] \in GoodTrack
    BY <1>1, <1>2
  <2>1. rest[t] \in GoodTrack /\ rest[t].sends \in Seq(Nat)
    BY <2>0 DEF GoodTrack
  <2>2. SendsWithout(rest[t].sends, tracks[i].id) \in Seq(Nat)
    BY <2>1, SendsWithoutType
  <2> QED
    BY <2>1, <2>2 DEF GoodTrack
<1> QED
  BY <1>2, <1>3, <1>4

-----------------------------------------------------------------------------
(***************************************************************************)
(* What a client reads from a reply of success, by the request and what    *)
(* the reply tells, where it is not ambiguous: the project there is now.   *)
(***************************************************************************)
Sized(p, i, k)      == [p EXCEPT !.tracks[i].items[k].sized = TRUE]
WithoutTrack(p, i)  == [p EXCEPT !.tracks = DeleteTrack(@, i)]
WithoutFx(p, i, k)  == [p EXCEPT !.tracks[i].fx = RemoveAt(@, k)]
WithSend(p, i, j)   == [p EXCEPT !.tracks[i].sends = Append(@, p.tracks[j].id)]
WithoutSend(p, i, k) == [p EXCEPT !.tracks[i].sends = RemoveAt(@, k)]
WithPoints(p, i, points) == [p EXCEPT !.tracks[i].points = points]
WithoutMarker(p, n, region) ==
    [p EXCEPT !.markers = @ \ {[number |-> n, region |-> region]}]

WithItem(p, i, t) ==
    LET items == p.tracks[i].items
    IN  WithItems(p, i, InsertAt(items, ThePlace(items, t), NewItem(t)))

WithMoved(p, i, k, t) ==
    WithItems(p, i, InsertAt(Others(p, i, k), ThePlace(Others(p, i, k), t),
                             [p.tracks[i].items[k] EXCEPT !.time = t]))

WithPoint(p, i, t) ==
    LET points == p.tracks[i].points
    IN  WithPoints(p, i, InsertAt(points, ThePlace(points, t), NewPoint(t)))

WithNamed(p, i, named) ==
    IF i > Len(p.tracks) + 1 THEN WithTrack(p, Len(p.tracks) + 1)
    ELSE IF named THEN Touched(WithTrack(p, i), i) ELSE WithTrack(p, i)

WithNotes(p, i, k, told) == IF told = 0 THEN p ELSE Inserting(p, i, k, Notes)[2]

WithNotesAt(p, i, t, told) ==
    WithNotes(WithItem(p, i, t), i, ThePlace(p.tracks[i].items, t), told)

Reading(p, request, told) ==
    CASE request[1] = "track.add"           -> WithNamed(p, request[2], request[3])
      [] request[1] = "track.remove"        -> WithoutTrack(p, request[2])
      [] request[1] = "track.set_property"  -> Touched(p, request[2])
      [] request[1] = "item.move"           -> WithMoved(p, request[2], request[3], request[4])
      [] request[1] = "item.resize"         -> Sized(p, request[2], request[3])
      [] request[1] = "item.split"          -> WithItem(p, request[2], request[4])
      [] request[1] = "item.delete"         ->
            WithItems(p, request[2], Others(p, request[2], request[3]))
      [] request[1] = "fx.add"              -> WithFx(p, request[2], told)
      [] request[1] = "fx.remove"           -> WithoutFx(p, request[2], request[3])
      [] request[1] = "fx.set_parameter"    -> TouchFx(p, request[2], request[3])
      [] request[1] = "fx.enable"           ->
            IF request[3] <= Len(p.tracks[request[2]].fx)
              THEN TouchFx(p, request[2], request[3]) ELSE p
      [] request[1] = "routing.add_send"    -> WithSend(p, request[2], request[3])
      [] request[1] = "routing.remove_send" -> WithoutSend(p, request[2], request[3])
      [] request[1] = "envelope.add_point"  -> WithPoint(p, request[2], request[3])
      [] request[1] = "midi.insert_notes"   ->
            IF request[3] = 0 THEN WithNotesAt(p, request[2], request[4], told)
                              ELSE WithNotes(p, request[2], request[3], told)
      [] request[1] = "marker.add"          -> WithMarker(p, request[2], request[3])
      [] request[1] = "marker.remove"       -> WithoutMarker(p, request[2], request[3])

LEMMA ReadingOfTracks ==
    \A p, i, told :
        /\ \A named : Reading(p, <<"track.add", i, named>>, told) = WithNamed(p, i, named)
        /\ Reading(p, <<"track.remove", i>>, told) = WithoutTrack(p, i)
        /\ Reading(p, <<"track.set_property", i>>, told) = Touched(p, i)
BY DEF Reading

LEMMA ReadingOfItems ==
    \A p, i, k, t, told :
        /\ Reading(p, <<"item.move", i, k, t>>, told) = WithMoved(p, i, k, t)
        /\ Reading(p, <<"item.resize", i, k>>, told) = Sized(p, i, k)
        /\ Reading(p, <<"item.split", i, k, t>>, told) = WithItem(p, i, t)
        /\ Reading(p, <<"item.delete", i, k>>, told) = WithItems(p, i, Others(p, i, k))
BY DEF Reading

LEMMA ReadingOfFx ==
    \A p, i, k, told :
        /\ Reading(p, <<"fx.add", i, FALSE>>, told) = WithFx(p, i, told)
        /\ Reading(p, <<"fx.remove", i, k>>, told) = WithoutFx(p, i, k)
        /\ Reading(p, <<"fx.set_parameter", i, k>>, told) = TouchFx(p, i, k)
        /\ Reading(p, <<"fx.enable", i, k>>, told)
              = IF k <= Len(p.tracks[i].fx) THEN TouchFx(p, i, k) ELSE p
BY DEF Reading

LEMMA ReadingOfRouting ==
    \A p, i, k, told :
        /\ Reading(p, <<"routing.add_send", i, k>>, told) = WithSend(p, i, k)
        /\ Reading(p, <<"routing.remove_send", i, k>>, told) = WithoutSend(p, i, k)
BY DEF Reading

LEMMA ReadingOfEnvelopeAndMidi ==
    \A p, i, k, t, told :
        /\ Reading(p, <<"envelope.add_point", i, t>>, told) = WithPoint(p, i, t)
        /\ k # 0 => Reading(p, <<"midi.insert_notes", i, k>>, told) = WithNotes(p, i, k, told)
        /\ Reading(p, <<"midi.insert_notes", i, 0, t>>, told) = WithNotesAt(p, i, t, told)
BY DEF Reading

LEMMA ReadingOfMarkers ==
    \A p, n, region, told :
        /\ Reading(p, <<"marker.add", n, region>>, told) = WithMarker(p, n, region)
        /\ Reading(p, <<"marker.remove", n, region>>, told) = WithoutMarker(p, n, region)
BY DEF Reading

\* When success does not tell what the project is now.
Ambiguous(p, request, told) ==
    \/ MakesTie(p, request)
    \/ request[1] = "midi.insert_notes" /\ told \notin {0, Len(Notes)}
    \/ request[1] = "marker.add" /\ request[2] \notin FreeNumbers(p, request[3])
    \/ request[1] = "fx.add" /\ request[3]
    \/ request[1] = "track.add" /\ request[2] = 0

LEMMA UnclearIsAmbiguous ==
    \A p, plan : plan.success /\ ~plan.fails
                    => (Unclear(p, plan) <=> Ambiguous(p, plan.request, plan.told))
BY DEF Unclear, Ambiguous, Method

LEMMA FinalIs ==
    \A p, plan, q, r : /\ plan.projects = <<>> => Final(p, plan) = p
                       /\ plan.projects = <<q>> => Final(p, plan) = q
                       /\ plan.projects = <<r, q>> => Final(p, plan) = q
BY DEF Final, Last

LEMMA ShortSequences ==
    ASSUME NEW S
    PROVE  /\ <<>> \in Seq(S)
           /\ \A a \in S : <<a>> \in Seq(S)
           /\ \A a, b \in S : <<a, b>> \in Seq(S)
OBVIOUS

(***************************************************************************)
(* What is true of the plans for the project p.  They come to projects.    *)
(* One that has changed anything has reached its block, and has succeeded  *)
(* or is of a method that may fail half-way.  One that succeeds on nothing *)
(* is of a known method.  And the client reads the reply rightly.          *)
(***************************************************************************)
Blind == {"fx.enable", "track.add", "envelope.add_point"}

Proper(p, plan) ==
    /\ plan.projects \in Seq(GoodProject)
    /\ plan.projects # <<>> =>
          plan.block /\ (plan.success \/ (plan.fails /\ Method(plan) \in PartialMethods))
    /\ ~(plan.fails /\ plan.success)
    /\ plan.success /\ ~plan.exists => Method(plan) \in Blind
    /\ plan.success /\ ~Unclear(p, plan)
          => Final(p, plan) = Reading(p, plan.request, plan.told)

LEMMA NothingIsProper ==
    ASSUME NEW p, NEW request
    PROVE  /\ Proper(p, Throws(request, <<>>))
           /\ Proper(p, Refused(request))
           /\ Proper(p, Declines(request))
           /\ Proper(p, OnNothing(Declines(request)))
           /\ Proper(p, Reported(Declines(request)))
<1>1. <<>> \in Seq(GoodProject)
  BY ShortSequences
<1> QED
  BY <1>1 DEF Proper, Throws, Refused, Declines, OnNothing, Succeeds, Reported

LEMMA PartialIsProper ==
    ASSUME NEW p, NEW request, request[1] \in PartialMethods, NEW projects \in Seq(GoodProject)
    PROVE  Proper(p, Throws(request, projects))
BY DEF Proper, Throws, Method

LEMMA SuccessIsProper ==
    ASSUME NEW p, NEW plan, plan.projects \in Seq(GoodProject),
           plan.block, plan.success, ~plan.fails, plan.exists \/ Method(plan) \in Blind,
           ~Ambiguous(p, plan.request, plan.told)
              => Final(p, plan) = Reading(p, plan.request, plan.told)
    PROVE  Proper(p, plan)
<1>1. ~Unclear(p, plan) => ~Ambiguous(p, plan.request, plan.told)
  BY UnclearIsAmbiguous
<1> QED
  BY <1>1 DEF Proper

LEMMA PlainSuccessIsProper ==
    ASSUME NEW p, NEW request, NEW q \in GoodProject,
           ~Ambiguous(p, request, 0) => q = Reading(p, request, 0)
    PROVE  Proper(p, Succeeds(request, <<q>>))
<1> DEFINE plan == Succeeds(request, <<q>>)
<1>1. /\ plan.request = request /\ plan.projects = <<q>> /\ plan.told = 0
      /\ plan.block /\ ~plan.fails /\ plan.success /\ plan.exists
  BY DEF Succeeds
<1> HIDE DEF plan
<1>2. Final(p, plan) = q
  BY <1>1, FinalIs
<1>3. <<q>> \in Seq(GoodProject)
  BY ShortSequences
<1>4. Proper(p, plan)
  BY <1>1, <1>2, <1>3, SuccessIsProper
<1> QED
  BY <1>4 DEF plan

\* The reply tells an index, of where it is or of somewhere else.
LEMMA ToldSuccessIsProper ==
    ASSUME NEW p, NEW request, NEW q \in GoodProject, NEW index, NEW place,
           index = place \/ request[1] \in Blind,
           ~Ambiguous(p, request, index) => q = Reading(p, request, index)
    PROVE  Proper(p, Tells(Succeeds(request, <<q>>), index, place))
<1> DEFINE plan == Tells(Succeeds(request, <<q>>), index, place)
<1>1. /\ plan.request = request /\ plan.projects = <<q>> /\ plan.told = index
      /\ plan.block /\ ~plan.fails /\ plan.success /\ plan.exists = (index = place)
  BY DEF Succeeds, Tells
<1> HIDE DEF plan
<1>2. Final(p, plan) = q
  BY <1>1, FinalIs
<1>3. <<q>> \in Seq(GoodProject)
  BY ShortSequences
<1>4. plan.exists \/ Method(plan) \in Blind
  BY <1>1 DEF Method
<1>5. Proper(p, plan)
  BY <1>1, <1>2, <1>3, <1>4, SuccessIsProper
<1> QED
  BY <1>5 DEF plan

-----------------------------------------------------------------------------
(***************************************************************************)
(* The plans of each command are proper.                                   *)
(***************************************************************************)
LEMMA TrackAddIsProper ==
    ASSUME NEW p \in GoodProject, NEW i \in 1 .. Len(p.tracks) + 1
    PROVE  \A plan \in TrackAdd(p, i) : Proper(p, plan)
<1> DEFINE new   == WithTrack(p, i)
           named == Touched(new, i)
           plain == Succeeds(<<"track.add", i, FALSE>>, <<new>>)
           both  == Succeeds(<<"track.add", i, TRUE>>, <<new, named>>)
<1>1. TrackAdd(p, i) = {Refused(<<"track.add", i, TRUE>>), plain, both}
  BY DEF TrackAdd, NameChecked
<1>2. new \in GoodProject /\ named \in GoodProject
  <2>1. new \in GoodProject /\ i \in 1 .. Len(new.tracks)
    BY WithTrackType, TracksType
  <2> QED
    BY <2>1, TrackUpdates
<1>3. ~(i > Len(p.tracks) + 1)
  BY TracksType
<1>4. \A told : /\ Reading(p, <<"track.add", i, FALSE>>, told) = new
                /\ Reading(p, <<"track.add", i, TRUE>>, told) = named
  BY <1>3, ReadingOfTracks DEF WithNamed
<1> HIDE DEF new, named
<1>5. Proper(p, plain)
  BY <1>2, <1>4, PlainSuccessIsProper
<1>6. Proper(p, both)
  <2>1. /\ both.request = <<"track.add", i, TRUE>> /\ both.projects = <<new, named>>
        /\ both.block /\ ~both.fails /\ both.success /\ both.exists
    BY DEF Succeeds
  <2> HIDE DEF both
  <2>2. Final(p, both) = named /\ both.projects \in Seq(GoodProject)
    BY <1>2, <2>1, FinalIs, ShortSequences
  <2> QED
    BY <1>4, <2>1, <2>2, SuccessIsProper
<1> HIDE DEF plain, both
<1> QED
  BY <1>1, <1>5, <1>6, NothingIsProper

LEMMA TrackAddOutsideIsProper ==
    ASSUME NEW p \in GoodProject
    PROVE  \A plan \in TrackAddOutside(p) : Proper(p, plan)
<1> DEFINE end == Len(p.tracks) + 1
           Outside(i, named) == OnNothing(Succeeds(<<"track.add", i, named>>, <<>>))
           Lands(i, named, n) == [Outside(i, named) EXCEPT !.projects = <<WithTrack(p, n)>>]
<1>1. end \in Nat /\ end \in 1 .. end
  BY TracksType
<1>2. ASSUME NEW named \in BOOLEAN, NEW i, NEW n \in 1 .. end, i = 0 \/ (i = end + 1 /\ n = end)
      PROVE  Proper(p, Lands(i, named, n))
  <2> DEFINE plan == Lands(i, named, n)
             q    == WithTrack(p, n)
  <2>1. /\ plan.request = <<"track.add", i, named>> /\ plan.projects = <<q>>
        /\ plan.block /\ ~plan.fails /\ plan.success
    BY DEF OnNothing, Succeeds
  <2>2. q \in GoodProject
    BY WithTrackType
  <2>3. i # 0 => Reading(p, <<"track.add", i, named>>, plan.told) = q
    BY <1>1, <1>2, ReadingOfTracks DEF WithNamed
  <2> HIDE DEF plan, q
  <2>4. Final(p, plan) = q /\ plan.projects \in Seq(GoodProject)
    BY <2>1, <2>2, FinalIs, ShortSequences
  <2>5. Method(plan) \in Blind
    BY <2>1 DEF Method, Blind
  <2>6. i = 0 => Ambiguous(p, plan.request, plan.told)
    BY <2>1 DEF Ambiguous
  <2>7. Proper(p, plan)
    BY <2>1, <2>3, <2>4, <2>5, <2>6, SuccessIsProper
  <2> QED
    BY <2>7 DEF plan
<1>3. ASSUME NEW named \in BOOLEAN PROVE Proper(p, Outside(0, named))
  <2> DEFINE plan == Outside(0, named)
  <2>1. /\ plan.request = <<"track.add", 0, named>> /\ plan.projects = <<>>
        /\ plan.block /\ ~plan.fails /\ plan.success
    BY DEF OnNothing, Succeeds
  <2> HIDE DEF plan
  <2>2. plan.projects \in Seq(GoodProject) /\ Method(plan) \in Blind
    BY <2>1, ShortSequences DEF Method, Blind
  <2>3. Ambiguous(p, plan.request, plan.told)
    BY <2>1 DEF Ambiguous
  <2>4. Proper(p, plan)
    BY <2>1, <2>2, <2>3, SuccessIsProper
  <2> QED
    BY <2>4 DEF plan
<1>4. TrackAddOutside(p) = {Lands(end + 1, named, end) : named \in BOOLEAN}
                           \cup {Lands(0, named, n) : named \in BOOLEAN, n \in 1 .. end}
                           \cup {Outside(0, named) : named \in BOOLEAN}
  BY DEF TrackAddOutside
<1> HIDE DEF end, Outside, Lands
<1> QED
  BY <1>1, <1>2, <1>3, <1>4

LEMMA TrackCommandsAreProper ==
    ASSUME NEW p \in GoodProject, NEW i \in 1 .. Len(p.tracks)
    PROVE  /\ \A plan \in TrackRemove(p, i) : Proper(p, plan)
           /\ \A plan \in TrackSetProperty(p, i) : Proper(p, plan)
<1>1. \A plan \in TrackRemove(p, i) : Proper(p, plan)
  <2> DEFINE tracks == DeleteTrack(p.tracks, i)
             q == [p EXCEPT !.tracks = tracks]
  <2>1. TrackRemove(p, i) = {Succeeds(<<"track.remove", i>>, <<q>>)}
    BY DEF TrackRemove
  <2>2. tracks \in Seq(GoodTrack)
    BY TracksType, DeleteTrackType
  <2>3. \A told : Reading(p, <<"track.remove", i>>, told) = q
    BY ReadingOfTracks DEF WithoutTrack
  <2> HIDE DEF tracks
  <2>4. q \in GoodProject
    BY <2>2, TracksType
  <2> HIDE DEF q
  <2> QED
    BY <2>1, <2>3, <2>4, PlainSuccessIsProper
<1>2. \A plan \in TrackSetProperty(p, i) : Proper(p, plan)
  <2> DEFINE q == Touched(p, i)
  <2>1. TrackSetProperty(p, i) = {Throws(<<"track.set_property", i>>, <<>>),
                                  Succeeds(<<"track.set_property", i>>, <<q>>)}
    BY DEF TrackSetProperty
  <2>2. q \in GoodProject /\ \A told : Reading(p, <<"track.set_property", i>>, told) = q
    BY TrackUpdates, ReadingOfTracks
  <2> HIDE DEF q
  <2> QED
    BY <2>1, <2>2, PlainSuccessIsProper, NothingIsProper
<1> QED
  BY <1>1, <1>2

-----------------------------------------------------------------------------
LEMMA NewItemType ==
    ASSUME NEW t \in Times
    PROVE  NewItem(t) \in Item /\ NewItem(t).time = t
<1>1. <<>> \in Seq(Range(Notes))
  OBVIOUS
<1> QED
  BY <1>1 DEF NewItem, Item

LEMMA ItemFields ==
    \A item \in Item :
        /\ \A t \in Times : [item EXCEPT !.time = t] \in Item /\ [item EXCEPT !.time = t].time = t
        /\ [item EXCEPT !.sized = TRUE] \in Item /\ [item EXCEPT !.sized = TRUE].time = item.time
        /\ \A notes \in Seq(Range(Notes)) : /\ [item EXCEPT !.notes = notes] \in Item
                                            /\ [item EXCEPT !.notes = notes].time = item.time
        /\ item.notes \in Seq(Range(Notes))
BY DEF Item

\* An item that is put among those of a track, or such ones with one taken away.
LEMMA PutItem ==
    ASSUME NEW p \in GoodProject, NEW i \in 1 .. Len(p.tracks),
           NEW items \in Seq(Item), InOrder(items), NEW item \in Item, NEW t \in Times,
           item.time = t, NEW n \in Places(items, t)
    PROVE  /\ WithItems(p, i, InsertAt(items, n, item)) \in GoodProject
           /\ ~Occupied(items, t) => n = ThePlace(items, t)
<1>1. InsertAt(items, n, item) \in Seq(Item) /\ InOrder(InsertAt(items, n, item))
  BY PutInOrder, TimeType
<1>2. t \in Nat
  BY TimeType
<1>3. ~Occupied(items, t) => n = ThePlace(items, t)
  BY <1>2, OnePlace, TimeType
<1> QED
  BY <1>1, <1>3, TrackUpdates

LEMMA ItemMoveIsProper ==
    ASSUME NEW p \in GoodProject, NEW i \in 1 .. Len(p.tracks),
           NEW k \in 1 .. Len(p.tracks[i].items), NEW t \in Times
    PROVE  \A plan \in ItemMove(p, i, k, t) : Proper(p, plan)
<1> DEFINE request == <<"item.move", i, k, t>>
           others  == Others(p, i, k)
           moved   == [p.tracks[i].items[k] EXCEPT !.time = t]
           Q(n)    == WithItems(p, i, InsertAt(others, n, moved))
<1>1. others \in Seq(Item) /\ InOrder(others)
  BY TrackFields, RemoveInOrder DEF Others
<1>2. moved \in Item /\ moved.time = t
  <2>1. p.tracks[i].items[k] \in Item
    BY TrackFields
  <2> QED
    BY <2>1, ItemFields
<1>3. \A plan \in ItemMove(p, i, k, t) :
         \E n \in Places(others, t) : plan = Succeeds(request, <<Q(n)>>)
  BY <1>2 DEF ItemMove, Put
<1>4. ~Ambiguous(p, request, 0) => ~Occupied(others, t)
  BY DEF Ambiguous, MakesTie, Others
<1>5. Reading(p, request, 0) = Q(ThePlace(others, t))
  BY ReadingOfItems DEF WithMoved
<1> HIDE DEF request, others, moved
<1>6. ASSUME NEW n \in Places(others, t) PROVE Proper(p, Succeeds(request, <<Q(n)>>))
  <2>1. Q(n) \in GoodProject /\ (~Occupied(others, t) => n = ThePlace(others, t))
    BY <1>1, <1>2, PutItem
  <2>2. ~Ambiguous(p, request, 0) => Q(n) = Reading(p, request, 0)
    BY <1>4, <1>5, <2>1
  <2> HIDE DEF Q
  <2> QED
    BY <2>1, <2>2, PlainSuccessIsProper
<1> HIDE DEF Q
<1> QED
  BY <1>3, <1>6

LEMMA ItemSplitIsProper ==
    ASSUME NEW p \in GoodProject, NEW i \in 1 .. Len(p.tracks),
           NEW k \in 1 .. Len(p.tracks[i].items), NEW t \in Times
    PROVE  \A plan \in ItemSplit(p, i, k, t) : Proper(p, plan)
<1> DEFINE request == <<"item.split", i, k, t>>
           items   == p.tracks[i].items
           right   == NewItem(t)
           Q(n)    == WithItems(p, i, InsertAt(items, n, right))
<1>1. items \in Seq(Item) /\ InOrder(items)
  BY TrackFields
<1>2. right \in Item /\ right.time = t
  BY NewItemType
<1>3. \A plan \in ItemSplit(p, i, k, t) :
         \/ plan = Declines(request)
         \/ \E n \in Places(items, t) : plan = Succeeds(request, <<Q(n)>>)
  BY <1>2 DEF ItemSplit, Put
<1>4. ~Ambiguous(p, request, 0) => ~Occupied(items, t)
  BY DEF Ambiguous, MakesTie
<1>5. Reading(p, request, 0) = Q(ThePlace(items, t))
  BY ReadingOfItems DEF WithItem
<1> HIDE DEF request, items, right
<1>6. ASSUME NEW n \in Places(items, t) PROVE Proper(p, Succeeds(request, <<Q(n)>>))
  <2>1. Q(n) \in GoodProject /\ (~Occupied(items, t) => n = ThePlace(items, t))
    BY <1>1, <1>2, PutItem
  <2>2. ~Ambiguous(p, request, 0) => Q(n) = Reading(p, request, 0)
    BY <1>4, <1>5, <2>1
  <2> HIDE DEF Q
  <2> QED
    BY <2>1, <2>2, PlainSuccessIsProper
<1> HIDE DEF Q
<1> QED
  BY <1>3, <1>6, NothingIsProper

LEMMA ItemCommandsAreProper ==
    ASSUME NEW p \in GoodProject, NEW i \in 1 .. Len(p.tracks),
           NEW k \in 1 .. Len(p.tracks[i].items)
    PROVE  /\ \A plan \in ItemResize(p, i, k) : Proper(p, plan)
           /\ \A plan \in ItemDelete(p, i, k) : Proper(p, plan)
<1> DEFINE items == p.tracks[i].items
<1>1. items \in Seq(Item) /\ InOrder(items) /\ items[k] \in Item
  BY TrackFields
<1>2. \A plan \in ItemResize(p, i, k) : Proper(p, plan)
  <2> DEFINE q       == [p EXCEPT !.tracks[i].items[k].sized = TRUE]
             sized   == [items[k] EXCEPT !.sized = TRUE]
             resized == [items EXCEPT ![k] = sized]
  <2>1. ItemResize(p, i, k) = {Succeeds(<<"item.resize", i, k>>, <<q>>)}
    BY DEF ItemResize
  <2>2. q = WithItems(p, i, resized)
    BY DEF WithItems
  <2>3. Reading(p, <<"item.resize", i, k>>, 0) = q
    <3>1. Reading(p, <<"item.resize", i, k>>, 0) = Sized(p, i, k)
      BY ReadingOfItems
    <3>2. Sized(p, i, k) = q
      BY DEF Sized
    <3> QED
      BY <3>1, <3>2
  <2>4. sized \in Item /\ sized.time = items[k].time
    BY <1>1, ItemFields
  <2> HIDE DEF q, items, sized
  <2>5. resized \in Seq(Item) /\ InOrder(resized)
    BY <1>1, <2>4, ReplaceInOrder DEF items
  <2> HIDE DEF resized
  <2>6. q \in GoodProject
    BY <2>2, <2>5, TrackUpdates
  <2> QED
    BY <2>1, <2>3, <2>6, PlainSuccessIsProper
<1>3. \A plan \in ItemDelete(p, i, k) : Proper(p, plan)
  <2> DEFINE q == WithItems(p, i, Others(p, i, k))
  <2>1. ItemDelete(p, i, k) = {Succeeds(<<"item.delete", i, k>>, <<q>>),
                               Declines(<<"item.delete", i, k>>)}
    BY DEF ItemDelete
  <2>2. Others(p, i, k) \in Seq(Item) /\ InOrder(Others(p, i, k))
    BY <1>1, RemoveInOrder DEF Others
  <2>3. q \in GoodProject /\ Reading(p, <<"item.delete", i, k>>, 0) = q
    BY <2>2, TrackUpdates, ReadingOfItems
  <2> HIDE DEF q
  <2> QED
    BY <2>1, <2>3, PlainSuccessIsProper, NothingIsProper
<1> QED
  BY <1>2, <1>3

-----------------------------------------------------------------------------
LEMMA FxUpdates ==
    ASSUME NEW p \in GoodProject, NEW i \in 1 .. Len(p.tracks)
    PROVE  /\ \A n \in 1 .. Len(p.tracks[i].fx) + 1 : WithFx(p, i, n) \in GoodProject
           /\ \A k \in 1 .. Len(p.tracks[i].fx) :
                 TouchFx(p, i, k) \in GoodProject /\ WithoutFx(p, i, k) \in GoodProject
<1> DEFINE fx == p.tracks[i].fx
<1>1. fx \in Seq(BOOLEAN)
  BY TrackFields
<1>2. ASSUME NEW n \in 1 .. Len(fx) + 1 PROVE WithFx(p, i, n) \in GoodProject
  <2> DEFINE longer == InsertAt(fx, n, FALSE)
  <2>1. WithFx(p, i, n) = [p EXCEPT !.tracks[i].fx = longer]
    BY DEF WithFx
  <2> HIDE DEF fx
  <2>2. longer \in Seq(BOOLEAN)
    BY <1>1, <1>2, InsertedType
  <2> HIDE DEF longer
  <2> QED
    BY <2>1, <2>2, TrackUpdates
<1>3. ASSUME NEW k \in 1 .. Len(fx) PROVE TouchFx(p, i, k) \in GoodProject
  <2> DEFINE touched == [fx EXCEPT ![k] = TRUE]
  <2>1. TouchFx(p, i, k) = [p EXCEPT !.tracks[i].fx = touched]
    BY DEF TouchFx
  <2> HIDE DEF fx
  <2>2. touched \in Seq(BOOLEAN)
    BY <1>1, <1>3, ReplacedType
  <2> HIDE DEF touched
  <2> QED
    BY <2>1, <2>2, TrackUpdates
<1>4. ASSUME NEW k \in 1 .. Len(fx)
      PROVE  WithoutFx(p, i, k) \in GoodProject
  <2> DEFINE shorter == RemoveAt(fx, k)
  <2>1. WithoutFx(p, i, k) = [p EXCEPT !.tracks[i].fx = shorter]
    BY DEF WithoutFx
  <2> HIDE DEF fx
  <2>2. shorter \in Seq(BOOLEAN)
    BY <1>1, <1>4, RemovedType
  <2> HIDE DEF shorter
  <2> QED
    BY <2>1, <2>2, TrackUpdates
<1> QED
  BY <1>2, <1>3, <1>4

LEMMA FxAddIsProper ==
    ASSUME NEW p \in GoodProject, NEW i \in 1 .. Len(p.tracks)
    PROVE  \A plan \in FxAdd(p, i) : Proper(p, plan)
<1> DEFINE request == <<"fx.add", i, FALSE>>
           end     == Len(p.tracks[i].fx) + 1
<1>1. FxAdd(p, i) = {Tells(Succeeds(request, <<WithFx(p, i, n)>>), n, n) : n \in 1 .. end}
                    \cup {Declines(request)}
  BY DEF FxAdd
<1>2. \A n \in 1 .. end : WithFx(p, i, n) \in GoodProject
  BY FxUpdates
<1>3. \A n : Reading(p, request, n) = WithFx(p, i, n)
  BY ReadingOfFx
<1> HIDE DEF request, end
<1>4. ASSUME NEW n \in 1 .. end
      PROVE  Proper(p, Tells(Succeeds(request, <<WithFx(p, i, n)>>), n, n))
  BY <1>2, <1>3, ToldSuccessIsProper
<1> QED
  BY <1>1, <1>4, NothingIsProper

LEMMA FxAddPositionedIsProper ==
    ASSUME NEW p \in GoodProject, NEW i \in 1 .. Len(p.tracks)
    PROVE  \A plan \in FxAddPositioned(p, i) : Proper(p, plan)
<1> DEFINE request  == <<"fx.add", i, TRUE>>
           fx       == Len(p.tracks[i].fx)
           Added(n) == Tells(Succeeds(request, <<WithFx(p, i, n)>>), n, n)
           Found(n) == Tells(Succeeds(request, <<>>), n, n)
<1>1. FxAddPositioned(p, i) = {Added(n) : n \in 1 .. fx + 1} \cup {Found(n) : n \in 1 .. fx}
                              \cup {Declines(request)}
  BY DEF FxAddPositioned
<1>2. \A n \in 1 .. fx + 1 : WithFx(p, i, n) \in GoodProject
  BY FxUpdates
<1>3. \A n : Ambiguous(p, request, n)
  BY DEF Ambiguous
<1> HIDE DEF request, fx
<1>4. ASSUME NEW n \in 1 .. fx + 1 PROVE Proper(p, Added(n))
  BY <1>2, <1>3, ToldSuccessIsProper
<1>5. ASSUME NEW n PROVE Proper(p, Found(n))
  <2> DEFINE plan == Found(n)
  <2>1. /\ plan.request = request /\ plan.projects = <<>>
        /\ plan.block /\ ~plan.fails /\ plan.success /\ plan.exists
    BY DEF Tells, Succeeds
  <2> HIDE DEF plan
  <2>2. plan.projects \in Seq(GoodProject)
    BY <2>1, ShortSequences
  <2>3. Proper(p, plan)
    BY <1>3, <2>1, <2>2, SuccessIsProper
  <2> QED
    BY <2>3 DEF plan
<1> HIDE DEF Added, Found
<1> QED
  BY <1>1, <1>4, <1>5, NothingIsProper

LEMMA FxCommandsAreProper ==
    ASSUME NEW p \in GoodProject, NEW i \in 1 .. Len(p.tracks),
           NEW k \in 1 .. Len(p.tracks[i].fx)
    PROVE  /\ \A plan \in FxRemove(p, i, k) : Proper(p, plan)
           /\ \A plan \in FxSetParameter(p, i, k) : Proper(p, plan)
           /\ \A plan \in FxEnable(p, i, k) : Proper(p, plan)
<1> DEFINE removed == WithoutFx(p, i, k)
           touched == TouchFx(p, i, k)
<1>1. /\ FxRemove(p, i, k) = {Succeeds(<<"fx.remove", i, k>>, <<removed>>),
                              Declines(<<"fx.remove", i, k>>)}
      /\ FxSetParameter(p, i, k) = {Succeeds(<<"fx.set_parameter", i, k>>, <<touched>>),
                                    OnNothing(Declines(<<"fx.set_parameter", i, k>>))}
      /\ FxEnable(p, i, k) = {Succeeds(<<"fx.enable", i, k>>, <<touched>>)}
  BY DEF FxRemove, FxSetParameter, FxEnable, WithoutFx
<1>2. removed \in GoodProject /\ touched \in GoodProject
  BY FxUpdates
<1>3. k <= Len(p.tracks[i].fx)
  BY TrackFields
<1>4. /\ Reading(p, <<"fx.remove", i, k>>, 0) = removed
      /\ Reading(p, <<"fx.set_parameter", i, k>>, 0) = touched
      /\ Reading(p, <<"fx.enable", i, k>>, 0) = touched
  BY <1>3, ReadingOfFx
<1> HIDE DEF removed, touched
<1>5. /\ Proper(p, Succeeds(<<"fx.remove", i, k>>, <<removed>>))
      /\ Proper(p, Succeeds(<<"fx.set_parameter", i, k>>, <<touched>>))
      /\ Proper(p, Succeeds(<<"fx.enable", i, k>>, <<touched>>))
  BY <1>2, <1>4, PlainSuccessIsProper
<1>6. /\ Proper(p, Declines(<<"fx.remove", i, k>>))
      /\ Proper(p, OnNothing(Declines(<<"fx.set_parameter", i, k>>)))
  BY NothingIsProper
<1> QED
  BY <1>1, <1>5, <1>6, Zenon

LEMMA FxMissingIsProper ==
    ASSUME NEW p \in GoodProject, NEW i \in 1 .. Len(p.tracks)
    PROVE  \A plan \in FxMissing(p, i) : Proper(p, plan)
<1> DEFINE k    == Len(p.tracks[i].fx) + 1
           plan == OnNothing(Succeeds(<<"fx.enable", i, k>>, <<>>))
<1>1. FxMissing(p, i) = {Reported(Declines(<<"fx.remove", i, k>>)),
                         Reported(Declines(<<"fx.set_parameter", i, k>>)), plan}
  BY DEF FxMissing
<1>2. ~(k <= Len(p.tracks[i].fx))
  BY TrackFields
<1> HIDE DEF k
<1>3. Proper(p, plan)
  <2>1. /\ plan.request = <<"fx.enable", i, k>> /\ plan.projects = <<>>
        /\ plan.block /\ ~plan.fails /\ plan.success
    BY DEF OnNothing, Succeeds
  <2> HIDE DEF plan
  <2>2. plan.projects \in Seq(GoodProject) /\ Method(plan) \in Blind
    BY <2>1, ShortSequences DEF Method, Blind
  <2>3. Final(p, plan) = p /\ Reading(p, plan.request, plan.told) = p
    BY <1>2, <2>1, FinalIs, ReadingOfFx
  <2> QED
    BY <2>1, <2>2, <2>3, SuccessIsProper
<1> HIDE DEF plan
<1> QED
  BY <1>1, <1>3, NothingIsProper

-----------------------------------------------------------------------------
LEMMA RoutingCommandsAreProper ==
    ASSUME NEW p \in GoodProject, NEW i \in 1 .. Len(p.tracks)
    PROVE  /\ \A j \in 1 .. Len(p.tracks) :
                 \A plan \in RoutingAddSend(p, i, j) : Proper(p, plan)
           /\ \A k \in 1 .. Len(p.tracks[i].sends) :
                 \A plan \in RoutingRemoveSend(p, i, k) : Proper(p, plan)
           /\ \A plan \in SendMissing(p, i) : Proper(p, plan)
<1> DEFINE sends == p.tracks[i].sends
<1>1. sends \in Seq(Nat)
  BY TrackFields
<1>2. ASSUME NEW j \in 1 .. Len(p.tracks), NEW plan \in RoutingAddSend(p, i, j)
      PROVE  Proper(p, plan)
  <2> DEFINE request == <<"routing.add_send", i, j>>
             longer  == Append(sends, p.tracks[j].id)
             sent    == [p EXCEPT !.tracks[i].sends = longer]
             place   == Len(sends) + 1
  <2>1. \/ plan = Tells(Succeeds(request, <<sent>>), place, place)
        \/ plan = Declines(request) \/ plan = Throws(request, <<sent>>)
    BY <1>2 DEF RoutingAddSend
  <2>2. Reading(p, request, place) = sent
    <3>1. Reading(p, request, place) = WithSend(p, i, j)
      BY ReadingOfRouting
    <3>2. WithSend(p, i, j) = sent
      BY DEF WithSend
    <3> QED
      BY <3>1, <3>2
  <2>3. request[1] \in PartialMethods
    BY DEF PartialMethods
  <2> HIDE DEF sends, request, place
  <2>4. longer \in Seq(Nat)
    BY <1>1, TrackFields
  <2> HIDE DEF longer
  <2>5. sent \in GoodProject
    BY <2>4, TrackUpdates
  <2> HIDE DEF sent
  <2>6. <<sent>> \in Seq(GoodProject)
    BY <2>5, ShortSequences
  <2> QED
    BY <2>1, <2>2, <2>3, <2>5, <2>6, ToldSuccessIsProper, NothingIsProper, PartialIsProper
<1>3. ASSUME NEW k \in 1 .. Len(sends), NEW plan \in RoutingRemoveSend(p, i, k)
      PROVE  Proper(p, plan)
  <2> DEFINE request == <<"routing.remove_send", i, k>>
             shorter == RemoveAt(sends, k)
             removed == [p EXCEPT !.tracks[i].sends = shorter]
  <2>1. plan = Succeeds(request, <<removed>>) \/ plan = Declines(request)
    BY <1>3 DEF RoutingRemoveSend
  <2>2. Reading(p, request, 0) = removed
    <3>1. Reading(p, request, 0) = WithoutSend(p, i, k)
      BY ReadingOfRouting
    <3>2. WithoutSend(p, i, k) = removed
      BY DEF WithoutSend
    <3> QED
      BY <3>1, <3>2
  <2> HIDE DEF sends, request
  <2>3. shorter \in Seq(Nat)
    BY <1>1, <1>3, RemovedType
  <2> HIDE DEF shorter
  <2>4. removed \in GoodProject
    BY <2>3, TrackUpdates
  <2> HIDE DEF removed
  <2> QED
    BY <2>1, <2>2, <2>4, PlainSuccessIsProper, NothingIsProper
<1>4. \A plan \in SendMissing(p, i) : Proper(p, plan)
  BY NothingIsProper DEF SendMissing
<1> QED
  BY <1>2, <1>3, <1>4

LEMMA EnvelopeAddPointIsProper ==
    ASSUME NEW p \in GoodProject, NEW i \in 1 .. Len(p.tracks), NEW t \in Times
    PROVE  \A plan \in EnvelopeAddPoint(p, i, t) : Proper(p, plan)
<1> DEFINE request == <<"envelope.add_point", i, t>>
           points  == p.tracks[i].points
           point   == NewPoint(t)
           end     == Len(points) + 1
           Q(n)    == WithPoints(p, i, InsertAt(points, n, point))
<1>1. points \in Seq(Point) /\ InOrder(points)
  BY TrackFields
<1>2. point \in Point /\ point.time = t
  BY DEF NewPoint, Point
<1>3. \A plan \in EnvelopeAddPoint(p, i, t) :
         \/ plan = Declines(request)
         \/ \E n \in Places(points, t) : plan = Tells(Succeeds(request, <<Q(n)>>), end, n)
  BY DEF EnvelopeAddPoint, WithPoints
<1>4. ~Ambiguous(p, request, end) => ~Occupied(points, t)
  BY DEF Ambiguous, MakesTie
<1>5. Reading(p, request, end) = Q(ThePlace(points, t))
  BY ReadingOfEnvelopeAndMidi DEF WithPoint
<1>6. request[1] \in Blind
  BY DEF Blind
<1> HIDE DEF request, points, point, end
<1>7. ASSUME NEW n \in Places(points, t)
      PROVE  Proper(p, Tells(Succeeds(request, <<Q(n)>>), end, n))
  <2> DEFINE new == InsertAt(points, n, point)
  <2>1. new \in Seq(Point) /\ InOrder(new)
    BY <1>1, <1>2, PutInOrder, TimeType
  <2>2. ~Occupied(points, t) => n = ThePlace(points, t)
    <3>1. t \in Nat
      BY TimeType
    <3> QED
      BY <1>1, <3>1, OnePlace, TimeType
  <2> HIDE DEF new
  <2>3. Q(n) = [p EXCEPT !.tracks[i].points = new]
    BY DEF new, WithPoints
  <2>4. Q(n) \in GoodProject
    BY <2>1, <2>3, TrackUpdates
  <2>5. ~Ambiguous(p, request, end) => Q(n) = Reading(p, request, end)
    BY <1>4, <1>5, <2>2
  <2> HIDE DEF Q
  <2> QED
    BY <1>6, <2>4, <2>5, ToldSuccessIsProper
<1> HIDE DEF Q
<1> QED
  BY <1>3, <1>7, NothingIsProper

-----------------------------------------------------------------------------
LEMMA ConcatIsSequence ==
    ASSUME NEW S, NEW a \in Seq(S), NEW b \in Seq(S)
    PROVE  /\ a \o b \in Seq(S)
           /\ b = <<>> => a \o b = a
           /\ b # <<>> => a \o b # <<>> /\ Last(a \o b) = b[Len(b)]
<1>1. /\ a \o b \in Seq(S) /\ Len(a \o b) = Len(a) + Len(b)
      /\ \A j \in 1 .. Len(a) + Len(b) :
            (a \o b)[j] = IF j <= Len(a) THEN a[j] ELSE b[j - Len(a)]
  BY ConcatProperties
<1>2. b = <<>> => a \o b = a
  OBVIOUS
<1>3. Len(a) \in Nat /\ Len(b) \in Nat /\ (b # <<>> => Len(b) > 0)
  OBVIOUS
<1> DEFINE c == a \o b
<1> HIDE DEF c
<1>4. c \in Seq(S) /\ Len(c) = Len(a) + Len(b)
  BY <1>1 DEF c
<1>5. ASSUME b # <<>> PROVE c # <<>> /\ Last(c) = b[Len(b)]
  <2>1. Len(c) > 0 /\ ~(Len(c) <= Len(a)) /\ Len(c) - Len(a) = Len(b)
    BY <1>3, <1>4, <1>5
  <2>2. c[Len(c)] = b[Len(b)]
    BY <1>1, <1>3, <1>4, <2>1 DEF c
  <2> QED
    BY <1>4, <2>1, <2>2 DEF Last
<1> QED
  BY <1>1, <1>2, <1>5 DEF c

LEMMA NotesType ==
    \A notes \in NotesTaken \cup TakenByThen :
        /\ notes \in Seq(Range(Notes))
        /\ notes = <<>> \/ (Len(notes) = 1) \/ notes = Notes
<1>1. Notes[1] \in Range(Notes) /\ Notes[2] \in Range(Notes) /\ DOMAIN Notes = 1 .. 2
  BY DEF Notes, Range
<1>2. "first" \in Range(Notes) /\ "second" \in Range(Notes)
  BY <1>1 DEF Notes
<1>3. \A notes \in NotesTaken \cup TakenByThen :
         \/ notes = <<>> \/ notes = <<"first">> \/ notes = <<"second">> \/ notes = Notes
  BY DEF NotesTaken, TakenByThen
<1>4. /\ <<>> \in Seq(Range(Notes)) /\ <<"first">> \in Seq(Range(Notes))
      /\ <<"second">> \in Seq(Range(Notes)) /\ <<"first", "second">> \in Seq(Range(Notes))
  BY <1>2, ShortSequences
<1>5. Len(<<"first">>) = 1 /\ Len(<<"second">>) = 1 /\ Notes = <<"first", "second">>
  BY DEF Notes
<1> QED
  BY <1>3, <1>4, <1>5, Zenon

\* Notes are appended to those of an item.
LEMMA InsertingType ==
    ASSUME NEW p \in GoodProject, NEW i \in 1 .. Len(p.tracks),
           NEW k \in 1 .. Len(p.tracks[i].items), NEW notes \in Seq(Range(Notes))
    PROVE  /\ Inserting(p, i, k, notes) \in Seq(GoodProject)
           /\ Len(Inserting(p, i, k, notes)) = Len(notes)
<1> DEFINE items == p.tracks[i].items
           item  == items[k]
<1>1. items \in Seq(Item) /\ InOrder(items) /\ item \in Item
  BY TrackFields
<1>2. ASSUME NEW n \in 1 .. Len(notes)
      PROVE  [p EXCEPT !.tracks[i].items[k].notes = @ \o SubSeq(notes, 1, n)] \in GoodProject
  <2> DEFINE longer == item.notes \o SubSeq(notes, 1, n)
             noted  == [item EXCEPT !.notes = longer]
             new    == [items EXCEPT ![k] = noted]
  <2>1. [p EXCEPT !.tracks[i].items[k].notes = @ \o SubSeq(notes, 1, n)]
          = WithItems(p, i, new)
    BY DEF WithItems
  <2>2. longer \in Seq(Range(Notes))
    <3>1. item.notes \in Seq(Range(Notes))
      BY <1>1, ItemFields
    <3>2. SubSeq(notes, 1, n) \in Seq(Range(Notes))
      OBVIOUS
    <3> QED
      BY <3>1, <3>2, ConcatProperties
  <2> HIDE DEF longer, item
  <2>3. noted \in Item /\ noted.time = item.time
    BY <1>1, <2>2, ItemFields
  <2> HIDE DEF noted, items
  <2>4. new \in Seq(Item) /\ InOrder(new)
    BY <1>1, <2>3, ReplaceInOrder DEF item, items
  <2> HIDE DEF new
  <2>5. WithItems(p, i, new) \in GoodProject
    BY <2>4, TrackUpdates
  <2> QED
    BY <2>1, <2>5, Zenon
<1>3. Inserting(p, i, k, notes)
        = [n \in 1 .. Len(notes) |->
              [p EXCEPT !.tracks[i].items[k].notes = @ \o SubSeq(notes, 1, n)]]
  BY DEF Inserting
<1> DEFINE After(n) == [p EXCEPT !.tracks[i].items[k].notes = @ \o SubSeq(notes, 1, n)]
<1>4. \A n \in 1 .. Len(notes) : After(n) \in GoodProject
  BY <1>2
<1>5. Inserting(p, i, k, notes) = [n \in 1 .. Len(notes) |-> After(n)]
  BY <1>3
<1> HIDE DEF After
<1>6. Len(notes) \in Nat
  OBVIOUS
<1> QED
  BY <1>4, <1>5, <1>6

\* The notes go into the k-th item of a track of q, which is the project, or what
\* it is with the new item.
LEMMA InsertNotesIsProper ==
    ASSUME NEW p \in GoodProject, NEW q \in GoodProject, NEW i \in 1 .. Len(q.tracks),
           NEW k \in 1 .. Len(q.tracks[i].items), NEW request, NEW created,
           request[1] = "midi.insert_notes",
           (created = <<>> /\ q = p) \/ created = <<q>>,
           \A told : ~Ambiguous(p, request, told)
                        => Reading(p, request, told) = WithNotes(q, i, k, told)
    PROVE  \A plan \in InsertNotes(q, i, k, request, created) : Proper(p, plan)
<1>1. created \in Seq(GoodProject)
  BY ShortSequences
<1>2. ASSUME NEW notes \in NotesTaken \cup TakenByThen
      PROVE  /\ created \o Inserting(q, i, k, notes) \in Seq(GoodProject)
             /\ notes = <<>> => created \o Inserting(q, i, k, notes) = created
             /\ notes = Notes =>
                   /\ created \o Inserting(q, i, k, notes) # <<>>
                   /\ Last(created \o Inserting(q, i, k, notes)) = Inserting(q, i, k, Notes)[2]
  <2> DEFINE more == Inserting(q, i, k, notes)
  <2>1. notes \in Seq(Range(Notes))
    BY NotesType
  <2>2. more \in Seq(GoodProject) /\ Len(more) = Len(notes)
    BY <2>1, InsertingType
  <2> HIDE DEF more
  <2>3. notes = <<>> => more = <<>>
    BY <2>2
  <2>4. notes = Notes => Len(more) = 2 /\ more # <<>>
    BY <2>2 DEF Notes
  <2>5. /\ created \o more \in Seq(GoodProject)
        /\ more = <<>> => created \o more = created
        /\ more # <<>> => created \o more # <<>> /\ Last(created \o more) = more[Len(more)]
    BY <1>1, <2>2, ConcatIsSequence
  <2>6. notes = Notes => Last(created \o more) = more[2]
    BY <2>4, <2>5
  <2> QED
    BY <2>3, <2>4, <2>5, <2>6 DEF more
<1> DEFINE projects(notes) == created \o Inserting(q, i, k, notes)
           taken(notes) == [Succeeds(request, projects(notes)) EXCEPT !.told = Len(notes)]
<1>3. ASSUME NEW notes \in NotesTaken PROVE Proper(p, taken(notes))
  <2> DEFINE plan == taken(notes)
             after == projects(notes)
  <2>1. /\ plan.request = request /\ plan.projects = after /\ plan.told = Len(notes)
        /\ plan.block /\ ~plan.fails /\ plan.success /\ plan.exists
    BY DEF Succeeds
  <2>2. /\ after \in Seq(GoodProject)
        /\ notes = <<>> => after = created
        /\ notes = Notes => after # <<>> /\ Last(after) = Inserting(q, i, k, Notes)[2]
    BY <1>2
  <2> HIDE DEF plan, after
  <2>3. CASE notes = <<>>
    <3>1. Final(p, plan) = q
      BY <2>1, <2>2, <2>3, FinalIs
    <3>2. plan.told = 0
      BY <2>1, <2>3
    <3>3. WithNotes(q, i, k, 0) = q
      BY DEF WithNotes
    <3> QED
      BY <2>1, <2>2, <3>1, <3>2, <3>3, SuccessIsProper DEF plan
  <2>4. CASE notes = Notes
    <3>1. Final(p, plan) = Inserting(q, i, k, Notes)[2]
      BY <2>1, <2>2, <2>4 DEF Final
    <3>2. plan.told = 2
      BY <2>1, <2>4 DEF Notes
    <3>3. WithNotes(q, i, k, 2) = Inserting(q, i, k, Notes)[2]
      BY DEF WithNotes
    <3> QED
      BY <2>1, <2>2, <3>1, <3>2, <3>3, SuccessIsProper DEF plan
  <2>5. CASE Len(notes) = 1
    <3>1. Ambiguous(p, plan.request, plan.told)
      BY <2>1, <2>5 DEF Ambiguous, Notes
    <3> QED
      BY <2>1, <2>2, <3>1, SuccessIsProper DEF plan
  <2> QED
    BY <2>3, <2>4, <2>5, NotesType
<1>4. ASSUME NEW notes \in TakenByThen PROVE Proper(p, Throws(request, projects(notes)))
  <2>1. projects(notes) \in Seq(GoodProject)
    BY <1>2
  <2> HIDE DEF projects
  <2> QED
    BY <2>1, PartialIsProper DEF PartialMethods
<1>5. InsertNotes(q, i, k, request, created)
        = {taken(notes) : notes \in NotesTaken}
          \cup {Throws(request, projects(notes)) : notes \in TakenByThen}
  BY DEF InsertNotes
<1> HIDE DEF projects, taken
<1> QED
  BY <1>3, <1>4, <1>5

LEMMA MidiInsertNotesIsProper ==
    ASSUME NEW p \in GoodProject, NEW i \in 1 .. Len(p.tracks),
           NEW k \in 1 .. Len(p.tracks[i].items)
    PROVE  \A plan \in MidiInsertNotes(p, i, k) : Proper(p, plan)
<1> DEFINE request == <<"midi.insert_notes", i, k>>
<1>1. k # 0 /\ request[1] = "midi.insert_notes"
  BY TrackFields
<1>2. \A told : Reading(p, request, told) = WithNotes(p, i, k, told)
  BY <1>1, ReadingOfEnvelopeAndMidi
<1>3. MidiInsertNotes(p, i, k) = InsertNotes(p, i, k, request, <<>>)
  BY DEF MidiInsertNotes
<1> HIDE DEF request
<1>4. ASSUME NEW created, created = <<>>
      PROVE  \A plan \in InsertNotes(p, i, k, request, created) : Proper(p, plan)
  BY <1>1, <1>2, <1>4, InsertNotesIsProper
<1> QED
  BY <1>3, <1>4

LEMMA MidiInsertNewItemIsProper ==
    ASSUME NEW p \in GoodProject, NEW i \in 1 .. Len(p.tracks), NEW t \in Times
    PROVE  \A plan \in MidiInsertNewItem(p, i, t) : Proper(p, plan)
<1> DEFINE request == <<"midi.insert_notes", i, 0, t>>
           items   == p.tracks[i].items
           item    == NewItem(t)
           New(n)  == WithItems(p, i, InsertAt(items, n, item))
<1>1. items \in Seq(Item) /\ InOrder(items)
  BY TrackFields
<1>2. item \in Item /\ item.time = t
  BY NewItemType
<1>3. MidiInsertNewItem(p, i, t)
        = {Throws(request, <<>>)}
          \cup UNION {InsertNotes(New(n), i, n, request, <<New(n)>>) : n \in Places(items, t)}
  BY DEF MidiInsertNewItem
<1>4. request[1] = "midi.insert_notes"
  OBVIOUS
<1>5. \A told : ~Ambiguous(p, request, told) => ~Occupied(items, t)
  BY DEF Ambiguous, MakesTie
<1>6. \A told : Reading(p, request, told)
                  = WithNotes(New(ThePlace(items, t)), i, ThePlace(items, t), told)
  BY ReadingOfEnvelopeAndMidi DEF WithNotesAt, WithItem
<1>7. ASSUME NEW n \in Places(items, t)
      PROVE  i \in 1 .. Len(New(n).tracks) /\ n \in 1 .. Len(New(n).tracks[i].items)
  <2> DEFINE new == InsertAt(items, n, item)
  <2>1. n \in 1 .. Len(items) + 1
    BY DEF Places
  <2>2. new \in Seq(Item) /\ Len(new) = Len(items) + 1
    BY <1>1, <1>2, <2>1, InsertedType
  <2> HIDE DEF new
  <2>3. New(n) = [p EXCEPT !.tracks[i].items = new]
    BY DEF WithItems, new
  <2>4. p.tracks \in Seq(GoodTrack)
    BY TracksType
  <2>5. New(n).tracks = [p.tracks EXCEPT ![i].items = new]
    BY <2>3 DEF GoodProject
  <2>6. Len(New(n).tracks) = Len(p.tracks) /\ New(n).tracks[i].items = new
    <3>1. p.tracks[i] \in GoodTrack
      BY <2>4
    <3>2. [p.tracks EXCEPT ![i].items = new][i].items = new
      BY <2>4, <3>1 DEF GoodTrack
    <3>3. DOMAIN [p.tracks EXCEPT ![i].items = new] = 1 .. Len(p.tracks)
      BY <2>4
    <3>4. Len(p.tracks) \in Nat
      BY <2>4
    <3> QED
      BY <2>5, <3>2, <3>3, <3>4
  <2> QED
    BY <2>1, <2>2, <2>6
<1> HIDE DEF request, items, item
<1>8. ASSUME NEW n \in Places(items, t)
      PROVE  \A plan \in InsertNotes(New(n), i, n, request, <<New(n)>>) : Proper(p, plan)
  <2> DEFINE q == New(n)
  <2>1. q \in GoodProject /\ (~Occupied(items, t) => n = ThePlace(items, t))
    BY <1>1, <1>2, PutItem DEF items
  <2>2. \A told : ~Ambiguous(p, request, told)
                     => Reading(p, request, told) = WithNotes(q, i, n, told)
    BY <1>5, <1>6, <2>1
  <2>3. i \in 1 .. Len(q.tracks) /\ n \in 1 .. Len(q.tracks[i].items)
    BY <1>7
  <2> HIDE DEF q, New
  <2>4. ASSUME NEW created, created = <<q>>
        PROVE  \A plan \in InsertNotes(q, i, n, request, created) : Proper(p, plan)
    BY <1>4, <2>1, <2>2, <2>3, <2>4, InsertNotesIsProper
  <2> QED
    BY <2>4 DEF q
<1> HIDE DEF New
<1> QED
  BY <1>3, <1>8, NothingIsProper

-----------------------------------------------------------------------------
LEMMA MarkerAddIsProper ==
    ASSUME NEW p \in GoodProject, NEW want, NEW region \in BOOLEAN
    PROVE  \A plan \in MarkerAdd(p, want, region) : Proper(p, plan)
<1> DEFINE request == <<"marker.add", want, region>>
           free    == FreeNumbers(p, region)
<1>1. ASSUME NEW plan \in MarkerAdd(p, want, region)
      PROVE  \/ plan = Declines(request)
             \/ \E n \in free : /\ plan = Succeeds(request, <<WithMarker(p, n, region)>>)
                                /\ want \in free => n = want
  BY <1>1 DEF MarkerAdd
<1>2. ASSUME NEW n \in free PROVE WithMarker(p, n, region) \in GoodProject
  <2>1. [number |-> n, region |-> region] \in Marker
    BY DEF FreeNumbers, Marker
  <2> QED
    BY <2>1 DEF WithMarker, GoodProject
<1>3. Reading(p, request, 0) = WithMarker(p, want, region)
  BY ReadingOfMarkers
<1>4. want \notin free => Ambiguous(p, request, 0)
  BY DEF Ambiguous
<1> HIDE DEF request, free
<1>5. ASSUME NEW n \in free, want \in free => n = want
      PROVE  Proper(p, Succeeds(request, <<WithMarker(p, n, region)>>))
  BY <1>2, <1>3, <1>4, <1>5, PlainSuccessIsProper
<1> QED
  BY <1>1, <1>5, NothingIsProper

LEMMA MarkerRemoveIsProper ==
    ASSUME NEW p \in GoodProject, NEW m \in p.markers
    PROVE  \A plan \in MarkerRemove(p, m) : Proper(p, plan)
<1> DEFINE request == <<"marker.remove", m.number, m.region>>
           q       == [p EXCEPT !.markers = @ \ {m}]
<1>1. MarkerRemove(p, m) = {Succeeds(request, <<q>>), Declines(request)}
  BY DEF MarkerRemove
<1>2. m \in Marker /\ m = [number |-> m.number, region |-> m.region]
  BY DEF GoodProject, Marker
<1>3. WithoutMarker(p, m.number, m.region) = q
  BY <1>2 DEF WithoutMarker
<1>4. Reading(p, request, 0) = WithoutMarker(p, m.number, m.region)
  BY ReadingOfMarkers
<1>5. q \in GoodProject
  BY DEF GoodProject
<1> HIDE DEF request, q
<1>6. Proper(p, Succeeds(request, <<q>>))
  BY <1>3, <1>4, <1>5, PlainSuccessIsProper
<1> QED
  BY <1>1, <1>6, NothingIsProper

-----------------------------------------------------------------------------
LEMMA OfItemIsProper ==
    ASSUME NEW p \in GoodProject, NEW i \in 1 .. Len(p.tracks),
           NEW k \in 1 .. Len(p.tracks[i].items), NEW plan \in OfItem(p, i, k)
    PROVE  Proper(p, plan)
<1>1. \/ plan \in ItemResize(p, i, k) \/ plan \in ItemDelete(p, i, k)
      \/ plan \in MidiInsertNotes(p, i, k)
      \/ \E t \in Times : plan \in ItemMove(p, i, k, t)
      \/ \E t \in Times : plan \in ItemSplit(p, i, k, t)
  BY Zenon DEF OfItem
<1>2. CASE plan \in ItemResize(p, i, k) \/ plan \in ItemDelete(p, i, k)
  BY <1>2, ItemCommandsAreProper, Zenon
<1>3. CASE plan \in MidiInsertNotes(p, i, k)
  BY <1>3, MidiInsertNotesIsProper, Zenon
<1>4. CASE \E t \in Times : plan \in ItemMove(p, i, k, t)
  BY <1>4, ItemMoveIsProper, Zenon
<1>5. CASE \E t \in Times : plan \in ItemSplit(p, i, k, t)
  BY <1>5, ItemSplitIsProper, Zenon
<1> QED
  BY <1>1, <1>2, <1>3, <1>4, <1>5

LEMMA OfTrackIsProper ==
    ASSUME NEW p \in GoodProject, NEW i \in 1 .. Len(p.tracks), NEW plan \in OfTrack(p, i)
    PROVE  Proper(p, plan)
<1>1. \/ plan \in TrackRemove(p, i) \/ plan \in TrackSetProperty(p, i)
      \/ plan \in FxAdd(p, i)
      \/ plan \in FxAddPositioned(p, i)
      \/ plan \in FxMissing(p, i)
      \/ \E k \in 1 .. Len(p.tracks[i].fx) : \/ plan \in FxRemove(p, i, k)
                                             \/ plan \in FxSetParameter(p, i, k)
                                             \/ plan \in FxEnable(p, i, k)
      \/ plan \in SendMissing(p, i)
      \/ \E j \in 1 .. Len(p.tracks) : plan \in RoutingAddSend(p, i, j)
      \/ \E k \in 1 .. Len(p.tracks[i].sends) : plan \in RoutingRemoveSend(p, i, k)
      \/ \E t \in Times : plan \in EnvelopeAddPoint(p, i, t)
      \/ \E t \in Times : plan \in MidiInsertNewItem(p, i, t)
      \/ \E k \in 1 .. Len(p.tracks[i].items) : plan \in OfItem(p, i, k)
  BY Zenon DEF OfTrack
<1>2. CASE plan \in TrackRemove(p, i) \/ plan \in TrackSetProperty(p, i)
  BY <1>2, TrackCommandsAreProper, Zenon
<1>3. CASE plan \in FxAdd(p, i)
  BY <1>3, FxAddIsProper, Zenon
<1>4. CASE plan \in FxAddPositioned(p, i)
  BY <1>4, FxAddPositionedIsProper, Zenon
<1>5. CASE plan \in FxMissing(p, i)
  BY <1>5, FxMissingIsProper, Zenon
<1>6. CASE \E k \in 1 .. Len(p.tracks[i].fx) : \/ plan \in FxRemove(p, i, k)
                                               \/ plan \in FxSetParameter(p, i, k)
                                               \/ plan \in FxEnable(p, i, k)
  BY <1>6, FxCommandsAreProper, Zenon
<1>7. CASE \/ plan \in SendMissing(p, i)
           \/ \E j \in 1 .. Len(p.tracks) : plan \in RoutingAddSend(p, i, j)
           \/ \E k \in 1 .. Len(p.tracks[i].sends) : plan \in RoutingRemoveSend(p, i, k)
  BY <1>7, RoutingCommandsAreProper, Zenon
<1>8. CASE \E t \in Times : plan \in EnvelopeAddPoint(p, i, t)
  BY <1>8, EnvelopeAddPointIsProper, Zenon
<1>9. CASE \E t \in Times : plan \in MidiInsertNewItem(p, i, t)
  BY <1>9, MidiInsertNewItemIsProper, Zenon
<1>10. CASE \E k \in 1 .. Len(p.tracks[i].items) : plan \in OfItem(p, i, k)
  BY <1>10, OfItemIsProper, Zenon
<1> QED
  BY <1>1, <1>2, <1>3, <1>4, <1>5, <1>6, <1>7, <1>8, <1>9, <1>10

LEMMA PlansAreProper ==
    ASSUME NEW p \in GoodProject, NEW plan \in Plans(p)
    PROVE  Proper(p, plan)
<1>1. \/ plan = Refused(<<"any">>)
      \/ plan \in TrackAddOutside(p)
      \/ \E i \in 1 .. Len(p.tracks) + 1 : plan \in TrackAdd(p, i)
      \/ \E want : \E region \in BOOLEAN : plan \in MarkerAdd(p, want, region)
      \/ \E m \in p.markers : plan \in MarkerRemove(p, m)
      \/ \E m : plan \in MarkerMissing(m)
      \/ \E i \in 1 .. Len(p.tracks) : plan \in OfTrack(p, i)
  <2>1. ASSUME plan \in TrackAdds(p)
        PROVE  \/ plan \in TrackAddOutside(p)
               \/ \E i \in 1 .. Len(p.tracks) + 1 : plan \in TrackAdd(p, i)
    <3>1. plan \in TrackAddOutside(p)
                     \cup UNION {TrackAdd(p, i) : i \in 1 .. Len(p.tracks) + 1}
      BY <2>1, Zenon DEF TrackAdds
    <3> QED
      BY <3>1, Zenon
  <2>2. ASSUME plan \in OfMarkers(p)
        PROVE  \/ \E want : \E region \in BOOLEAN : plan \in MarkerAdd(p, want, region)
               \/ \E m \in p.markers : plan \in MarkerRemove(p, m)
               \/ \E m : plan \in MarkerMissing(m)
    <3> DEFINE A == {MarkerAdd(p, want, region) :
                        want \in Numbers \cup {NoNumber}, region \in BOOLEAN}
               B == {MarkerRemove(p, m) : m \in p.markers}
               C == {MarkerMissing(m) : m \in Marker \ p.markers}
    <3>1. OfMarkers(p) = UNION (A \cup B \cup C)
      BY DEF OfMarkers
    <3>2. \A plans \in A : \E want : \E region \in BOOLEAN : plans = MarkerAdd(p, want, region)
      BY SMT
    <3>3. \A plans \in B : \E m \in p.markers : plans = MarkerRemove(p, m)
      OBVIOUS
    <3>4. \A plans \in C : \E m : plans = MarkerMissing(m)
      OBVIOUS
    <3> HIDE DEF A, B, C
    <3>5. PICK plans \in A \cup B \cup C : plan \in plans
      BY <2>2, <3>1
    <3>6. CASE plans \in A
      <4>1. PICK want : \E region \in BOOLEAN : plans = MarkerAdd(p, want, region)
        BY <3>2, <3>6, Zenon
      <4>2. PICK region \in BOOLEAN : plans = MarkerAdd(p, want, region)
        BY <4>1, Zenon
      <4>3. plan \in MarkerAdd(p, want, region)
        BY <3>5, <4>2, Zenon
      <4> QED
        BY <4>3
    <3>7. CASE plans \in B
      BY <3>3, <3>5, <3>7, Zenon
    <3>8. CASE plans \in C
      BY <3>4, <3>5, <3>8, Zenon
    <3> QED
      BY <3>5, <3>6, <3>7, <3>8
  <2>3. \/ plan = Refused(<<"any">>) \/ plan \in TrackAdds(p) \/ plan \in OfMarkers(p)
        \/ \E i \in 1 .. Len(p.tracks) : plan \in OfTrack(p, i)
    BY Zenon DEF Plans
  <2> QED
    BY <2>1, <2>2, <2>3, Zenon
<1>2. CASE plan = Refused(<<"any">>)
  BY <1>2, NothingIsProper, Zenon
<1>3. CASE plan \in TrackAddOutside(p)
  BY <1>3, TrackAddOutsideIsProper, Zenon
<1>4. CASE \E i \in 1 .. Len(p.tracks) + 1 : plan \in TrackAdd(p, i)
  BY <1>4, TrackAddIsProper, Zenon
<1>5. CASE \E want : \E region \in BOOLEAN : plan \in MarkerAdd(p, want, region)
  BY <1>5, MarkerAddIsProper, Zenon
<1>6. CASE \E m \in p.markers : plan \in MarkerRemove(p, m)
  BY <1>6, MarkerRemoveIsProper, Zenon
<1>7. CASE \E m : plan \in MarkerMissing(m)
  <2>1. PICK m : plan = Reported(Declines(<<"marker.remove", m.number, m.region>>))
    BY <1>7, Zenon DEF MarkerMissing
  <2> QED
    BY <2>1, NothingIsProper, Zenon
<1>8. CASE \E i \in 1 .. Len(p.tracks) : plan \in OfTrack(p, i)
  BY <1>8, OfTrackIsProper, Zenon
<1> QED
  BY <1>1, <1>2, <1>3, <1>4, <1>5, <1>6, <1>7, <1>8

\* A plan is made of the client's request and its reply, and what a clear reply
\* says of the project is in them.
LEMMA OneFinal ==
    ASSUME NEW p \in GoodProject, NEW plan \in Plans(p), ~Unclear(p, plan),
           NEW other \in Plans(p), SameToClient(other, plan)
    PROVE  Final(p, other) = Final(p, plan)
<1>1. Proper(p, plan) /\ Proper(p, other)
  BY PlansAreProper
<1>2. /\ other.request = plan.request /\ other.fails = plan.fails
      /\ other.success = plan.success /\ other.told = plan.told
  BY DEF SameToClient
<1>3. ~Unclear(p, other)
  BY <1>2 DEF Unclear, Method
<1>4. CASE plan.success
  BY <1>1, <1>2, <1>3, <1>4 DEF Proper
<1>5. CASE ~plan.success
  <2>1. plan.projects = <<>>
    BY <1>1, <1>5 DEF Proper, Unclear
  <2>2. other.projects = <<>>
    BY <1>1, <1>2, <1>3, <1>5 DEF Proper, Unclear
  <2> QED
    BY <2>1, <2>2 DEF Final
<1> QED
  BY <1>4, <1>5

LEMMA FinalType ==
    ASSUME NEW p \in GoodProject, NEW plan \in Plans(p)
    PROVE  Final(p, plan) \in GoodProject
<1>1. plan.projects \in Seq(GoodProject)
  BY PlansAreProper DEF Proper
<1> QED
  BY <1>1 DEF Final, Last

-----------------------------------------------------------------------------
(***************************************************************************)
(* The invariant.  Between commands the client knows the project, unless   *)
(* the last reply was unclear.  While a command is in progress, its plan   *)
(* is one for the project it was called on, which is the one the client    *)
(* reckons with, and the project is what the calls so far have made of it. *)
(***************************************************************************)
InProgress ==
    /\ books = {before}
    /\ Plan \in Plans(before)
    /\ calls <= Len(Plan.projects)
    /\ project = IF calls = 0 THEN before ELSE Plan.projects[calls]
    /\ stage = "called" => calls = 0
    /\ stage = "over" => calls = Len(Plan.projects)

ProjectInv ==
    /\ stage \in {"idle", "called", "inside", "over"}
    /\ (command = <<>>) = (stage = "idle")
    /\ project \in GoodProject /\ undo \in GoodProject /\ before \in GoodProject
    /\ books \subseteq GoodProject
    /\ calls \in Nat
    /\ called \in 0 .. MaxCommands
    /\ unclear \in BOOLEAN
    /\ stage = "idle" => calls = 0
    /\ stage # "idle" => InProgress
    /\ BooksAreRight
    /\ FailuresChangeNothing
    /\ SuccessIsOfSomething

LEMMA ProjectInvInit == Init => ProjectInv
<1> SUFFICES ASSUME Init PROVE ProjectInv
  OBVIOUS
<1>1. Start \in GoodProject
  BY StartAssumption, GoodIsOrdered
<1>2. 0 \in 0 .. MaxCommands
  BY ProjectBoundsAssumption
<1> QED
  BY <1>1, <1>2 DEF Init, ProjectInv, BooksAreRight, FailuresChangeNothing, SuccessIsOfSomething

\* When a command is over, the project is what its plan comes to, and nothing is
\* changed if there was no call that changes anything.
LEMMA AtTheEnd ==
    ASSUME ProjectInv, stage = "over" \/ (stage = "called" /\ ~Plan.block)
    PROVE  /\ Plan \in Plans(before) /\ Proper(before, Plan)
           /\ project = Final(before, Plan)
           /\ Plan.projects = <<>> => project = before
<1>1. InProgress /\ before \in GoodProject /\ calls \in Nat
  BY DEF ProjectInv
<1>2. Plan \in Plans(before) /\ Proper(before, Plan)
  BY <1>1, PlansAreProper DEF InProgress
<1>3. Plan.projects \in Seq(GoodProject)
  BY <1>2 DEF Proper
<1>4. calls = Len(Plan.projects)
  <2>1. CASE stage = "over"
    BY <1>1, <2>1 DEF InProgress
  <2>2. CASE stage = "called" /\ ~Plan.block
    <3>1. Plan.projects = <<>> /\ calls = 0
      BY <1>1, <1>2, <2>2 DEF InProgress, Proper
    <3> QED
      BY <3>1
  <2> QED
    BY <2>1, <2>2
<1>5. project = IF calls = 0 THEN before ELSE Plan.projects[calls]
  BY <1>1 DEF InProgress
<1>6. calls = 0 <=> Plan.projects = <<>>
  BY <1>3, <1>4
<1> QED
  BY <1>2, <1>4, <1>5, <1>6 DEF Final, Last

LEMMA ProjectInvNext == ProjectInv /\ [Next]_vars => ProjectInv'
<1> SUFFICES ASSUME ProjectInv, [Next]_vars PROVE ProjectInv'
  OBVIOUS
<1> USE DEF ProjectInv, BooksAreRight, FailuresChangeNothing, SuccessIsOfSomething
<1>1. CASE Call
  <2>1. PICK plan \in Plans(project) : command' = <<plan>>
    BY <1>1 DEF Call
  <2>2. /\ Plan' = plan /\ command' # <<>> /\ stage' = "called" /\ stage = "idle" /\ calls' = 0
        /\ before' = project /\ project' = project /\ books' = {project}
        /\ undo' = undo /\ unclear' = unclear /\ hollow' = "none"
    BY <1>1, <2>1 DEF Call, Plan
  <2>3. called' \in 0 .. MaxCommands
    BY <1>1, ProjectBoundsAssumption DEF Call
  <2>4. plan.projects \in Seq(GoodProject)
    BY PlansAreProper DEF Proper
  <2>5. InProgress'
    BY <2>2, <2>4 DEF InProgress
  <2> QED
    BY <2>2, <2>3, <2>5
<1>2. CASE BeginBlock
  BY <1>2 DEF BeginBlock, Construct, bookkeeping, InProgress, Plan
<1>3. CASE ReaperCall
  <2>1. InProgress /\ Plan.projects \in Seq(GoodProject)
    BY <1>3, PlansAreProper DEF ReaperCall, InProgress, Proper
  <2>2. calls + 1 \in 1 .. Len(Plan.projects)
    BY <1>3, <2>1 DEF ReaperCall
  <2>3. Plan.projects[calls + 1] \in GoodProject
    BY <2>1, <2>2
  <2>4. /\ project' = Plan.projects[calls + 1] /\ calls' = calls + 1 /\ stage' = stage
        /\ stage = "inside" /\ Plan' = Plan /\ command' = command
        /\ UNCHANGED <<undo, before, called, books, unclear, hollow, failed>>
    BY <1>3 DEF ReaperCall, bookkeeping, Plan
  <2>5. InProgress'
    BY <2>1, <2>2, <2>4 DEF InProgress
  <2> QED
    BY <2>2, <2>3, <2>4, <2>5
<1>4. CASE EndBlock
  BY <1>4 DEF EndBlock, Destruct, bookkeeping, InProgress, Plan
<1>5. CASE Answered
  <2>1. stage = "over" \/ (stage = "called" /\ ~Plan.block)
    BY <1>5 DEF Answered
  <2>2. /\ Plan \in Plans(before) /\ Proper(before, Plan)
        /\ project = Final(before, Plan)
        /\ Plan.projects = <<>> => project = before
    BY <2>1, AtTheEnd
  <2>3. before \in GoodProject /\ books = {before}
    BY <2>1 DEF InProgress
  <2>4. books' = {Final(before, plan) : plan \in {q \in Plans(before) : SameToClient(q, Plan)}}
    BY <1>5, <2>3 DEF Answered
  <2>5. books' \subseteq GoodProject
    BY <2>3, <2>4, FinalType
  <2>6. ~Unclear(before, Plan) => books' = {project}
    <3>1. Plan \in {q \in Plans(before) : SameToClient(q, Plan)}
      BY <2>2 DEF SameToClient
    <3>2. ASSUME ~Unclear(before, Plan),
                 NEW q \in {x \in Plans(before) : SameToClient(x, Plan)}
          PROVE  Final(before, q) = project
      BY <2>2, <2>3, <3>2, OneFinal
    <3> QED
      BY <2>4, <3>1, <3>2
  <2>7. /\ unclear' = Unclear(before, Plan) /\ stage' = "idle" /\ command' = <<>> /\ calls' = 0
        /\ UNCHANGED <<project, undo, before, called>>
        /\ failed' = IF Plan.fails THEN Method(Plan) ELSE "none"
        /\ hollow' = IF Plan.success /\ ~Plan.exists THEN Method(Plan) ELSE "none"
    BY <1>5 DEF Answered
  <2>8. unclear' \in BOOLEAN
    BY <2>7 DEF Unclear
  <2>9. FailuresChangeNothing'
    BY <2>2, <2>7 DEF Proper
  <2>10. SuccessIsOfSomething'
    BY <2>2, <2>7 DEF Proper, Blind
  <2> QED
    BY <2>5, <2>6, <2>7, <2>8, <2>9, <2>10
<1>6. CASE List
  BY <1>6 DEF List
<1>7. CASE UNCHANGED vars
  BY <1>7 DEF vars, bookkeeping, InProgress, Plan
<1> QED
  BY <1>1, <1>2, <1>3, <1>4, <1>5, <1>6, <1>7 DEF Next

\* Of all commands only midi.insert_notes and routing.add_send can fail after
\* they have changed something: every other handler checks all it needs before
\* its first call that changes the project.
THEOREM FailuresAreClean == Spec => []FailuresChangeNothing
<1>1. ProjectInv => FailuresChangeNothing
  BY DEF ProjectInv
<1> QED
  BY <1>1, ProjectInvInit, ProjectInvNext, PTL DEF Spec

\* A client that edits alone knows the project by its requests and the replies,
\* and can name everything by index and number, at any time but after the known
\* unclear replies: for every other reply all that the command may have done, as
\* far as the client can tell, comes to the same project.
THEOREM BooksCorrect == Spec => []BooksAreRight
<1>1. ProjectInv => BooksAreRight
  BY DEF ProjectInv
<1> QED
  BY <1>1, ProjectInvInit, ProjectInvNext, PTL DEF Spec

\* Only fx.enable, fx.disable, track.add and envelope.add_point report success on
\* what is not there, or not where they say.
THEOREM SuccessIsHonest == Spec => []SuccessIsOfSomething
<1>1. ProjectInv => SuccessIsOfSomething
  BY DEF ProjectInv
<1> QED
  BY <1>1, ProjectInvInit, ProjectInvNext, PTL DEF Spec

LEMMA ProjectInvTypes == ProjectInv /\ UndoInv => TypeOK
<1>1. ASSUME ProjectInv PROVE /\ project \in Project /\ Ordered(project) /\ undo \in Project
                              /\ books \subseteq Project
  BY <1>1, GoodIsOrdered DEF ProjectInv
<1> QED
  BY <1>1 DEF ProjectInv, UndoInv, TypeOK

\* The variables keep their types: every command, on whatever its index names,
\* leaves a project, in which the items and the points of each track are in the
\* order of their times, those of one time included.
THEOREM TypeCorrect == Spec => []TypeOK
<1>1. Spec => []ProjectInv
  BY ProjectInvInit, ProjectInvNext, PTL DEF Spec
<1>2. Spec => []UndoInv
  BY UndoInvInit, UndoInvNext, PTL DEF Spec
<1> QED
  BY <1>1, <1>2, ProjectInvTypes, PTL
=============================================================================

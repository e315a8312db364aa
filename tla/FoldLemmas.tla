----------------------------- MODULE FoldLemmas -----------------------------
(***************************************************************************)
(* Induction over the natural numbers, as a fact about sets of them, and   *)
(* what it yields about FoldLeft: the recursive function FoldLeft is       *)
(* defined by exists, so that it may be unfolded one element at a time.    *)
(***************************************************************************)
EXTENDS Integers, Sequences, SequencesExt, WellFoundedInduction, TLAPS

(***************************************************************************)
(* A set that holds 0 and with each number the next holds them all.        *)
(***************************************************************************)
LEMMA NatSetInduction ==
    ASSUME NEW T, 0 \in T, \A n \in Nat : n \in T => n + 1 \in T
    PROVE  Nat \subseteq T
<1> SUFFICES ASSUME Nat \ T # {}
             PROVE  FALSE
  OBVIOUS
<1> DEFINE R == {ss \in Nat \X Nat : ss[1] < ss[2]}
<1>1. IsWellFoundedOn(R, Nat)
  BY NatLessThanWellFounded DEF OpToRel
<1>2. \A x, y \in Nat : <<x, y>> \in R <=> x < y
  OBVIOUS
<1> HIDE DEF R
<1>3. PICK x \in Nat \ T : \A y \in Nat \ T : <<y, x>> \notin R
  BY <1>1, WFMin
<1>4. x - 1 \in Nat /\ x - 1 < x
  BY <1>3
<1>5. x - 1 \in T
  BY <1>2, <1>3, <1>4
<1>6. (x - 1) + 1 \in T
  BY <1>4, <1>5
<1> QED
  BY <1>3, <1>6

LEMMA MaxIsLast ==
    ASSUME NEW k \in Nat, NEW s, s \subseteq 1 .. k, k \in s
    PROVE  Max(s) = k
<1>1. \A y \in s : k >= y
  OBVIOUS
<1>2. Max(s) \in s /\ \A y \in s : Max(s) >= y
  BY <1>1, Zenon DEF Max
<1>3. Max(s) \in 1 .. k /\ Max(s) >= k
  BY <1>2
<1> QED
  BY <1>3

HasMax(k) == \A t \in SUBSET (1 .. k) : t # {} => \E x \in t : \A y \in t : x >= y

LEMMA MaxInRange ==
    ASSUME NEW n \in Nat, NEW s, s \subseteq 1 .. n, s # {}
    PROVE  Max(s) \in s
<1> DEFINE T == {k \in Nat : HasMax(k)}
<1>1. 0 \in T
  <2>1. 1 .. 0 = {}
    OBVIOUS
  <2>2. \A t \in SUBSET (1 .. 0) : t = {}
    BY <2>1
  <2>3. HasMax(0)
    BY <2>2, Zenon DEF HasMax
  <2> QED
    BY <2>3
<1>2. ASSUME NEW k \in Nat, k \in T
      PROVE  k + 1 \in T
  <2>0. HasMax(k)
    BY <1>2
  <2>1. ASSUME NEW t \in SUBSET (1 .. k + 1), t # {}
        PROVE  \E x \in t : \A y \in t : x >= y
    <3>1. CASE k + 1 \in t
      BY <3>1
    <3>2. CASE k + 1 \notin t
      <4>1. t \in SUBSET (1 .. k)
        BY <3>2
      <4> QED
        BY <2>0, <2>1, <4>1 DEF HasMax
    <3> QED
      BY <3>1, <3>2
  <2>2. HasMax(k + 1)
    BY <2>1 DEF HasMax
  <2> QED
    BY <2>2
<1> HIDE DEF T
<1>3. n \in T
  BY <1>1, <1>2, NatSetInduction
<1>4. \E x \in s : \A y \in s : x >= y
  <2>1. HasMax(n)
    BY <1>3 DEF T
  <2> QED
    BY <2>1 DEF HasMax
<1> QED
  BY <1>4, Zenon DEF Max

\* How FoldLeft goes through a sequence: to the prefix from the one before.
LEMMA Prefix ==
    ASSUME NEW k \in Nat \ {0}
    PROVE  1 .. k # {} /\ Max(1 .. k) = k /\ (1 .. k) \ {Max(1 .. k)} = 1 .. k - 1
<1>1. Max(1 .. k) = k
  BY MaxIsLast
<1> QED
  BY <1>1

(***************************************************************************)
(* FoldLeft takes the last element of what is left first.  F is a step of  *)
(* the fold, by what it has so far and by position.                        *)
(***************************************************************************)
Folds(h, F, base, n) ==
    \A s \in SUBSET (1 .. n) :
        h[s] = IF s = {} THEN base ELSE F[<<h[s \ {Max(s)}], Max(s)>>]

FoldedTo(k, A, F, base) == \E h \in [SUBSET (1 .. k) -> A] : Folds(h, F, base, k)

LEMMA FoldExists ==
    ASSUME NEW A, NEW n \in Nat, NEW base \in A, NEW F \in [A \X (1 .. n) -> A]
    PROVE  \E h \in [SUBSET (1 .. n) -> A] : Folds(h, F, base, n)
<1> DEFINE T == {k \in Nat : k <= n => FoldedTo(k, A, F, base)}
<1>1. 0 \in T
  <2> DEFINE h == [s \in SUBSET (1 .. 0) |-> base]
  <2>1. h \in [SUBSET (1 .. 0) -> A]
    OBVIOUS
  <2>2. Folds(h, F, base, 0)
    BY DEF Folds
  <2>3. FoldedTo(0, A, F, base)
    BY <2>1, <2>2 DEF FoldedTo
  <2> QED
    BY <2>3
<1>2. ASSUME NEW k \in Nat, k \in T
      PROVE  k + 1 \in T
  <2> SUFFICES ASSUME k + 1 <= n
               PROVE  FoldedTo(k + 1, A, F, base)
    OBVIOUS
  <2> HIDE DEF T
  <2>1. PICK h \in [SUBSET (1 .. k) -> A] : Folds(h, F, base, k)
    <3>1. FoldedTo(k, A, F, base)
      BY <1>2 DEF T
    <3> QED
      BY <3>1 DEF FoldedTo
  <2> DEFINE g == [s \in SUBSET (1 .. k + 1) |->
                      IF k + 1 \in s THEN F[<<h[s \ {k + 1}], k + 1>>] ELSE h[s]]
  <2>2. \A s \in SUBSET (1 .. k + 1) :
           /\ s \ {k + 1} \in SUBSET (1 .. k)
           /\ k + 1 \notin s => s \in SUBSET (1 .. k)
    OBVIOUS
  <2>3. k + 1 \in 1 .. n
    OBVIOUS
  <2>4. g \in [SUBSET (1 .. k + 1) -> A]
    BY <2>2, <2>3
  <2>5. ASSUME NEW s \in SUBSET (1 .. k + 1)
        PROVE  g[s] = IF s = {} THEN base ELSE F[<<g[s \ {Max(s)}], Max(s)>>]
    <3>1. CASE k + 1 \in s
      <4>1. Max(s) = k + 1
        <5>1. k + 1 \in Nat /\ s \subseteq 1 .. k + 1
          OBVIOUS
        <5> QED
          BY <3>1, <5>1, MaxIsLast
      <4>2. g[s \ {k + 1}] = h[s \ {k + 1}]
        BY <2>2
      <4> QED
        BY <3>1, <4>1, <4>2
    <3>2. CASE k + 1 \notin s
      <4>1. s \in SUBSET (1 .. k) /\ g[s] = h[s]
        BY <2>2, <3>2
      <4>2. g[s \ {Max(s)}] = h[s \ {Max(s)}]
        BY <3>2
      <4> QED
        BY <2>1, <4>1, <4>2 DEF Folds
    <3> QED
      BY <3>1, <3>2
  <2>6. Folds(g, F, base, k + 1)
    BY <2>5 DEF Folds
  <2> QED
    BY <2>4, <2>6 DEF FoldedTo
<1> HIDE DEF T
<1>3. n \in T
  BY <1>1, <1>2, NatSetInduction
<1>4. FoldedTo(n, A, F, base)
  BY <1>3 DEF T
<1> QED
  BY <1>4 DEF FoldedTo

\* The same by the length of the prefix: recursion over an interval.
Recurs(g, F, base, n) == g[0] = base /\ \A k \in 1 .. n : g[k] = F[<<g[k - 1], k>>]

LEMMA RecursionExists ==
    ASSUME NEW A, NEW n \in Nat, NEW base \in A, NEW F \in [A \X (1 .. n) -> A]
    PROVE  \E g \in [0 .. n -> A] : Recurs(g, F, base, n)
<1>1. PICK h \in [SUBSET (1 .. n) -> A] : Folds(h, F, base, n)
  BY FoldExists
<1> DEFINE g == [k \in 0 .. n |-> h[1 .. k]]
<1>2. \A k \in 0 .. n : 1 .. k \in SUBSET (1 .. n)
  OBVIOUS
<1>3. g \in [0 .. n -> A]
  BY <1>2
<1>4. g[0] = base
  <2>1. 1 .. 0 = {} /\ 0 \in 0 .. n
    OBVIOUS
  <2> QED
    BY <1>1, <2>1 DEF Folds
<1>5. ASSUME NEW k \in 1 .. n
      PROVE  g[k] = F[<<g[k - 1], k>>]
  <2>1. k \in Nat \ {0} /\ k \in 0 .. n /\ k - 1 \in 0 .. n
    OBVIOUS
  <2>2. h[1 .. k] = F[<<h[1 .. k - 1], k>>]
    BY <1>1, <1>2, <2>1, Prefix DEF Folds
  <2> QED
    BY <2>1, <2>2
<1> QED
  BY <1>3, <1>4, <1>5 DEF Recurs
=============================================================================

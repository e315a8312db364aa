---------------------------- MODULE FramingProofs ----------------------------
(***************************************************************************)
(* Framing for every base, width of a length, limit and set of payloads:   *)
(* a length is read as it was written, and the reader is never out of step *)
(* with the frames, in whatever pieces the bytes travel.                   *)
(***************************************************************************)
EXTENDS Framing, FoldLemmas, SequenceTheorems

-----------------------------------------------------------------------------
(***************************************************************************)
(* The value of a place is a power of the base.                            *)
(***************************************************************************)
LEMMA PlaceIs ==
    /\ Place[0] = 1
    /\ \A k \in 1 .. Digits : Place[k] = Base * Place[k - 1]
<1> DEFINE Def(p) == [k \in 0 .. Digits |-> IF k = 0 THEN 1 ELSE Base * p[k - 1]]
           F == [q \in Nat \X (1 .. Digits) |-> Base * q[1]]
<1>1. Base \in Nat /\ Digits \in Nat /\ 1 \in Nat
  BY FramingAssumption DEF FramingAssumption
<1>2. F \in [Nat \X (1 .. Digits) -> Nat]
  BY <1>1
<1>3. PICK g \in [0 .. Digits -> Nat] : Recurs(g, F, 1, Digits)
  <2> HIDE DEF F
  <2> QED
    BY <1>1, <1>2, RecursionExists
<1>4. ASSUME NEW k \in 0 .. Digits
      PROVE  g[k] = Def(g)[k]
  <2>1. CASE k = 0
    BY <1>3, <2>1 DEF Recurs
  <2>2. CASE k # 0
    <3>1. k \in 1 .. Digits /\ g[k - 1] \in Nat
      BY <1>1, <2>2
    <3> QED
      BY <1>3, <2>2, <3>1 DEF Recurs
  <2> QED
    BY <2>1, <2>2
<1>5. g = Def(g)
  BY <1>4
<1>6. Place = Def(Place)
  BY <1>5 DEF Place
<1>7. \A k \in 0 .. Digits : Place[k] = Def(Place)[k]
  BY <1>6
<1> QED
  BY <1>1, <1>7

LEMMA PlaceType == \A k \in 0 .. Digits : Place[k] \in Nat \ {0}
<1>1. Base \in Nat \ {0} /\ Digits \in Nat
  BY FramingAssumption DEF FramingAssumption
<1> DEFINE T == {k \in Nat : k <= Digits => Place[k] \in Nat \ {0}}
<1>2. 0 \in T
  BY PlaceIs
<1>3. ASSUME NEW k \in Nat, k \in T
      PROVE  k + 1 \in T
  <2> SUFFICES ASSUME k + 1 <= Digits
               PROVE  Place[k + 1] \in Nat \ {0}
    OBVIOUS
  <2>1. Place[k + 1] = Base * Place[k]
    BY <1>1, PlaceIs
  <2>2. Place[k] \in Nat \ {0}
    BY <1>1, <1>3
  <2> QED
    BY <1>1, <2>1, <2>2
<1> HIDE DEF T
<1>4. Nat \subseteq T
  BY <1>2, <1>3, NatSetInduction
<1> QED
  BY <1>1, <1>4 DEF T

-----------------------------------------------------------------------------
(***************************************************************************)
(* Decode, unfolded one byte at a time.                                    *)
(***************************************************************************)
LEMMA DecodeUnfolds ==
    ASSUME NEW header \in Seq(Bytes)
    PROVE  \E h : /\ Decode(header) = h[1 .. Len(header)]
                  /\ h[1 .. 0] = 0
                  /\ \A k \in 1 .. Len(header) :
                        h[1 .. k] = Base * h[1 .. k - 1] + header[k]
<1> DEFINE N == Len(header)
           F == [p \in Nat \X (1 .. N) |-> Base * p[1] + header[p[2]]]
           Def(h) == [s \in SUBSET (1 .. N) |->
                         IF s = {} THEN 0 ELSE Base * h[s \ {Max(s)}] + header[Max(s)]]
           iter == CHOOSE h : h = Def(h)
<1>0. /\ Base \in Nat \ {0} /\ N \in Nat
      /\ \A k \in 1 .. N : header[k] \in Nat
  BY FramingAssumption DEF FramingAssumption, Bytes
<1>1. Decode(header) = iter[1 .. N]
  <2>1. DOMAIN header = 1 .. N
    OBVIOUS
  <2> QED
    BY <2>1 DEF Decode, FoldLeft, MapThenFoldSet
<1>2. \E h : h = Def(h)
  <2>1. F \in [Nat \X (1 .. N) -> Nat] /\ 0 \in Nat
    <3>1. ASSUME NEW n \in Nat, NEW byte \in Nat
          PROVE  Base * n + byte \in Nat
      BY <1>0
    <3>2. ASSUME NEW p \in Nat \X (1 .. N)
          PROVE  Base * p[1] + header[p[2]] \in Nat
      <4>1. p[1] \in Nat /\ p[2] \in 1 .. N
        OBVIOUS
      <4>2. header[p[2]] \in Nat
        BY <1>0, <4>1
      <4> QED
        BY <3>1, <4>1, <4>2
    <3> QED
      BY <3>2
  <2>2. PICK h \in [SUBSET (1 .. N) -> Nat] : Folds(h, F, 0, N)
    <3> HIDE DEF F, N
    <3> QED
      BY <1>0, <2>1, FoldExists
  <2>3. ASSUME NEW s \in SUBSET (1 .. N), s # {}
        PROVE  Max(s) \in 1 .. N /\ h[s \ {Max(s)}] \in Nat
    <3>1. s \subseteq 1 .. N /\ s \ {Max(s)} \in SUBSET (1 .. N)
      OBVIOUS
    <3>2. Max(s) \in s
      BY <1>0, <2>3, <3>1, MaxInRange
    <3> HIDE DEF N
    <3> QED
      BY <3>1, <3>2
  <2>4. ASSUME NEW s \in SUBSET (1 .. N)
        PROVE  h[s] = Def(h)[s]
    <3>1. h[s] = IF s = {} THEN 0 ELSE F[<<h[s \ {Max(s)}], Max(s)>>]
      BY <2>2 DEF Folds
    <3>2. s # {} => F[<<h[s \ {Max(s)}], Max(s)>>] = Base * h[s \ {Max(s)}] + header[Max(s)]
      BY <2>3
    <3> HIDE DEF F
    <3> QED
      BY <3>1, <3>2
  <2>5. h = Def(h)
    BY <2>4
  <2> QED
    BY <2>5
<1>3. iter = Def(iter)
  BY <1>2
<1> HIDE DEF iter
<1>4. \A s \in SUBSET (1 .. N) : iter[s] = Def(iter)[s]
  BY <1>3
<1>5. ASSUME NEW k \in 1 .. N
      PROVE  iter[1 .. k] = Base * iter[1 .. k - 1] + header[k]
  <2>1. k \in Nat \ {0} /\ 1 .. k \in SUBSET (1 .. N)
    BY <1>0
  <2>2. 1 .. k # {} /\ Max(1 .. k) = k /\ (1 .. k) \ {Max(1 .. k)} = 1 .. k - 1
    BY <2>1, Prefix
  <2> QED
    BY <1>4, <2>1, <2>2
<1>6. iter[1 .. 0] = 0
  <2>1. 1 .. 0 \in SUBSET (1 .. N) /\ 1 .. 0 = {}
    OBVIOUS
  <2> QED
    BY <1>4, <2>1
<1> QED
  BY <1>1, <1>5, <1>6

-----------------------------------------------------------------------------
(***************************************************************************)
(* A length is read as it was written.                                     *)
(***************************************************************************)
LEMMA Shifted ==
    ASSUME NEW n \in Nat, NEW b \in Nat \ {0}, NEW p \in Nat \ {0}
    PROVE  b * (n \div (b * p)) + ((n \div p) % b) = n \div p
<1>1. n \div p \in Nat /\ (n \div p) \div b = n \div (b * p)
  OBVIOUS
<1>2. \A m \in Nat : b * (m \div b) + (m % b) = m
  OBVIOUS
<1> QED
  BY <1>1, <1>2

LEMMA HeaderType ==
    ASSUME NEW n \in Nat
    PROVE  Header(n) \in Seq(Bytes) /\ Len(Header(n)) = Digits
<1>1. Base \in Nat \ {0} /\ Digits \in Nat
  BY FramingAssumption DEF FramingAssumption
<1>2. ASSUME NEW i \in 1 .. Digits
      PROVE  (n \div Place[Digits - i]) % Base \in Bytes
  <2>1. Place[Digits - i] \in Nat \ {0}
    BY <1>1, PlaceType
  <2>2. n \div Place[Digits - i] \in Nat
    BY <2>1
  <2> QED
    BY <1>1, <2>2 DEF Bytes
<1> QED
  BY <1>1, <1>2 DEF Header

(***************************************************************************)
(* read_message computes the length that encode was given, whatever the    *)
(* number of bytes it takes, if it fits.                                   *)
(***************************************************************************)
THEOREM HeaderDecodes ==
    ASSUME NEW n \in Nat, n < Place[Digits]
    PROVE  Decode(Header(n)) = n
<1>1. Base \in Nat \ {0} /\ Digits \in Nat /\ \A k \in 0 .. Digits : Place[k] \in Nat \ {0}
  BY FramingAssumption, PlaceType DEF FramingAssumption
<1>2. Header(n) \in Seq(Bytes) /\ Len(Header(n)) = Digits
  BY HeaderType
<1>3. PICK h : /\ Decode(Header(n)) = h[1 .. Digits]
               /\ h[1 .. 0] = 0
               /\ \A k \in 1 .. Digits :
                     h[1 .. k] = Base * h[1 .. k - 1] + Header(n)[k]
  BY <1>2, DecodeUnfolds
<1> DEFINE T == {k \in Nat : k <= Digits => h[1 .. k] = n \div Place[Digits - k]}
<1>4. 0 \in T
  <2>1. Place[Digits - 0] = Place[Digits] /\ Place[Digits] \in Nat \ {0}
    BY <1>1
  <2>2. n \div Place[Digits] = 0
    BY <2>1
  <2> QED
    BY <1>3, <2>1, <2>2
<1>5. ASSUME NEW k \in Nat, k \in T
      PROVE  k + 1 \in T
  <2> SUFFICES ASSUME k + 1 <= Digits
               PROVE  h[1 .. k + 1] = n \div Place[Digits - (k + 1)]
    OBVIOUS
  <2> DEFINE p == Place[Digits - (k + 1)]
  <2>1. p \in Nat \ {0} /\ Place[Digits - k] = Base * p
    <3>1. Digits - k \in 1 .. Digits /\ (Digits - k) - 1 = Digits - (k + 1)
          /\ Digits - (k + 1) \in 0 .. Digits
      BY <1>1
    <3> QED
      BY <1>1, <3>1, PlaceIs
  <2>2. h[1 .. k] = n \div (Base * p)
    BY <1>1, <1>5, <2>1
  <2>3. Header(n)[k + 1] = (n \div p) % Base
    BY <1>1 DEF Header
  <2>4. h[1 .. k + 1] = Base * h[1 .. k] + Header(n)[k + 1]
    BY <1>1, <1>3
  <2> HIDE DEF p
  <2>5. Base * (n \div (Base * p)) + ((n \div p) % Base) = n \div p
    BY <1>1, <2>1, Shifted
  <2>6. h[1 .. k + 1] = n \div p
    BY <2>2, <2>3, <2>4, <2>5
  <2> QED
    BY <2>6 DEF p
<1> HIDE DEF T
<1>6. Digits \in T
  BY <1>1, <1>4, <1>5, NatSetInduction
<1>7. h[1 .. Digits] = n \div Place[Digits - Digits]
  BY <1>1, <1>6 DEF T
<1>8. Place[Digits - Digits] = 1 /\ n \div 1 = n
  BY <1>1, PlaceIs
<1> QED
  BY <1>3, <1>7, <1>8

LEMMA DecodeType ==
    ASSUME NEW header \in Seq(Bytes)
    PROVE  Decode(header) \in Nat
<1>1. /\ Base \in Nat /\ Len(header) \in Nat
      /\ \A k \in 1 .. Len(header) : header[k] \in Nat
  BY FramingAssumption DEF FramingAssumption, Bytes
<1>2. PICK h : /\ Decode(header) = h[1 .. Len(header)]
               /\ h[1 .. 0] = 0
               /\ \A k \in 1 .. Len(header) :
                     h[1 .. k] = Base * h[1 .. k - 1] + header[k]
  BY DecodeUnfolds
<1> DEFINE T == {k \in Nat : k <= Len(header) => h[1 .. k] \in Nat}
<1>3. 0 \in T
  BY <1>2
<1>4. ASSUME NEW k \in Nat, k \in T
      PROVE  k + 1 \in T
  <2> SUFFICES ASSUME k + 1 <= Len(header)
               PROVE  h[1 .. k + 1] \in Nat
    OBVIOUS
  <2>1. h[1 .. k] \in Nat /\ header[k + 1] \in Nat
    BY <1>1, <1>4
  <2>2. k + 1 \in 1 .. Len(header) /\ (k + 1) - 1 = k
    BY <1>1
  <2>3. h[1 .. k + 1] = Base * h[1 .. k] + header[k + 1]
    BY <1>2, <2>2
  <2>4. \A a, b \in Nat : Base * a + b \in Nat
    BY <1>1
  <2> QED
    BY <2>1, <2>3, <2>4
<1> HIDE DEF T
<1>5. Len(header) \in T
  BY <1>1, <1>3, <1>4, NatSetInduction
<1> QED
  BY <1>2, <1>5 DEF T

-----------------------------------------------------------------------------
(***************************************************************************)
(* Sequences that are cut and put together.                                *)
(***************************************************************************)
LEMMA Cut ==
    ASSUME NEW S, NEW s \in Seq(S), NEW n \in 0 .. Len(s)
    PROVE  /\ SubSeq(s, 1, n) \in Seq(S)
           /\ SubSeq(s, n + 1, Len(s)) \in Seq(S)
           /\ Len(SubSeq(s, 1, n)) = n
           /\ SubSeq(s, 1, n) \o SubSeq(s, n + 1, Len(s)) = s
<1> DEFINE a == SubSeq(s, 1, n)
           b == SubSeq(s, n + 1, Len(s))
<1>1. /\ a \in Seq(S) /\ Len(a) = n /\ \A i \in 1 .. n : a[i] = s[i]
      /\ b \in Seq(S) /\ Len(b) = Len(s) - n
      /\ \A i \in 1 .. Len(s) - n : b[i] = s[n + i]
  OBVIOUS
<1> HIDE DEF a, b
<1>2. /\ a \o b \in Seq(S)
      /\ Len(a \o b) = Len(a) + Len(b)
      /\ \A i \in 1 .. Len(a) + Len(b) : (a \o b)[i] = IF i <= Len(a) THEN a[i] ELSE b[i - Len(a)]
  BY <1>1, ConcatProperties
<1>3. Len(a \o b) = Len(s) /\ Len(s) \in Nat
  BY <1>1, <1>2
<1>4. ASSUME NEW i \in 1 .. Len(s)
      PROVE  (a \o b)[i] = s[i]
  <2>1. CASE i <= n
    BY <1>1, <1>2, <1>3, <2>1
  <2>2. CASE ~(i <= n)
    <3>1. i - n \in 1 .. Len(s) - n /\ n + (i - n) = i
      BY <1>3, <2>2
    <3> QED
      BY <1>1, <1>2, <1>3, <2>2, <3>1
  <2> QED
    BY <2>1, <2>2
<1>5. a \o b = s
  BY <1>2, <1>3, <1>4, SeqEqual
<1> QED
  BY <1>1, <1>5 DEF a, b

LEMMA Associates ==
    \A a, b, c \in Seq(Bytes) : (a \o b) \o c = a \o (b \o c)
  BY ConcatAssociative

\* Put together, as a name the provers look no further into.
Joined(s, t) == s \o t

LEMMA Moved ==
    \A u, v, w, x \in Seq(Bytes) :
        Joined(u, Joined(Joined(v, w), x)) = Joined(Joined(u, v), Joined(w, x))
<1> SUFFICES ASSUME NEW u \in Seq(Bytes), NEW v \in Seq(Bytes),
                    NEW w \in Seq(Bytes), NEW x \in Seq(Bytes)
             PROVE  u \o ((v \o w) \o x) = (u \o v) \o (w \o x)
  BY DEF Joined
<1>1. (v \o w) \o x = v \o (w \o x) /\ w \o x \in Seq(Bytes)
  BY Associates, ConcatProperties
<1> DEFINE y == w \o x
<1>2. y \in Seq(Bytes)
  BY <1>1
<1> HIDE DEF y
<1>3. (u \o v) \o y = u \o (v \o y)
  BY <1>2, Associates
<1> QED
  BY <1>1, <1>3 DEF y

LEMMA SameStart ==
    ASSUME NEW a \in Seq(Bytes), NEW b \in Seq(Bytes),
           NEW x \in Seq(Bytes), NEW y \in Seq(Bytes),
           Len(a) = Len(b), Joined(a, x) = Joined(b, y)
    PROVE  a = b /\ x = y
<1>0. a \o x = b \o y
  BY DEF Joined
<1>1. ASSUME NEW i \in 1 .. Len(a)
      PROVE  a[i] = b[i]
  <2>1. (a \o x)[i] = a[i] /\ (b \o y)[i] = b[i]
    BY ConcatProperties
  <2> QED
    BY <1>0, <2>1
<1>2. a = b
  BY <1>1
<1>3. a \o x = a \o y
  BY <1>0, <1>2
<1> QED
  BY <1>2, <1>3, ConcatSimplifications

-----------------------------------------------------------------------------
(***************************************************************************)
(* Types.                                                                  *)
(***************************************************************************)
LEMMA EncodeType ==
    ASSUME NEW payload \in Payloads
    PROVE  /\ payload \in Seq(Bytes)
           /\ Len(payload) \in Nat /\ Len(payload) < Place[Digits]
           /\ Header(Len(payload)) \in Seq(Bytes) /\ Len(Header(Len(payload))) = Digits
           /\ encode(payload) \in Seq(Bytes)
<1>1. payload \in Seq(Bytes) /\ Len(payload) < Place[Digits]
  BY FramingAssumption DEF FramingAssumption, Bytes
<1>2. Len(payload) \in Nat
  BY <1>1
<1>3. Header(Len(payload)) \in Seq(Bytes) /\ Len(Header(Len(payload))) = Digits
  BY <1>2, HeaderType
<1> QED
  BY <1>1, <1>2, <1>3, ConcatProperties DEF encode

LEMMA LimitType == MaxLength \in Nat \ {0} /\ MaxLength < Place[Digits]
<1>1. MaxLength \in 1 .. Place[Digits] - 1 /\ Digits \in 0 .. Digits
  BY FramingAssumption DEF FramingAssumption
<1>2. Place[Digits] \in Nat
  BY <1>1, PlaceType
<1> QED
  BY <1>1, <1>2

LEMMA TypeInit == Init => TypeOK
<1>1. <<>> \in Seq(Payloads) /\ <<>> \in Seq(Bytes) /\ <<>> \in Seq(Seq(Bytes))
  OBVIOUS
<1>2. 0 \in 0 .. MaxLength
  BY LimitType
<1> QED
  BY <1>1, <1>2 DEF Init, TypeOK

LEMMA TypeStep == TypeOK /\ [Next]_vars => TypeOK'
<1> SUFFICES ASSUME TypeOK, [Next]_vars
             PROVE  TypeOK'
  OBVIOUS
<1>1. ASSUME NEW payload \in Payloads, Write(payload)
      PROVE  TypeOK'
  BY <1>1, EncodeType, AppendProperties DEF Write, TypeOK
<1>2. CASE Send
  <2>1. PICK n \in 1 .. Len(frame) :
           wire' = wire \o SubSeq(frame, 1, n) /\ frame' = SubSeq(frame, n + 1, Len(frame))
    BY <1>2 DEF Send, Unsent
  <2>2. frame \in Seq(Bytes) /\ wire \in Seq(Bytes) /\ n \in 0 .. Len(frame)
    BY DEF TypeOK
  <2>3. wire' \in Seq(Bytes) /\ frame' \in Seq(Bytes)
    BY <2>1, <2>2, Cut, ConcatProperties
  <2> QED
    BY <1>2, <2>3 DEF Send, TypeOK
<1>3. CASE GoDown
  BY <1>3 DEF GoDown, TypeOK
<1>4. CASE Recv
  <2>1. PICK n \in 1 .. Least(Missing, Len(wire)) :
           buffer' = buffer \o SubSeq(wire, 1, n) /\ wire' = SubSeq(wire, n + 1, Len(wire))
    BY <1>4 DEF Recv
  <2>2. buffer \in Seq(Bytes) /\ wire \in Seq(Bytes) /\ length \in Nat /\ Digits \in Nat
    BY FramingAssumption DEF TypeOK, FramingAssumption
  <2>3. n \in 0 .. Len(wire)
    BY <2>2 DEF Least, Missing, Wanted
  <2>4. wire' \in Seq(Bytes) /\ buffer' \in Seq(Bytes)
    BY <2>1, <2>2, <2>3, Cut, ConcatProperties
  <2> QED
    BY <1>4, <2>4 DEF Recv, TypeOK
<1>5. CASE RecvFails
  BY <1>5 DEF RecvFails, TypeOK
<1>6. CASE HeaderRead
  <2>1. Decode(buffer) \in Nat
    <3>1. buffer \in Seq(Bytes)
      BY DEF TypeOK
    <3> QED
      BY <3>1, DecodeType
  <2>2. length' \in 0 .. MaxLength
    BY <1>6, <2>1 DEF HeaderRead, Acceptable, TypeOK
  <2>3. <<>> \in Seq(Bytes)
    OBVIOUS
  <2> QED
    BY <1>6, <2>2, <2>3 DEF HeaderRead, TypeOK
<1>7. CASE PayloadRead
  <2>1. received \in Seq(Seq(Bytes)) /\ buffer \in Seq(Bytes) /\ <<>> \in Seq(Bytes)
    BY DEF TypeOK
  <2>2. received' \in Seq(Seq(Bytes))
    BY <1>7, <2>1, AppendProperties DEF PayloadRead
  <2>3. 0 \in 0 .. MaxLength
    BY LimitType
  <2> QED
    BY <1>7, <2>1, <2>2, <2>3 DEF PayloadRead, TypeOK
<1>8. CASE UNCHANGED vars
  BY <1>8 DEF vars, TypeOK
<1> QED
  BY <1>1, <1>2, <1>3, <1>4, <1>5, <1>6, <1>7, <1>8 DEF Next, Writer, Reader

(***************************************************************************)
(* Every variable keeps its type; of length this says that no message      *)
(* longer than the limit is ever made room for.                            *)
(***************************************************************************)
THEOREM TypeCorrect == Spec => []TypeOK
  BY TypeInit, TypeStep, PTL DEF Spec

-----------------------------------------------------------------------------
(***************************************************************************)
(* In step: what is still to come, in the buffer, on the wire and in the   *)
(* frame being sent, is exactly the frames of the messages that were       *)
(* written and not delivered, less the header if that has been read.       *)
(***************************************************************************)
\* stream[i]: the frames of all messages after the i-th.
IsStream(stream) ==
    /\ stream \in [0 .. Len(sent) -> Seq(Bytes)]
    /\ stream[Len(sent)] = <<>>
    /\ \A i \in 1 .. Len(sent) : stream[i - 1] = encode(sent[i]) \o stream[i]

Coming == buffer \o (wire \o frame)

Arriving(stream) ==
    LET n == Len(received)
    IN  /\ state = "header"  => Coming = stream[n]
        /\ state = "payload" => /\ n < Len(sent)
                                /\ length = Len(sent[n + 1])
                                /\ ~Refused(sent[n + 1])
                                /\ Coming = sent[n + 1] \o stream[n + 1]

Delivered ==
    /\ Len(received) <= Len(sent)
    /\ \A i \in 1 .. Len(received) : received[i] = sent[i] /\ ~Refused(sent[i])

InStep ==
    /\ Delivered
    /\ state # "failed" => \E stream : IsStream(stream) /\ Arriving(stream)

LEMMA InStepInit == Init => InStep
<1> SUFFICES ASSUME Init
             PROVE  InStep
  OBVIOUS
<1> DEFINE stream == [i \in {0} |-> <<>>]
<1>1. /\ sent = <<>> /\ received = <<>> /\ state = "header"
      /\ buffer = <<>> /\ wire = <<>> /\ frame = <<>>
      /\ Len(sent) = 0 /\ Len(received) = 0
  BY DEF Init
<1>2. <<>> \in Seq(Bytes) /\ 0 .. 0 = {0} /\ 1 .. 0 = {}
  OBVIOUS
<1>3. IsStream(stream)
  BY <1>1, <1>2 DEF IsStream
<1>4. Coming = <<>>
  BY <1>1 DEF Coming
<1>5. Arriving(stream) /\ Delivered
  BY <1>1, <1>2, <1>4 DEF Arriving, Delivered
<1> QED
  BY <1>3, <1>5 DEF InStep

\* The bytes move on: the message that is read and what is to come stay.
LEMMA InStepStays ==
    ASSUME InStep,
           UNCHANGED <<sent, received>>,
           state' = "failed" \/ (UNCHANGED <<state, length>> /\ Coming' = Coming)
    PROVE  InStep'
<1>1. Delivered'
  BY DEF InStep, Delivered, Refused
<1>2. ASSUME state' # "failed"
      PROVE  \E stream : IsStream(stream)' /\ Arriving(stream)'
  <2>1. PICK stream : IsStream(stream) /\ Arriving(stream)
    BY <1>2 DEF InStep
  <2>2. IsStream(stream)' /\ Arriving(stream)'
    BY <1>2, <2>1 DEF IsStream, Arriving, Refused
  <2> QED
    BY <2>2
<1> QED
  BY <1>1, <1>2 DEF InStep

LEMMA WriteStep ==
    ASSUME TypeOK, InStep, NEW payload \in Payloads, Write(payload)
    PROVE  InStep'
<1> DEFINE m == Len(sent)
           n == Len(received)
           e == encode(payload)
<1>1. /\ frame = <<>> /\ frame' = e
      /\ sent' = Append(sent, payload)
      /\ UNCHANGED <<wire, state, buffer, length, received>>
  BY DEF Write
<1>2. /\ sent \in Seq(Payloads) /\ wire \in Seq(Bytes) /\ buffer \in Seq(Bytes)
      /\ e \in Seq(Bytes) /\ received \in Seq(Seq(Bytes))
  BY EncodeType DEF TypeOK
<1>3. /\ m \in Nat /\ n \in Nat /\ n <= m
      /\ Len(sent') = m + 1
      /\ \A i \in 1 .. m : sent'[i] = sent[i] /\ sent[i] \in Payloads
      /\ sent'[m + 1] = payload
  BY <1>1, <1>2 DEF InStep, Delivered
<1>4. Delivered'
  BY <1>1, <1>3 DEF InStep, Delivered, Refused
<1>5. ASSUME state # "failed"
      PROVE  \E stream : IsStream(stream)' /\ Arriving(stream)'
  <2>1. PICK old : IsStream(old) /\ Arriving(old)
    BY <1>5 DEF InStep
  <2> PICK new : new = [i \in 0 .. m + 1 |-> IF i = m + 1 THEN <<>> ELSE old[i] \o e]
    OBVIOUS
  <2>2. /\ \A i \in 0 .. m : old[i] \in Seq(Bytes)
        /\ old[m] = <<>>
        /\ \A i \in 1 .. m : old[i - 1] = encode(sent[i]) \o old[i]
    BY <2>1 DEF IsStream
  <2>3. ASSUME NEW i \in 0 .. m
        PROVE  new[i] = old[i] \o e /\ new[i] \in Seq(Bytes)
    <3>1. new[i] = old[i] \o e
      BY <1>3
    <3>2. old[i] \in Seq(Bytes)
      BY <2>2
    <3>3. old[i] \o e \in Seq(Bytes)
      BY <1>2, <3>2, ConcatProperties
    <3> QED
      BY <3>1, <3>3
  <2>4. new[m + 1] = <<>> /\ <<>> \in Seq(Bytes)
    BY <1>3
  <2>5. new \in [0 .. m + 1 -> Seq(Bytes)]
    <3>1. new = [i \in 0 .. m + 1 |-> new[i]]
      OBVIOUS
    <3>2. \A i \in 0 .. m + 1 : i = m + 1 \/ i \in 0 .. m
      BY <1>3
    <3> HIDE DEF e, m
    <3>3. \A i \in 0 .. m + 1 : new[i] \in Seq(Bytes)
      BY <2>3, <2>4, <3>2
    <3> QED
      BY <3>1, <3>3
  <2>6. ASSUME NEW i \in 1 .. m + 1
        PROVE  new[i - 1] = encode(sent'[i]) \o new[i]
    <3>1. CASE i = m + 1
      <4>1. i - 1 = m /\ m \in 0 .. m
        BY <1>3, <3>1
      <4>2. new[i - 1] = <<>> \o e
        BY <2>2, <2>3, <4>1
      <4>3. encode(sent'[i]) \o new[i] = e \o <<>>
        BY <1>3, <2>4, <3>1
      <4> QED
        BY <1>2, <4>2, <4>3, ConcatEmptySeq
    <3>2. CASE i \in 1 .. m
      <4>1. i - 1 \in 0 .. m /\ i \in 0 .. m
        BY <1>3, <3>2
      <4>2. /\ new[i - 1] = old[i - 1] \o e /\ new[i] = old[i] \o e
            /\ old[i - 1] = encode(sent[i]) \o old[i]
            /\ old[i] \in Seq(Bytes) /\ sent'[i] = sent[i] /\ sent[i] \in Payloads
        BY <1>3, <2>2, <2>3, <3>2, <4>1
      <4>3. encode(sent[i]) \in Seq(Bytes)
        BY <4>2, EncodeType
      <4> HIDE DEF e, m
      <4>4. (encode(sent[i]) \o old[i]) \o e = encode(sent[i]) \o (old[i] \o e)
        BY <1>2, <4>2, <4>3, Associates
      <4> QED
        BY <4>2, <4>4
    <3>3. i = m + 1 \/ i \in 1 .. m
      BY <1>3
    <3> QED
      BY <3>1, <3>2, <3>3
  <2>7. IsStream(new)'
    <3> HIDE DEF e
    <3> QED
      BY <1>3, <2>4, <2>5, <2>6 DEF IsStream
  <2>8. Coming' = Coming \o e
    <3>1. Coming = buffer \o wire /\ Coming' = buffer \o (wire \o e)
      BY <1>1, <1>2, ConcatEmptySeq DEF Coming
    <3> HIDE DEF e
    <3>2. (buffer \o wire) \o e = buffer \o (wire \o e)
      BY <1>2, Associates
    <3> QED
      BY <3>1, <3>2
  <2>9. ASSUME state = "header"
        PROVE  Coming' = new[n]
    <3>1. Coming = old[n] /\ n \in 0 .. m
      BY <1>3, <2>1, <2>9 DEF Arriving
    <3> QED
      BY <2>3, <2>8, <3>1
  <2>10. ASSUME state = "payload"
         PROVE  /\ n < m + 1
                /\ length = Len(sent'[n + 1])
                /\ ~Refused(sent'[n + 1])
                /\ Coming' = sent'[n + 1] \o new[n + 1]
    <3> DEFINE p == sent[n + 1]
    <3>1. /\ n < m /\ length = Len(p) /\ ~Refused(p)
          /\ Coming = p \o old[n + 1]
      BY <2>1, <2>10 DEF Arriving
    <3>2. n + 1 \in 1 .. m /\ n + 1 \in 0 .. m /\ n < m + 1
      BY <1>3, <3>1
    <3>3. sent'[n + 1] = p /\ p \in Payloads
      BY <1>3, <3>2
    <3>4. p \in Seq(Bytes) /\ old[n + 1] \in Seq(Bytes) /\ new[n + 1] = old[n + 1] \o e
      BY <2>2, <2>3, <3>2, <3>3, EncodeType
    <3> HIDE DEF e, m, n, p
    <3>5. (p \o old[n + 1]) \o e = p \o (old[n + 1] \o e)
      BY <1>2, <3>4, Associates
    <3> QED
      BY <2>8, <3>1, <3>2, <3>3, <3>4, <3>5
  <2>11. Arriving(new)'
    <3>1. received' = received /\ state' = state /\ length' = length /\ Len(sent') = m + 1
      BY <1>1, <1>3
    <3> QED
      BY <3>1, <2>9, <2>10 DEF Arriving, Refused
  <2> QED
    BY <2>7, <2>11
<1> QED
  BY <1>1, <1>4, <1>5 DEF InStep

LEMMA SendStep ==
    ASSUME TypeOK, InStep, Send
    PROVE  InStep'
<1>1. PICK n \in 1 .. Len(frame) :
         wire' = wire \o SubSeq(frame, 1, n) /\ frame' = SubSeq(frame, n + 1, Len(frame))
  BY DEF Send, Unsent
<1> DEFINE a == SubSeq(frame, 1, n)
           b == SubSeq(frame, n + 1, Len(frame))
<1>2. frame \in Seq(Bytes) /\ wire \in Seq(Bytes) /\ n \in 0 .. Len(frame)
  BY DEF TypeOK
<1>3. a \in Seq(Bytes) /\ b \in Seq(Bytes) /\ a \o b = frame
  BY <1>2, Cut
<1>4. wire' = wire \o a /\ frame' = b /\ UNCHANGED <<sent, state, buffer, length, received>>
  BY <1>1 DEF Send
<1> HIDE DEF a, b
<1>5. (wire \o a) \o b = wire \o (a \o b)
  BY <1>2, <1>3, Associates
<1>6. Coming' = Coming
  BY <1>3, <1>4, <1>5 DEF Coming
<1> QED
  BY <1>4, <1>6, InStepStays

LEMMA RecvStep ==
    ASSUME TypeOK, InStep, Recv
    PROVE  InStep'
<1>1. /\ buffer \in Seq(Bytes) /\ wire \in Seq(Bytes) /\ frame \in Seq(Bytes)
      /\ length \in Nat /\ Digits \in Nat
  BY FramingAssumption DEF TypeOK, FramingAssumption
<1>2. PICK a \in Seq(Bytes), b \in Seq(Bytes) :
         a \o b = wire /\ buffer' = buffer \o a /\ wire' = b
  <2>1. PICK n \in 1 .. Least(Missing, Len(wire)) :
           buffer' = buffer \o SubSeq(wire, 1, n) /\ wire' = SubSeq(wire, n + 1, Len(wire))
    BY DEF Recv
  <2>2. n \in 0 .. Len(wire)
    BY <1>1 DEF Least, Missing, Wanted
  <2> QED
    BY <1>1, <2>1, <2>2, Cut
<1>3. UNCHANGED <<sent, frame, state, length, received>>
  BY DEF Recv
<1>4. Joined(buffer, Joined(Joined(a, b), frame)) = Joined(Joined(buffer, a), Joined(b, frame))
  <2>1. /\ buffer \in Seq(Bytes) /\ a \in Seq(Bytes)
        /\ b \in Seq(Bytes) /\ frame \in Seq(Bytes)
    BY <1>1
  <2> QED
    BY <2>1, Moved
<1>5. Coming' = Coming
  BY <1>2, <1>3, <1>4 DEF Coming, Joined
<1> QED
  BY <1>3, <1>5, InStepStays

\* Once a header is complete it is the one that is due, and its length that of
\* the message after it.
LEMMA HeaderReadStep ==
    ASSUME TypeOK, InStep, HeaderRead
    PROVE  InStep'
<1> DEFINE n == Len(received)
           rest == wire \o frame
<1>1. state = "header" /\ Len(buffer) = Digits /\ buffer' = <<>>
      /\ UNCHANGED <<sent, frame, wire, received>>
  BY DEF HeaderRead
<1>2. /\ buffer \in Seq(Bytes) /\ wire \in Seq(Bytes) /\ frame \in Seq(Bytes)
      /\ sent \in Seq(Payloads) /\ n \in Nat /\ Len(sent) \in Nat
      /\ Digits \in Nat \ {0}
  BY FramingAssumption DEF TypeOK, FramingAssumption
<1>3. rest \in Seq(Bytes)
  BY <1>2, ConcatProperties
<1>4. PICK stream : IsStream(stream) /\ Arriving(stream)
  BY <1>1 DEF InStep
<1>5. buffer \o rest = stream[n] /\ n <= Len(sent)
  BY <1>1, <1>4 DEF Arriving, Coming, InStep, Delivered
<1>6. n < Len(sent)
  <2> SUFFICES ASSUME n = Len(sent)
               PROVE  FALSE
    BY <1>2, <1>5
  <2>1. buffer \o rest = <<>>
    BY <1>4, <1>5 DEF IsStream
  <2> HIDE DEF rest
  <2>2. Len(buffer \o rest) = Len(buffer) + Len(rest) /\ Len(rest) \in Nat
    BY <1>2, <1>3, ConcatProperties
  <2>3. Len(<<>>) = 0
    OBVIOUS
  <2> QED
    BY <1>1, <1>2, <2>1, <2>2, <2>3
<1> DEFINE p == sent[n + 1]
<1>7. n + 1 \in 1 .. Len(sent) /\ p \in Payloads
  BY <1>2, <1>6
<1>8. /\ p \in Seq(Bytes) /\ Len(p) \in Nat /\ Len(p) < Place[Digits]
      /\ Header(Len(p)) \in Seq(Bytes) /\ Len(Header(Len(p))) = Digits
  BY <1>7, EncodeType
<1>9. stream[n] = (Header(Len(p)) \o p) \o stream[n + 1] /\ stream[n + 1] \in Seq(Bytes)
  <2>1. (n + 1) - 1 = n /\ n + 1 \in 0 .. Len(sent)
    BY <1>2, <1>7
  <2> QED
    BY <1>4, <1>7, <2>1 DEF IsStream, encode
<1> HIDE DEF n, p, rest
<1>10. (Header(Len(p)) \o p) \o stream[n + 1] = Header(Len(p)) \o (p \o stream[n + 1])
  BY <1>8, <1>9, Associates
<1>11. p \o stream[n + 1] \in Seq(Bytes)
  BY <1>8, <1>9, ConcatProperties
<1> DEFINE due == p \o stream[n + 1]
<1>12. buffer = Header(Len(p)) /\ rest = p \o stream[n + 1]
  <2>1. Joined(buffer, rest) = Joined(Header(Len(p)), due)
    BY <1>5, <1>9, <1>10 DEF Joined, due
  <2>2. Len(buffer) = Len(Header(Len(p)))
    BY <1>1, <1>8
  <2>3. due \in Seq(Bytes) /\ Header(Len(p)) \in Seq(Bytes)
    BY <1>8, <1>11
  <2> HIDE DEF due
  <2>4. buffer = Header(Len(p)) /\ rest = due
    BY <1>2, <1>3, <2>1, <2>2, <2>3, SameStart
  <2> QED
    BY <2>4 DEF due
<1>13. Decode(buffer) = Len(p)
  BY <1>8, <1>12, HeaderDecodes
<1>14. MaxLength \in Nat \ {0}
  BY LimitType
<1>15. Delivered'
  BY <1>1 DEF InStep, Delivered, Refused
<1>16. CASE Acceptable(Decode(buffer))
  <2>1. state' = "payload" /\ length' = Len(p)
    BY <1>13, <1>16 DEF HeaderRead
  <2>2. ~Refused(p)
    BY <1>8, <1>13, <1>14, <1>16 DEF Acceptable, Refused
  <2>3. Coming' = p \o stream[n + 1]
    <3>1. Coming' = <<>> \o rest
      BY <1>1 DEF Coming, rest
    <3> QED
      BY <1>3, <1>12, <3>1, ConcatEmptySeq
  <2>4. IsStream(stream)'
    BY <1>1, <1>4 DEF IsStream
  <2>5. Arriving(stream)'
    BY <1>1, <1>6, <2>1, <2>2, <2>3 DEF Arriving, Refused, n, p
  <2> QED
    BY <1>15, <2>4, <2>5 DEF InStep
<1>17. CASE ~Acceptable(Decode(buffer))
  BY <1>15, <1>17 DEF HeaderRead, InStep
<1> QED
  BY <1>16, <1>17

LEMMA PayloadReadStep ==
    ASSUME TypeOK, InStep, PayloadRead
    PROVE  InStep'
<1> DEFINE n == Len(received)
           rest == wire \o frame
           p == sent[n + 1]
<1>1. /\ state = "payload" /\ Len(buffer) = length
      /\ received' = Append(received, buffer) /\ state' = "header" /\ buffer' = <<>>
      /\ UNCHANGED <<sent, frame, wire>>
  BY DEF PayloadRead
<1>2. /\ buffer \in Seq(Bytes) /\ wire \in Seq(Bytes) /\ frame \in Seq(Bytes)
      /\ sent \in Seq(Payloads) /\ n \in Nat /\ Len(sent) \in Nat
      /\ received \in Seq(Seq(Bytes))
  BY DEF TypeOK
<1>3. rest \in Seq(Bytes)
  BY <1>2, ConcatProperties
<1>4. PICK stream : IsStream(stream) /\ Arriving(stream)
  BY <1>1 DEF InStep
<1>5. /\ n < Len(sent) /\ length = Len(p) /\ ~Refused(p)
      /\ buffer \o rest = p \o stream[n + 1]
  BY <1>1, <1>4 DEF Arriving, Coming
<1>6. n + 1 \in 1 .. Len(sent) /\ p \in Payloads /\ n + 1 \in 0 .. Len(sent)
  BY <1>2, <1>5
<1>7. p \in Seq(Bytes) /\ stream[n + 1] \in Seq(Bytes)
  BY <1>4, <1>6, EncodeType DEF IsStream
<1>8. buffer = p /\ rest = stream[n + 1]
  <2> HIDE DEF p, rest
  <2>1. Len(buffer) = Len(p)
    BY <1>1, <1>5
  <2>2. Joined(buffer, rest) = Joined(p, stream[n + 1])
    BY <1>5 DEF Joined
  <2> QED
    BY <1>2, <1>3, <1>7, <2>1, <2>2, SameStart
<1>9. /\ Len(received') = n + 1
      /\ \A i \in 1 .. n : received'[i] = received[i]
      /\ received'[n + 1] = p
  <2> HIDE DEF p
  <2> QED
    BY <1>1, <1>2, <1>8, AppendProperties
<1>10. Delivered'
  <2>1. Len(received') <= Len(sent')
    BY <1>1, <1>2, <1>5, <1>9
  <2>2. ASSUME NEW i \in 1 .. n + 1
        PROVE  received'[i] = sent[i] /\ ~Refused(sent[i])
    <3>1. CASE i = n + 1
      BY <1>5, <1>9, <3>1
    <3>2. CASE i \in 1 .. n
      BY <1>9, <3>2 DEF InStep, Delivered
    <3>3. i = n + 1 \/ i \in 1 .. n
      BY <1>2
    <3> QED
      BY <3>1, <3>2, <3>3
  <2> QED
    BY <1>1, <1>9, <2>1, <2>2 DEF Delivered, Refused
<1>11. Coming' = stream[n + 1]
  <2>1. Coming' = <<>> \o rest
    BY <1>1 DEF Coming
  <2> HIDE DEF rest
  <2> QED
    BY <1>3, <1>8, <2>1, ConcatEmptySeq
<1>12. IsStream(stream)'
  BY <1>1, <1>4 DEF IsStream
<1>13. Arriving(stream)'
  BY <1>1, <1>9, <1>11 DEF Arriving
<1> QED
  BY <1>10, <1>12, <1>13 DEF InStep

LEMMA InStepStep == TypeOK /\ InStep /\ [Next]_vars => InStep'
<1> SUFFICES ASSUME TypeOK, InStep, [Next]_vars
             PROVE  InStep'
  OBVIOUS
<1>1. CASE GoDown
  <2>1. UNCHANGED <<sent, frame, wire, state, buffer, length, received>>
    BY <1>1 DEF GoDown
  <2> QED
    BY <2>1, InStepStays DEF Coming
<1>2. CASE RecvFails
  <2>1. UNCHANGED <<sent, received>> /\ state' = "failed"
    BY <1>2 DEF RecvFails
  <2> QED
    BY <2>1, InStepStays
<1>3. CASE UNCHANGED vars
  <2>1. UNCHANGED <<sent, frame, wire, state, buffer, length, received>>
    BY <1>3 DEF vars
  <2> QED
    BY <2>1, InStepStays DEF Coming
<1>4. ASSUME NEW payload \in Payloads, Write(payload)
      PROVE  InStep'
  BY <1>4, WriteStep
<1> QED
  BY <1>1, <1>2, <1>3, <1>4, SendStep, RecvStep, HeaderReadStep, PayloadReadStep
  DEF Next, Writer, Reader

LEMMA InStepDelivers == TypeOK /\ InStep => DeliveredInStep
<1> SUFFICES ASSUME TypeOK, InStep
             PROVE  DeliveredInStep
  OBVIOUS
<1> DEFINE n == Len(received)
<1>1. /\ sent \in Seq(Payloads) /\ received \in Seq(Seq(Bytes))
      /\ n \in Nat /\ n <= Len(sent) /\ n \in 0 .. Len(sent) /\ Len(sent) \in Nat
      /\ \A i \in 1 .. n : received[i] = sent[i] /\ ~Refused(sent[i])
  BY DEF TypeOK, InStep, Delivered
<1>2. SubSeq(received, 1, n) = SubSeq(sent, 1, n)
  <2>1. SubSeq(received, 1, n) = [i \in 1 .. n |-> received[i]]
    BY <1>1
  <2>2. SubSeq(sent, 1, n) = [i \in 1 .. n |-> sent[i]]
    BY <1>1
  <2> QED
    BY <1>1, <2>1, <2>2
<1> QED
  BY <1>1, <1>2 DEF DeliveredInStep, IsPrefix, Refused

(***************************************************************************)
(* Whatever the pieces in which bytes are sent and received, the messages  *)
(* delivered are the first ones written, whole and unchanged, and none is  *)
(* one that is refused.                                                    *)
(***************************************************************************)
THEOREM DeliveredInStepCorrect == Spec => []DeliveredInStep
<1>1. Init => TypeOK /\ InStep
  BY TypeInit, InStepInit
<1>2. TypeOK /\ InStep /\ [Next]_vars => TypeOK' /\ InStep'
  BY TypeStep, InStepStep
<1>3. TypeOK /\ InStep => DeliveredInStep
  BY InStepDelivers
<1> QED
  BY <1>1, <1>2, <1>3, PTL DEF Spec
=============================================================================

------------------------------- MODULE Framing -------------------------------
(***************************************************************************)
(* Length-prefixed framing (namespace framing in tcp_server.cpp): one      *)
(* direction of a connection, from write_message to read_message.          *)
(*                                                                         *)
(* The stream between them is a sequence of bytes that arrive in order but *)
(* in pieces of any size, and that ends anywhere when the connection does. *)
(* A byte is a number below Base, and a length has Digits of them, the     *)
(* most significant first: 256 and 4 in the code.  No payload is so long   *)
(* that its length has more (4 GB in the code, where it would be cut).     *)
(***************************************************************************)
EXTENDS Naturals, Sequences, SequencesExt

CONSTANTS
    Base,       \* values of a byte; 256 in the code
    Digits,     \* bytes of a length; 4 in the code
    MaxLength,  \* the longest message read; 10 MB in the code
    Payloads,   \* the payloads that may be written
    MaxSent     \* bound: messages written

\* What a byte counts for in a length, by its distance from the last one: Base
\* to the k, and all the lengths there are at Digits.
Place[k \in 0 .. Digits] == IF k = 0 THEN 1 ELSE Base * Place[k - 1]

ASSUME FramingAssumption ==
    /\ Base \in Nat \ {0, 1}
    /\ Digits \in Nat \ {0}
    /\ MaxLength \in 1 .. Place[Digits] - 1
    /\ \A payload \in Payloads : /\ payload \in Seq(0 .. Base - 1)
                                  /\ Len(payload) < Place[Digits]
    /\ MaxSent \in Nat

VARIABLES
    sent,       \* history: the payloads handed to write_message
    frame,      \* write_message's frame, what of it has not been sent
    wire,       \* the bytes sent and not yet received
    open,       \* the connection is up
    state,      \* where read_message is: "header", "payload" or "failed"
    buffer,     \* the bytes recv_exact has received for the present state
    length,     \* read_message's len, once the header has been read
    received    \* the messages read_message has delivered

vars == <<sent, frame, wire, open, state, buffer, length, received>>

Init ==
    /\ sent     = <<>>
    /\ frame    = <<>>
    /\ wire     = <<>>
    /\ open     = TRUE
    /\ state    = "header"
    /\ buffer   = <<>>
    /\ length   = 0
    /\ received = <<>>

-----------------------------------------------------------------------------
\* The length on the wire.
Header(n) == [i \in 1 .. Digits |-> (n \div Place[Digits - i]) % Base]

encode(payload) == Header(Len(payload)) \o payload

Decode(header) == FoldLeft(LAMBDA n, byte : Base * n + byte, 0, header)

(***************************************************************************)
(* The writer.                                                             *)
(***************************************************************************)
\* write_message is called with a payload, once it has sent the last one.
Write(payload) ==
    /\ open
    /\ frame = <<>>
    /\ Len(sent) < MaxSent
    /\ sent' = Append(sent, payload)
    /\ frame' = encode(payload)
    /\ UNCHANGED <<wire, open, state, buffer, length, received>>

\* What is left to send after send() took n bytes.  (Fault: the loop goes on as
\* if send() had taken all of them.)
FaultySendAllAssumed(n) == <<>>
Unsent(n) == SubSeq(frame, n + 1, Len(frame))

\* send() takes some of the bytes.
Send ==
    /\ open
    /\ \E n \in 1 .. Len(frame) :
          /\ wire' = wire \o SubSeq(frame, 1, n)
          /\ frame' = Unsent(n)
    /\ UNCHANGED <<sent, open, state, buffer, length, received>>

\* The connection goes down: what has been sent may still be received.
GoDown ==
    /\ open
    /\ open' = FALSE
    /\ UNCHANGED <<sent, frame, wire, state, buffer, length, received>>

(***************************************************************************)
(* The reader.                                                             *)
(***************************************************************************)
Wanted == IF state = "header" THEN Digits ELSE length

\* What recv() is asked for.
Missing == Wanted - Len(buffer)

Least(m, n) == IF m <= n THEN m ELSE n

\* recv() returns some of the bytes asked for.
Recv ==
    /\ state # "failed"
    /\ Len(buffer) < Wanted
    /\ \E n \in 1 .. Least(Missing, Len(wire)) :
          /\ buffer' = buffer \o SubSeq(wire, 1, n)
          /\ wire' = SubSeq(wire, n + 1, Len(wire))
    /\ UNCHANGED <<sent, frame, open, state, length, received>>

\* recv() returns 0 or an error: the stream has ended.
RecvFails ==
    /\ state # "failed"
    /\ Len(buffer) < Wanted
    /\ wire = <<>>
    /\ ~open
    /\ state' = "failed"
    /\ UNCHANGED <<sent, frame, wire, open, buffer, length, received>>

\* The limits on a length.  (Faults: zero is let through; the upper limit itself
\* is refused; there is no upper limit.)
FaultyZeroAccepted(n) == n <= MaxLength
FaultyLimitRefused(n) == n > 0 /\ n < MaxLength
FaultyUnlimited(n) == n > 0
Acceptable(n) == n > 0 /\ n <= MaxLength

\* The header is complete: the buffer becomes as long as the message.
HeaderRead ==
    /\ state = "header"
    /\ Len(buffer) = Digits
    /\ IF Acceptable(Decode(buffer))
         THEN state' = "payload" /\ length' = Decode(buffer)
         ELSE state' = "failed" /\ UNCHANGED length
    /\ buffer' = <<>>
    /\ UNCHANGED <<sent, frame, wire, open, received>>

\* The message is complete: it is delivered, and read_message called again.
PayloadRead ==
    /\ state = "payload"
    /\ Len(buffer) = length
    /\ received' = Append(received, buffer)
    /\ state' = "header"
    /\ buffer' = <<>>
    /\ length' = 0
    /\ UNCHANGED <<sent, frame, wire, open>>

-----------------------------------------------------------------------------
Writer == Send \/ \E payload \in Payloads : Write(payload)
Reader == Recv \/ RecvFails \/ HeaderRead \/ PayloadRead

Next == Writer \/ Reader \/ GoDown

\* Both loops go on while they can.  Nothing makes a message be written, and
\* nothing takes the connection down.
Spec == Init /\ [][Next]_vars /\ WF_vars(Send) /\ WF_vars(Reader)

-----------------------------------------------------------------------------
Bytes == 0 .. Base - 1

TypeOK ==
    /\ sent     \in Seq(Payloads)
    /\ frame    \in Seq(Bytes)
    /\ wire     \in Seq(Bytes)
    /\ open     \in BOOLEAN
    /\ state    \in {"header", "payload", "failed"}
    /\ buffer   \in Seq(Bytes)
    /\ length   \in 0 .. MaxLength
    /\ received \in Seq(Seq(Bytes))

\* The messages that will be refused, and the first of them.
Refused(payload) == Len(payload) \notin 1 .. MaxLength

(***************************************************************************)
(* Whatever the pieces in which bytes are sent and received, the messages  *)
(* delivered are the first ones written, whole and unchanged, and none     *)
(* after one that is refused: the reader is never out of step with the     *)
(* frames.                                                                 *)
(***************************************************************************)
DeliveredInStep ==
    /\ IsPrefix(received, sent)
    /\ \A i \in 1 .. Len(received) : ~Refused(received[i])

(***************************************************************************)
(* A message within the limits that follows only such messages arrives,    *)
(* unless the connection goes down.                                        *)
(***************************************************************************)
AllArrive ==
    \A k \in 1 .. MaxSent :
        Len(sent) >= k /\ (\A i \in 1 .. k : ~Refused(sent[i]))
            ~> Len(received) >= k \/ ~open

(***************************************************************************)
(* A message outside of the limits ends the conversation: the reader fails *)
(* and never reads on, unless the connection goes down first.              *)
(***************************************************************************)
RefusalEnds ==
    (\E i \in 1 .. Len(sent) : Refused(sent[i])) ~> state = "failed" \/ ~open
=============================================================================

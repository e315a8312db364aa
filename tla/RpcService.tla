----------------------------- MODULE RpcService -----------------------------
(***************************************************************************)
(* What the plugin promises to the clients of its connections, without     *)
(* threads, queue, promises or timer.  Each connection has at most one     *)
(* call open.  Calls begin in the order of their submission, each once at  *)
(* most.  A call may begin while another one runs; then it ends before     *)
(* that one goes on.  A call ends with one reply to its client: it is      *)
(* refused and never submitted, or it is answered after its execution, or  *)
(* it expires before its execution has an answer.  An expired call is      *)
(* still executed, and its answer goes nowhere.  At the end of the plugin  *)
(* calls are dismissed instead of executed.                                *)
(***************************************************************************)
EXTENDS Naturals, Sequences

CONSTANT Clients

VARIABLES
    calls,     \* the calls submitted, in order
    begun,     \* how many of them have begun: a prefix of calls
    running,   \* the calls that have begun and not ended, the innermost last
    replies    \* replies[c]: how each call of c ended for its client

vars == <<calls, begun, running, replies>>

Call(c) == [client |-> c, seq |-> Len(replies[c]) + 1]

\* The places at which the present call of c has been submitted.
Open(c) == {i \in 1 .. Len(calls) : calls[i] = Call(c)}

Executed(i) == i <= begun /\ \A j \in 1 .. Len(running) : running[j] # calls[i]

Init ==
    /\ calls = <<>>
    /\ begun = 0
    /\ running = <<>>
    /\ replies = [c \in Clients |-> <<>>]

Reply(c, kind) ==
    /\ replies' = [replies EXCEPT ![c] = Append(@, kind)]
    /\ UNCHANGED <<calls, begun, running>>

Refuse(c) == Open(c) = {} /\ Reply(c, "refused")

Submit(c) ==
    /\ Open(c) = {}
    /\ calls' = Append(calls, Call(c))
    /\ UNCHANGED <<begun, running, replies>>

Begin ==
    /\ begun < Len(calls)
    /\ begun' = begun + 1
    /\ running' = Append(running, calls[begun + 1])
    /\ UNCHANGED <<calls, replies>>

End ==
    /\ running # <<>>
    /\ running' = SubSeq(running, 1, Len(running) - 1)
    /\ UNCHANGED <<calls, begun, replies>>

Dismiss ==
    /\ begun < Len(calls)
    /\ running = <<>>
    /\ begun' = begun + 1
    /\ UNCHANGED <<calls, running, replies>>

Answer(c) == (\E i \in Open(c) : Executed(i)) /\ Reply(c, "answered")
Expire(c) == (\E i \in Open(c) : ~Executed(i)) /\ Reply(c, "expired")

Next ==
    \/ Begin \/ End \/ Dismiss
    \/ \E c \in Clients : Refuse(c) \/ Submit(c) \/ Answer(c) \/ Expire(c)

Spec == Init /\ [][Next]_vars
=============================================================================

----------------------- MODULE CommandPipelineProofs -----------------------
(***************************************************************************)
(* Safety of CommandPipeline for every set of clients, documents and       *)
(* registered methods, every number of requests and every batch size:      *)
(* types and order; which promise, wait and command belong together; what  *)
(* a client is told; and the refinement of RpcService.                     *)
(***************************************************************************)
EXTENDS CommandPipeline, SequenceTheorems, TLAPS

\* Spec without its fairness, which no argument here needs: all this module
\* proves holds of the part in the plugin too, which takes these steps only.
Steps == Init /\ [][Next]_vars

-----------------------------------------------------------------------------
(***************************************************************************)
(* Sequences as stacks: the last element, and what Append, Front and an    *)
(* update of the last element make of a sequence.                          *)
(***************************************************************************)
LEMMA LastOf ==
    ASSUME NEW S, NEW s \in Seq(S), s # <<>>
    PROVE  /\ Len(s) \in Nat /\ Len(s) \in 1 .. Len(s)
           /\ Last(s) = s[Len(s)]
           /\ Last(s) \in S
BY LenProperties DEF Last

LEMMA AppendOf ==
    ASSUME NEW S, NEW s \in Seq(S), NEW e \in S
    PROVE  /\ Append(s, e) \in Seq(S)
           /\ Append(s, e) # <<>>
           /\ Len(s) \in Nat
           /\ Len(Append(s, e)) = Len(s) + 1
           /\ \A i \in 1 .. Len(s) : Append(s, e)[i] = s[i]
           /\ Append(s, e)[Len(s) + 1] = e
<1>1. /\ Append(s, e) \in Seq(S)
      /\ Len(s) \in Nat
      /\ Len(Append(s, e)) = Len(s) + 1
      /\ \A i \in 1 .. Len(s) : Append(s, e)[i] = s[i]
      /\ Append(s, e)[Len(s) + 1] = e
  BY AppendProperties, LenProperties
<1>2. Len(<<>>) = 0
  BY EmptySeq
<1> QED
  BY <1>1, <1>2

LEMMA FrontOf ==
    ASSUME NEW S, NEW s \in Seq(S), s # <<>>
    PROVE  /\ Front(s) \in Seq(S)
           /\ Len(s) \in Nat
           /\ Len(Front(s)) = Len(s) - 1
           /\ \A i \in 1 .. Len(s) - 1 : Front(s)[i] = s[i]
<1>1. Len(s) \in Nat /\ \A i \in 1 .. Len(s) - 1 : s[i] \in S
  BY LenProperties
<1>2. Len(s) # 0
  BY EmptySeq, LenProperties
<1> DEFINE n == Len(s) - 1
<1>3. n \in Nat /\ n - 1 + 1 = n /\ 1 \in Nat \ {0}
  BY <1>1, <1>2
<1>4. Front(s) = SubSeq(s, 1, n)
  BY DEF Front
<1>5. /\ SubSeq(s, 1, n) \in Seq(S)
      /\ Len(SubSeq(s, 1, n)) = n
      /\ \A i \in 1 .. n : SubSeq(s, 1, n)[i] = s[i]
  BY <1>1, <1>3, SubSeqProperties
<1> QED
  BY <1>1, <1>4, <1>5

LEMMA UpdateOf ==
    ASSUME NEW S, NEW s \in Seq(S), s # <<>>, NEW e \in S
    PROVE  /\ [s EXCEPT ![Len(s)] = e] \in Seq(S)
           /\ Len([s EXCEPT ![Len(s)] = e]) = Len(s)
           /\ \A i \in 1 .. Len(s) - 1 : [s EXCEPT ![Len(s)] = e][i] = s[i]
<1>1. Len(s) \in 1 .. Len(s) /\ Len(s) \in Nat
  BY LastOf
<1> QED
  BY <1>1, ExceptSeq

(***************************************************************************)
(* The head of the second part of a concatenation can move to the end of   *)
(* the first.                                                              *)
(***************************************************************************)
LEMMA MoveHead ==
    ASSUME NEW S, NEW s \in Seq(S), NEW t \in Seq(S), t # <<>>
    PROVE  /\ Append(s, Head(t)) \o Tail(t) = s \o t
           /\ Head(t) \in S
           /\ Tail(t) \in Seq(S)
OBVIOUS

LEMMA FirstElement ==
    ASSUME NEW S, NEW s \in Seq(S), s # <<>>
    PROVE  s[1] \in S
OBVIOUS

(***************************************************************************)
(* What parse_request returns for a payload a client may send.             *)
(***************************************************************************)
LEMMA RequestType ==
    ASSUME NEW c \in Clients, NEW d \in Parsed,
           Turn(c) \in Nat
    PROVE  /\ Request(c, d).id \in Nat
           /\ Request(c, d).error = 0 => Request(c, d).method \in STRING
           /\ Request(c, d).error # 0 =>
                 /\ Request(c, d).error \in {ERR_PARSE, ERR_INVALID_REQ}
                 /\ Request(c, d).id = Null
<1>1. d \in [form : Forms, jsonrpc : STRING, method : STRING,
             id : {"given", "absent"}]
  BY DocumentsAssumption DEF DocumentsAssumption, Parsed
<1> DEFINE raw == Raw(d, Turn(c))
<1>2. raw.method \in STRING /\ raw.id \in Nat
  BY <1>1 DEF Raw, Null
<1>3. Request(c, d) = parse_request(raw)
  BY DEF Request
<1> HIDE DEF raw
<1>4. \/ Request(c, d) = Refusal(ERR_PARSE)
      \/ Request(c, d) = Refusal(ERR_INVALID_REQ)
      \/ Request(c, d) = Valid(raw.method, raw.id)
  BY <1>3 DEF parse_request
<1>5. ERR_PARSE # 0 /\ ERR_INVALID_REQ # 0
  BY DEF ERR_PARSE, ERR_INVALID_REQ
<1> QED
  BY <1>2, <1>4, <1>5 DEF Refusal, Valid, Null

LEMMA CommandType ==
    ASSUME NEW c \in Clients, NEW d \in Parsed,
           Turn(c) \in 1 .. MaxRequests, MaxRequests \in Nat,
           Request(c, d).error = 0
    PROVE  /\ CommandOf(c, d) \in Command
           /\ CommandOf(c, d).client = c
           /\ CommandOf(c, d).seq = Turn(c)
  BY RequestType DEF CommandOf, Command

-----------------------------------------------------------------------------
(***************************************************************************)
(* Type correctness needs to know that every callback in progress holds a  *)
(* command and has room in its batch, but for the innermost one between    *)
(* two commands, that there is none when the main thread is elsewhere, and *)
(* that a thread waits only for a request within the bound.                *)
(***************************************************************************)
Holds == main \in {"dispatch", "reply"}

Callbacks ==
    main # "crashed" =>
        /\ Len(taken) = IF main = "loop" THEN Len(hand) + 1 ELSE Len(hand)
        /\ Holds => hand # <<>>
        /\ ~Holds /\ main # "loop" => hand = <<>>
        /\ \A j \in 1 .. Len(hand) : taken[j] < TickBatch

Control ==
    /\ Callbacks
    /\ main = "reply" => response \in Response
    /\ \A c \in Clients : awaiting[c] # <<>> => Turn(c) \in 1 .. MaxRequests

TypeInv == TypeOK /\ Control

\* An exception that nobody catches ends the process.
Escapes == DispatchEscapes \/ \E c \in Clients : Escape(c)

LEMMA TypeInit == Init => TypeInv
  BY MaxRequestsAssumption, TickBatchAssumption
  DEF Init, TypeInv, TypeOK, Control, Callbacks, Holds, MaxRequestsAssumption,
      TickBatchAssumption

LEMMA TypeStep == TypeInv /\ [Next]_vars => TypeInv'
<1> SUFFICES ASSUME TypeInv, [Next]_vars
             PROVE  TypeInv'
  OBVIOUS
<1>a. MaxRequests \in Nat /\ TickBatch \in Nat \ {0}
  BY MaxRequestsAssumption, TickBatchAssumption
  DEF MaxRequestsAssumption, TickBatchAssumption
<1>b. \A c \in Clients : Turn(c) \in Nat \ {0}
  BY DEF TypeInv, TypeOK, Turn
<1> USE <1>a DEF TypeInv, TypeOK, Control
<1>1. ASSUME NEW c \in Clients, Refuse(c)
      PROVE  TypeInv'
  <2>1. PICK d \in Parsed : /\ Request(c, d).error # 0
                               /\ Return(c, make_error(Request(c, d).id, Request(c, d).error))
    BY <1>1 DEF Refuse, RefuseRequest
  <2>2. make_error(Request(c, d).id, Request(c, d).error) \in Response
    BY <1>b, <2>1, RequestType DEF make_error, Response, Codes
  <2>3. replies' \in [Clients -> Seq(Response)]
    BY <2>1, <2>2 DEF Return
  <2>4. \A b \in Clients : awaiting[b] # <<>> => Turn(b)' = Turn(b)
    BY <1>1, <2>1 DEF Refuse, CanHandle, Return, Turn
  <2> QED
    BY <1>1, <2>3, <2>4 DEF Refuse, RefuseRequest, Callbacks, Holds
<1>2. ASSUME NEW c \in Clients, Push(c)
      PROVE  TypeInv'
  <2>1. PICK d \in Parsed :
           /\ Request(c, d).error = 0
           /\ queue' = Append(queue, CommandOf(c, d))
           /\ awaiting' = [awaiting EXCEPT ![c] = <<CommandOf(c, d)>>]
           /\ pushed' = Append(pushed, CommandOf(c, d))
    BY <1>2 DEF Push, PushRequest, Enqueue
  <2>2. Turn(c) \in 1 .. MaxRequests
    BY <1>2, <1>b DEF Push, CanHandle
  <2>3. CommandOf(c, d) \in Command
    BY <2>1, <2>2, CommandType
  <2>4. replies' = replies
    BY <1>2 DEF Push, PushRequest
  <2>5. \A b \in Clients : Turn(b)' = Turn(b)
    BY <2>4 DEF Turn
  <2>6. /\ queue' \in Seq(Command)
        /\ pushed' \in Seq(Command)
        /\ awaiting' \in [Clients -> Seq(Command)]
    BY <2>1, <2>3
  <2>7. \A b \in Clients : awaiting'[b] # <<>> => Turn(b)' \in 1 .. MaxRequests
    BY <2>1, <2>2, <2>5
  <2>8. UNCHANGED <<promise, replies, main, taken, hand, response, popped>>
    BY <1>2 DEF Push, PushRequest
  <2>9. TypeOK'
    BY <2>6, <2>8
  <2>10. Control'
    BY <2>7, <2>8 DEF Callbacks, Holds
  <2> QED
    BY <2>9, <2>10
<1>3. ASSUME NEW c \in Clients, NEW r \in Response, awaiting[c] # <<>>, StopWaiting(c, r)
      PROVE  TypeInv'
  <2>1. replies' \in [Clients -> Seq(Response)]
    BY <1>3 DEF StopWaiting, Return
  <2>2. \A b \in Clients : awaiting'[b] # <<>> => awaiting[b] # <<>> /\ Turn(b)' = Turn(b)
    BY <1>3 DEF StopWaiting, Return, Turn
  <2>3. /\ awaiting' \in [Clients -> Seq(Command)]
        /\ UNCHANGED <<queue, promise, main, taken, hand, response, pushed, popped>>
    BY <1>3 DEF StopWaiting
  <2>4. TypeOK'
    BY <2>1, <2>3
  <2>5. Control'
    BY <2>2, <2>3 DEF Callbacks, Holds
  <2> QED
    BY <2>4, <2>5
<1>4. ASSUME NEW c \in Clients, FutureReady(c)
      PROVE  TypeInv'
  <2>1. promise[c][Turn(c)] \in Response
    BY <1>4 DEF FutureReady, Waiting, Ready
  <2> QED
    BY <1>3, <1>4, <2>1 DEF FutureReady, Waiting
<1>5. ASSUME NEW c \in Clients, WaitTimeout(c)
      PROVE  TypeInv'
  <2>1. awaiting[c] \in Seq(Command) /\ awaiting[c] # <<>>
    BY <1>5 DEF WaitTimeout, Waiting
  <2>2. awaiting[c][1].id \in Nat
    BY <2>1, FirstElement, Zenon DEF Command
  <2>3. make_error(awaiting[c][1].id, ERR_TIMEOUT) \in Response
    BY <2>2 DEF make_error, Response, Codes
  <2> QED
    BY <1>3, <1>5, <2>1, <2>3 DEF WaitTimeout
<1>6. CASE TimerFires
  <2>1. taken \in Seq(0 .. TickBatch) /\ 0 \in 0 .. TickBatch
    OBVIOUS
  <2>2. taken' = Append(taken, 0)
    BY <1>6 DEF TimerFires
  <2>3. /\ taken' \in Seq(0 .. TickBatch)
        /\ Len(taken') = Len(taken) + 1
        /\ \A j \in 1 .. Len(taken) : taken'[j] = taken[j]
    BY <2>1, <2>2, AppendOf
  <2>4. Len(taken) = Len(hand) /\ main' = "loop"
    BY <1>6 DEF TimerFires, Callbacks, Holds
  <2>5. Callbacks'
    BY <1>6, <2>3, <2>4 DEF TimerFires, Callbacks, Holds
  <2> QED
    BY <1>6, <2>3, <2>5 DEF TimerFires, Turn
<1>7. CASE TryPop
  <2>1. Head(queue) \in Command /\ queue' \in Seq(Command)
    BY <1>7, MoveHead DEF TryPop, HasWork, Popped
  <2>2. /\ hand' \in Seq(Command) /\ hand' # <<>>
        /\ Len(hand') = Len(hand) + 1
        /\ Len(hand) \in Nat
        /\ popped' \in Seq(Command)
    <3>1. /\ hand' = Append(hand, Head(queue)) /\ popped' = Append(popped, Head(queue))
          /\ hand \in Seq(Command) /\ popped \in Seq(Command)
      BY <1>7 DEF TryPop
    <3> HIDE DEF TypeInv, TypeOK, Control
    <3> QED
      BY <2>1, <3>1, AppendOf
  <2>3. Len(taken) = Len(hand) + 1 /\ taken' = taken /\ main' = "dispatch"
    BY <1>7 DEF TryPop, Callbacks
  <2>4. taken[Len(taken)] < TickBatch
    BY <1>7 DEF TryPop, InBatch, Last
  <2>5. Callbacks'
    BY <1>7, <2>2, <2>3, <2>4 DEF TryPop, Callbacks, Holds
  <2> QED
    BY <1>7, <2>1, <2>2, <2>5 DEF TryPop, Turn
<1>8. CASE TickEnds
  <2>1. Len(taken) = Len(hand) + 1 /\ Len(hand) \in Nat /\ taken' = Front(taken)
    BY <1>8 DEF TickEnds, Callbacks
  <2>2. taken # <<>>
    BY <2>1
  <2>3. /\ taken' \in Seq(0 .. TickBatch)
        /\ Len(taken') = Len(hand)
        /\ \A j \in 1 .. Len(hand) : taken'[j] = taken[j]
    <3>1. taken \in Seq(0 .. TickBatch)
      OBVIOUS
    <3> HIDE DEF TypeInv, TypeOK, Control
    <3>2. /\ taken' \in Seq(0 .. TickBatch)
          /\ Len(taken') = Len(taken) - 1
          /\ \A j \in 1 .. Len(taken) - 1 : taken'[j] = taken[j]
      BY <2>1, <2>2, <3>1, FrontOf
    <3> QED
      BY <2>1, <3>2
  <2>4. hand = <<>> <=> main' = "idle"
    BY <1>8 DEF TickEnds
  <2>5. Callbacks'
    BY <1>8, <2>3, <2>4 DEF TickEnds, Callbacks, Holds
  <2> QED
    BY <1>8, <2>3, <2>5 DEF TickEnds, Turn
<1>9. CASE Dispatch
  <2>1. Last(hand) \in Command
    BY <1>9, LastOf DEF Dispatch, Callbacks, Holds
  <2>2. Outcomes(Last(hand)) \subseteq Response
    BY <2>1 DEF Outcomes, make_result, make_error, Response, Codes, Command
  <2>3. Callbacks'
    BY <1>9 DEF Dispatch, Callbacks, Holds
  <2> QED
    BY <1>9, <2>2, <2>3 DEF Dispatch, Turn
<1>10. CASE Escapes
  BY <1>10 DEF Escapes, DispatchEscapes, Escape, RequestEscapes, Turn, Callbacks
<1>11. CASE SetValue
  <2>1. hand # <<>> /\ Len(taken) = Len(hand) /\ Len(hand) \in Nat
    BY <1>11 DEF SetValue, Callbacks, Holds
  <2>2. Last(hand) \in Command
    BY <2>1, LastOf
  <2>3. promise' \in [Clients -> [1 .. MaxRequests -> Response \cup {Unset}]]
    BY <1>11, <2>2 DEF SetValue, SetPromise, Current, Command
  <2>4. /\ hand' \in Seq(Command)
        /\ Len(hand') = Len(hand) - 1
    <3>1. hand' = Front(hand) /\ hand \in Seq(Command)
      BY <1>11 DEF SetValue
    <3> HIDE DEF TypeInv, TypeOK, Control
    <3> QED
      BY <2>1, <3>1, FrontOf
  <2>5. taken # <<>> /\ taken \in Seq(0 .. TickBatch) /\ Len(hand) \in 1 .. Len(hand)
    BY <2>1, LastOf
  <2>6. taken[Len(taken)] + 1 \in 0 .. TickBatch
    <3>1. \A j \in 1 .. Len(hand) : taken[j] < TickBatch
      BY <1>11 DEF SetValue, Callbacks
    <3>2. taken[Len(taken)] \in 0 .. TickBatch
      BY <2>1, <2>5, LenProperties
    <3> HIDE DEF TypeInv, TypeOK, Control
    <3> QED
      BY <2>1, <2>5, <3>1, <3>2
  <2>7. /\ taken' \in Seq(0 .. TickBatch)
        /\ Len(taken') = Len(taken)
        /\ \A j \in 1 .. Len(taken) - 1 : taken'[j] = taken[j]
    <3>1. taken' = [taken EXCEPT ![Len(taken)] = taken[Len(taken)] + 1]
      BY <1>11 DEF SetValue
    <3> HIDE DEF TypeInv, TypeOK, Control
    <3> QED
      BY <2>5, <2>6, <3>1, UpdateOf
  <2>8. main' = "loop"
    BY <1>11 DEF SetValue
  <2>9. Callbacks'
    <3>1. \A j \in 1 .. Len(hand) : taken[j] < TickBatch
      BY <1>11 DEF SetValue, Callbacks
    <3>2. \A j \in 1 .. Len(hand') : j \in 1 .. Len(hand) /\ j \in 1 .. Len(taken) - 1
      BY <2>1, <2>4
    <3>3. Len(taken') = Len(hand') + 1
      BY <2>1, <2>4, <2>7
    <3> HIDE DEF TypeInv, TypeOK, Control
    <3> QED
      BY <2>7, <2>8, <3>1, <3>2, <3>3 DEF Callbacks, Holds
  <2>10. UNCHANGED <<queue, awaiting, replies, pushed, popped>> /\ response' = Unset
    BY <1>11 DEF SetValue
  <2>11. TypeOK'
    BY <2>3, <2>4, <2>7, <2>8, <2>10
  <2> QED
    BY <2>8, <2>9, <2>10, <2>11 DEF Turn
<1>12. CASE UnregisterTimer
  BY <1>12 DEF UnregisterTimer, Turn, Callbacks, Holds
<1>13. CASE ServerStopped
  BY <1>13 DEF ServerStopped, EnterDrain, Turn, Callbacks, Holds
<1>14. CASE Drain
  <2>1. Head(queue) \in Command /\ queue' \in Seq(Command)
    BY <1>14, MoveHead DEF Drain, HasWork, Popped
  <2>2. make_error(Head(queue).id, ERR_TIMEOUT) \in Response
    BY <2>1 DEF make_error, Response, Codes, Command
  <2>3. promise' \in [Clients -> [1 .. MaxRequests -> Response \cup {Unset}]]
    BY <1>14, <2>1, <2>2 DEF Drain, SetPromise, Command
  <2>4. popped' \in Seq(Command)
    BY <1>14, <2>1, AppendOf DEF Drain
  <2>5. UNCHANGED <<awaiting, replies, main, taken, hand, response, pushed>>
    BY <1>14 DEF Drain
  <2> QED
    BY <2>1, <2>3, <2>4, <2>5 DEF Turn, Callbacks, Holds
<1>15. CASE DrainEnds
  BY <1>15 DEF DrainEnds, Turn, Callbacks, Holds
<1>16. CASE UNCHANGED vars
  BY <1>16 DEF vars, Turn, Callbacks, Holds
<1> QED
  BY <1>1, <1>2, <1>4, <1>5, <1>6, <1>7, <1>8, <1>9, <1>10, <1>11, <1>12,
     <1>13, <1>14, <1>15, <1>16 DEF Next, Callback, Unload, Client, Escapes

LEMMA TypeHolds == Steps => []TypeOK
<1>1. TypeInv => TypeOK
  BY DEF TypeInv
<1> QED
  BY <1>1, TypeInit, TypeStep, PTL DEF Steps

THEOREM TypeCorrect == Spec => []TypeOK
  BY TypeHolds, PTL DEF Spec, Steps

-----------------------------------------------------------------------------
(***************************************************************************)
(* Order.  Together with the types, InOrderOnce is inductive.              *)
(***************************************************************************)
LEMMA OrderInit == Init => InOrderOnce
  BY DEF Init, InOrderOnce

LEMMA OrderStep == TypeInv /\ InOrderOnce /\ [Next]_vars => InOrderOnce'
<1> SUFFICES ASSUME TypeInv, InOrderOnce, [Next]_vars
             PROVE  InOrderOnce'
  OBVIOUS
<1>a. queue \in Seq(Command) /\ popped \in Seq(Command) /\ pushed = popped \o queue
  BY DEF TypeInv, TypeOK, InOrderOnce
<1>1. ASSUME NEW c \in Clients, Push(c)
      PROVE  InOrderOnce'
  <2>1. PICK d \in Parsed : /\ Request(c, d).error = 0
                               /\ queue' = Append(queue, CommandOf(c, d))
                               /\ pushed' = Append(pushed, CommandOf(c, d))
    BY <1>1 DEF Push, PushRequest, Enqueue
  <2>2. MaxRequests \in Nat /\ Turn(c) \in 1 .. MaxRequests
    BY <1>1, MaxRequestsAssumption
    DEF MaxRequestsAssumption, Push, CanHandle, Turn, TypeInv, TypeOK
  <2>3. CommandOf(c, d) \in Command
    BY <2>1, <2>2, CommandType
  <2>4. popped' = popped
    BY <1>1 DEF Push, PushRequest
  <2>5. \A s, t \in Seq(Command), e \in Command : Append(s \o t, e) = s \o Append(t, e)
    OBVIOUS
  <2>6. pushed' = popped \o Append(queue, CommandOf(c, d))
    BY <1>a, <2>1, <2>3, <2>5
  <2> QED
    BY <2>1, <2>4, <2>6 DEF InOrderOnce
<1>2. CASE TryPop \/ Drain
  <2>1. /\ queue # <<>>
        /\ popped' = Append(popped, Head(queue)) /\ queue' = Tail(queue)
        /\ pushed' = pushed
    BY <1>2 DEF TryPop, Drain, HasWork, Popped
  <2>2. Append(popped, Head(queue)) \o Tail(queue) = popped \o queue
    BY <1>a, <2>1, MoveHead
  <2> QED
    BY <1>a, <2>1, <2>2 DEF InOrderOnce
<1>3. ASSUME UNCHANGED <<queue, popped, pushed>>
      PROVE  InOrderOnce'
  BY <1>3 DEF InOrderOnce
<1>4. ASSUME NEW c \in Clients, Refuse(c) \/ FutureReady(c) \/ WaitTimeout(c)
      PROVE  InOrderOnce'
  BY <1>3, <1>4 DEF Refuse, RefuseRequest, FutureReady, WaitTimeout, StopWaiting
<1>5. CASE TimerFires \/ TickEnds \/ Dispatch \/ Escapes \/ SetValue
  BY <1>3, <1>5 DEF TimerFires, TickEnds, Dispatch, Escapes, DispatchEscapes, Escape,
                    RequestEscapes, SetValue
<1>6. CASE UnregisterTimer \/ ServerStopped \/ DrainEnds
  BY <1>3, <1>6 DEF UnregisterTimer, ServerStopped, EnterDrain, DrainEnds
<1>7. CASE UNCHANGED vars
  BY <1>3, <1>7 DEF vars
<1> QED
  BY <1>1, <1>2, <1>4, <1>5, <1>6, <1>7 DEF Next, Callback, Unload, Client, Escapes

LEMMA OrderHolds == Steps => []InOrderOnce
<1> QED
  BY TypeInit, TypeStep, OrderInit, OrderStep, PTL DEF Steps

THEOREM OrderCorrect == Spec => []InOrderOnce
  BY OrderHolds, PTL DEF Spec, Steps

-----------------------------------------------------------------------------
(***************************************************************************)
(* Which promise, which wait and which command belong together: the        *)
(* invariants that relate a client thread to what the main thread does     *)
(* with its commands.                                                      *)
(***************************************************************************)

(***************************************************************************)
(* The inductive invariant.                                                *)
(***************************************************************************)
\* How many requests of c have begun.
Begun(c) == IF awaiting[c] = <<>> THEN Len(replies[c]) ELSE Turn(c)

\* The threads are gone.
Ended == main \in {"drain", "unloaded"}

\* A request is pushed at most once, and not before its turn.
Issued ==
    \A i \in 1 .. Len(pushed) :
        /\ pushed[i].seq <= Begun(pushed[i].client)
        /\ \A j \in 1 .. Len(pushed) :
              pushed[i].client = pushed[j].client /\ pushed[i].seq = pushed[j].seq
                  => i = j

\* A thread waits for the command of its present request.
AwaitsOwn ==
    \A c \in Clients : awaiting[c] # <<>> =>
        /\ ~Ended
        /\ \E i \in CommandsAt(c, Turn(c)) : awaiting[c] = <<pushed[i]>>

\* The callbacks in progress hold commands that were popped, one each.
Held ==
    /\ \A j \in 1 .. Len(hand) : \E i \in 1 .. Len(popped) : hand[j] = pushed[i]
    /\ \A j, k \in 1 .. Len(hand) : hand[j] = hand[k] => j = k

\* The promises that have a value are those of the commands popped and given
\* up by their callback, or never taken by one.
Answered(i) == i <= Len(popped) /\ ~InHand(pushed[i])

PromisesOfAnswered ==
    \A i \in 1 .. Len(pushed) :
        promise[pushed[i].client][pushed[i].seq] # Unset <=> Answered(i)

\* The codes timer_callback answers with.
Ran == {Result, ERR_NOT_FOUND, ERR_REAPER_API}

\* r may be the answer to cmd.  The drain answers with a time-out.
Fits(r, cmd) ==
    /\ r.id = cmd.id
    /\ r.code \in Ran \/ (r.code = ERR_TIMEOUT /\ Ended)

PromisesFit ==
    \A c \in Clients, k \in 1 .. MaxRequests : promise[c][k] # Unset =>
        \E i \in CommandsAt(c, k) : Fits(promise[c][k], pushed[i])

\* What the innermost callback is about to set.
ResponseFits == main = "reply" => response.id = Last(hand).id /\ response.code \in Ran

Identity == Issued /\ AwaitsOwn /\ Held /\ PromisesOfAnswered /\ PromisesFit /\ ResponseFits

Inv == TypeInv /\ InOrderOnce /\ Identity

-----------------------------------------------------------------------------
LEMMA IdentityInit == Init => Identity
  BY DEF Init, Identity, Issued, AwaitsOwn, Held, PromisesOfAnswered, PromisesFit,
         ResponseFits, CommandsAt

(***************************************************************************)
(* The commands popped and the queue, as places in pushed.                 *)
(***************************************************************************)
LEMMA Places ==
    ASSUME TypeInv, InOrderOnce
    PROVE  /\ Len(popped) \in Nat /\ Len(queue) \in Nat
           /\ Len(pushed) = Len(popped) + Len(queue)
           /\ \A i \in 1 .. Len(popped) : i \in 1 .. Len(pushed) /\ pushed[i] = popped[i]
           /\ \A i \in 1 .. Len(queue) : /\ Len(popped) + i \in 1 .. Len(pushed)
                                       /\ pushed[Len(popped) + i] = queue[i]
<1>1. popped \in Seq(Command) /\ queue \in Seq(Command) /\ pushed = popped \o queue
  BY DEF TypeInv, TypeOK, InOrderOnce
<1> HIDE DEF TypeInv, InOrderOnce
<1>2. Len(popped) \in Nat /\ Len(queue) \in Nat
  BY <1>1, LenProperties
<1>3. /\ Len(pushed) = Len(popped) + Len(queue)
      /\ \A i \in 1 .. Len(popped) + Len(queue) :
            pushed[i] = IF i <= Len(popped) THEN popped[i] ELSE queue[i - Len(popped)]
  BY <1>1, ConcatProperties
<1>4. ASSUME NEW i \in 1 .. Len(queue)
      PROVE  Len(popped) + i \in 1 .. Len(pushed) /\ pushed[Len(popped) + i] = queue[i]
  BY <1>2, <1>3
<1> QED
  BY <1>2, <1>3, <1>4

(***************************************************************************)
(* What the types say of a command pushed and of the answers.              *)
(***************************************************************************)
LEMMA Typed ==
    ASSUME TypeInv, InOrderOnce
    PROVE  /\ \A i \in 1 .. Len(pushed) : /\ pushed[i] \in Command
                                         /\ pushed[i].client \in Clients
                                         /\ pushed[i].seq \in 1 .. MaxRequests
                                         /\ pushed[i].id \in Nat
           /\ Len(pushed) \in Nat /\ Len(popped) \in Nat
           /\ Len(popped) <= Len(pushed)
           /\ \A c \in Clients : Len(replies[c]) \in Nat /\ Turn(c) = Len(replies[c]) + 1
           /\ MaxRequests \in Nat
<1>1. /\ pushed \in Seq(Command) /\ popped \in Seq(Command)
      /\ replies \in [Clients -> Seq(Response)]
  BY DEF TypeInv, TypeOK
<1>3. Len(popped) <= Len(pushed)
  BY Places
<1>4. \A i \in 1 .. Len(pushed) : pushed[i] \in Command
  BY <1>1
<1> QED
  BY <1>1, <1>3, <1>4, MaxRequestsAssumption DEF Command, Turn, MaxRequestsAssumption

-----------------------------------------------------------------------------
(***************************************************************************)
(* The shapes of a step: what is pushed, answered and awaited stays, or    *)
(* one of the three changes.                                               *)
(***************************************************************************)
\* Steps of the main thread between answers.
LEMMA QuietStep ==
    ASSUME Inv, UNCHANGED <<promise, awaiting, replies, hand, pushed, popped>>,
           Ended => Ended',
           Ended' => Ended \/ \A c \in Clients : awaiting[c] = <<>>,
           ResponseFits'
    PROVE  Identity'
<1> USE DEF Inv, Identity
<1>1. Issued'
  BY DEF Issued, Begun, Turn
<1>2. AwaitsOwn'
  BY DEF AwaitsOwn, Turn, CommandsAt
<1>3. Held' /\ PromisesOfAnswered'
  BY DEF Held, PromisesOfAnswered, Answered, InHand
<1>4. PromisesFit'
  BY DEF PromisesFit, CommandsAt, Fits
<1> QED
  BY <1>1, <1>2, <1>3, <1>4

\* The reply to a request ends it: a refusal, or the end of a wait.
LEMMA ReplyStep ==
    ASSUME Inv, NEW c \in Clients, NEW r \in Response,
           Return(c, r),
           awaiting' = [awaiting EXCEPT ![c] = <<>>],
           UNCHANGED <<promise, main, hand, response, pushed, popped>>
    PROVE  Identity'
<1> USE DEF Inv, Identity
<1>1. /\ awaiting \in [Clients -> Seq(Command)]
      /\ replies \in [Clients -> Seq(Response)]
  BY DEF TypeInv, TypeOK
<1>2. /\ Len(replies'[c]) = Turn(c)
      /\ \A b \in Clients : b # c => replies'[b] = replies[b]
  BY <1>1 DEF Return, Turn
<1>3. \A b \in Clients : Begun(b) \in Nat /\ Begun(b)' \in Nat /\ Begun(b) <= Begun(b)'
  BY <1>1, <1>2 DEF Begun, Turn
<1>4. \A b \in Clients : awaiting'[b] # <<>> => awaiting'[b] = awaiting[b] /\ Turn(b)' = Turn(b)
  BY <1>1, <1>2 DEF Turn
<1>5. Issued'
  <2>1. ASSUME NEW i \in 1 .. Len(pushed), NEW b \in Clients, b = pushed[i].client
        PROVE  pushed[i].seq <= Begun(b)'
    BY <1>3, <2>1, Typed, \A x, y, z \in Int : x <= y /\ y <= z => x <= z DEF Issued
  <2> QED
    BY <2>1, Typed DEF Issued
<1>6. AwaitsOwn'
  BY <1>4 DEF AwaitsOwn, CommandsAt, Ended
<1>7. Held' /\ PromisesOfAnswered' /\ PromisesFit' /\ ResponseFits'
  BY DEF Held, PromisesOfAnswered, Answered, InHand, PromisesFit, ResponseFits,
         CommandsAt, Fits, Ended
<1> QED
  BY <1>5, <1>6, <1>7

LEMMA NotUnset == \A r \in Response : r # Unset
<1>1. 1 \notin Codes
  BY DEF Codes, Result, ERR_PARSE, ERR_INVALID_REQ, ERR_NOT_FOUND, ERR_REAPER_API, ERR_TIMEOUT
<1> QED
  BY <1>1 DEF Response, Unset

\* A request is pushed: a command at the turn of its client, which has no other
\* there, and no answer.
LEMMA PushStep ==
    ASSUME Inv, NEW c \in Clients, NEW cmd \in Command,
           cmd.client = c, cmd.seq = Turn(c), awaiting[c] = <<>>, ~Ended,
           pushed' = Append(pushed, cmd),
           awaiting' = [awaiting EXCEPT ![c] = <<cmd>>],
           UNCHANGED <<promise, replies, main, hand, response, popped>>
    PROVE  Identity'
<1> USE DEF Inv, Identity
<1>1. /\ awaiting \in [Clients -> Seq(Command)]
      /\ pushed \in Seq(Command)
      /\ promise \in [Clients -> [1 .. MaxRequests -> Response \cup {Unset}]]
  BY DEF TypeInv, TypeOK
<1>2. /\ Len(pushed') = Len(pushed) + 1
      /\ pushed'[Len(pushed) + 1] = cmd
      /\ \A i \in 1 .. Len(pushed) : pushed'[i] = pushed[i]
      /\ 1 .. Len(pushed') = (1 .. Len(pushed)) \cup {Len(pushed) + 1}
  BY <1>1
<1>3. \A b \in Clients : Turn(b)' = Turn(b)
  BY DEF Turn
<1>4. \A i \in 1 .. Len(pushed) : ~(pushed[i].client = c /\ pushed[i].seq = Turn(c))
  BY Typed DEF Issued, Begun
<1>5. promise[c][Turn(c)] = Unset
  <2>1. Turn(c) \in 1 .. MaxRequests
    BY DEF Command
  <2> QED
    BY <1>4, <2>1 DEF PromisesFit, CommandsAt
<1>6. Issued'
  <2>1. \A b \in Clients : Begun(b) \in Nat /\ Begun(b)' \in Nat /\ Begun(b) <= Begun(b)'
    BY <1>1, <1>3, Typed DEF Begun
  <2>2. Begun(c)' = Turn(c)
    BY <1>1, <1>3 DEF Begun
  <2>3. ASSUME NEW i \in 1 .. Len(pushed'), NEW b \in Clients, b = pushed'[i].client
        PROVE  pushed'[i].seq <= Begun(b)'
    <3>1. CASE i \in 1 .. Len(pushed)
      <4>1. pushed[i].client = b /\ pushed[i].seq \in Nat /\ pushed[i].seq <= Begun(b)
        BY <1>2, <2>3, <3>1, Typed DEF Issued
      <4> QED
        BY <1>2, <2>1, <3>1, <4>1, \A x, y, z \in Int : x <= y /\ y <= z => x <= z
    <3>2. CASE i = Len(pushed) + 1
      BY <1>2, <2>2, <2>3, <3>2, Typed
    <3> QED
      BY <1>2, <3>1, <3>2
  <2>4. \A i, j \in 1 .. Len(pushed') :
           pushed'[i].client = pushed'[j].client /\ pushed'[i].seq = pushed'[j].seq => i = j
    BY <1>2, <1>4 DEF Issued
  <2>5. \A i \in 1 .. Len(pushed') : pushed'[i].client \in Clients
    BY <1>2, Typed DEF Command
  <2> QED
    BY <2>3, <2>4, <2>5 DEF Issued
<1>7. AwaitsOwn'
  <2>1. \A b \in Clients, k \in Nat : CommandsAt(b, k) \subseteq CommandsAt(b, k)'
    BY <1>2 DEF CommandsAt
  <2>2. Len(pushed) + 1 \in CommandsAt(c, Turn(c))'
    BY <1>2, <1>3 DEF CommandsAt
  <2>3. awaiting'[c] = <<pushed'[Len(pushed) + 1]>>
    BY <1>1, <1>2
  <2>4. ASSUME NEW b \in Clients, b # c, awaiting'[b] # <<>>
        PROVE  \E i \in CommandsAt(b, Turn(b))' : awaiting'[b] = <<pushed'[i]>>
    <3>1. PICK i \in CommandsAt(b, Turn(b)) : awaiting[b] = <<pushed[i]>>
      BY <1>1, <2>4 DEF AwaitsOwn
    <3> QED
      BY <1>1, <1>2, <1>3, <2>4, <3>1 DEF CommandsAt
  <2> QED
    BY <2>2, <2>3, <2>4 DEF AwaitsOwn, Ended
<1>8. Held' /\ PromisesOfAnswered'
  <2>1. Held'
    BY <1>2, Typed DEF Held
  <2>2. ASSUME NEW i \in 1 .. Len(pushed')
        PROVE  promise[pushed'[i].client][pushed'[i].seq] # Unset
                  <=> i <= Len(popped) /\ ~InHand(pushed'[i])
    <3>1. CASE i \in 1 .. Len(pushed)
      BY <1>2, <3>1 DEF PromisesOfAnswered, Answered
    <3>2. CASE i = Len(pushed) + 1
      BY <1>2, <1>5, <3>2, Typed
    <3> QED
      BY <1>2, <3>1, <3>2
  <2>3. \A e : InHand(e)' <=> InHand(e)
    BY DEF InHand
  <2> QED
    BY <2>1, <2>2, <2>3 DEF PromisesOfAnswered, Answered, InHand
<1>9. PromisesFit'
  <2>1. ASSUME NEW b \in Clients, NEW k \in 1 .. MaxRequests, promise[b][k] # Unset
        PROVE  \E i \in CommandsAt(b, k)' : Fits(promise[b][k], pushed[i])'
    <3>1. PICK i \in CommandsAt(b, k) : Fits(promise[b][k], pushed[i])
      BY <2>1 DEF PromisesFit
    <3> QED
      BY <1>2, <3>1 DEF CommandsAt, Fits, Ended
  <2> QED
    BY <2>1 DEF PromisesFit
<1>10. ResponseFits'
  BY DEF ResponseFits
<1> QED
  BY <1>6, <1>7, <1>8, <1>9, <1>10

\* A command is popped and taken by a callback, whose promise has no value yet.
LEMMA PopStep ==
    ASSUME Inv, NEW cmd \in Command,
           Len(popped) + 1 \in 1 .. Len(pushed), pushed[Len(popped) + 1] = cmd,
           hand' = Append(hand, cmd), popped' = Append(popped, cmd),
           UNCHANGED <<promise, awaiting, replies, pushed>>,
           Ended' <=> Ended,
           ResponseFits'
    PROVE  Identity'
<1> USE DEF Inv, Identity
<1> DEFINE n == Len(popped) + 1
<1>1. hand \in Seq(Command) /\ popped \in Seq(Command)
  BY DEF TypeInv, TypeOK
<1>2. Issued' /\ AwaitsOwn'
  BY DEF Issued, AwaitsOwn, Begun, Turn, CommandsAt, Ended
<1>3. PromisesFit'
  BY DEF PromisesFit, CommandsAt, Fits, Ended
<1>4. \A i \in 1 .. Len(pushed) : pushed[i] = cmd => i = n
  BY DEF Issued
<1>5. Held /\ PromisesOfAnswered /\ \A i \in 1 .. Len(popped) : i \in 1 .. Len(pushed)
  BY Places
<1> HIDE DEF Inv, Identity
<1>6. /\ Len(hand) \in Nat
      /\ Len(hand') = Len(hand) + 1
      /\ 1 .. Len(hand') = (1 .. Len(hand)) \cup {Len(hand) + 1}
      /\ \A j \in 1 .. Len(hand) : hand'[j] = hand[j]
      /\ hand'[Len(hand) + 1] = cmd
  BY <1>1, AppendOf
<1>7. Len(popped) \in Nat /\ Len(popped') = n
  BY <1>1, AppendOf
<1>8. ~InHand(cmd)
  <2>1. ASSUME NEW j \in 1 .. Len(hand), hand[j] = cmd
        PROVE  FALSE
    <3>1. PICK i \in 1 .. Len(popped) : hand[j] = pushed[i]
      BY <1>5 DEF Held
    <3>2. i = n
      BY <1>4, <1>5, <2>1, <3>1
    <3> QED
      BY <1>7, <3>2
  <2> QED
    BY <2>1 DEF InHand
<1>9. \A e : InHand(e)' <=> InHand(e) \/ e = cmd
  BY <1>6 DEF InHand
<1>10. Held'
  <2>1. ASSUME NEW j \in 1 .. Len(hand')
        PROVE  \E i \in 1 .. Len(popped') : hand'[j] = pushed[i]
    <3>1. CASE j \in 1 .. Len(hand)
      <4>1. PICK i \in 1 .. Len(popped) : hand[j] = pushed[i]
        BY <1>5, <3>1 DEF Held
      <4> QED
        BY <1>6, <1>7, <3>1, <4>1
    <3>2. CASE j = Len(hand) + 1
      BY <1>6, <1>7, <3>2
    <3> QED
      BY <1>6, <3>1, <3>2
  <2>2. ASSUME NEW j \in 1 .. Len(hand'), NEW k \in 1 .. Len(hand'), hand'[j] = hand'[k]
        PROVE  j = k
    BY <1>5, <1>6, <1>8, <2>2 DEF Held, InHand
  <2> QED
    BY <2>1, <2>2 DEF Held
<1>11. ASSUME NEW i \in 1 .. Len(pushed)
       PROVE  Answered(i)' <=> Answered(i)
  <2>1. InHand(pushed[i])' <=> InHand(pushed[i]) \/ i = n
    BY <1>4, <1>9
  <2>2. ~(n <= Len(popped)) /\ (i <= n <=> i <= Len(popped) \/ i = n)
    BY <1>7
  <2>3. Answered(i)' <=> i <= n /\ ~(InHand(pushed[i]) \/ i = n)
    BY <1>7, <2>1 DEF Answered, InHand
  <2> QED
    BY <2>2, <2>3 DEF Answered
<1>12. PromisesOfAnswered'
  BY <1>5, <1>11 DEF PromisesOfAnswered
<1> QED
  BY <1>2, <1>3, <1>10, <1>12 DEF Identity

\* A command without a value in its promise, the n-th one, is answered.
LEMMA AnswerStep ==
    ASSUME Inv, NEW cmd \in Command, NEW r \in Response, NEW n \in 1 .. Len(pushed),
           pushed[n] = cmd,
           ~Answered(n),
           \A i \in 1 .. Len(pushed) : Answered(i)' <=> Answered(i) \/ i = n,
           Fits(r, cmd),
           SetPromise(cmd, r),
           UNCHANGED <<awaiting, replies, pushed>>,
           Ended' <=> Ended,
           ResponseFits', Held'
    PROVE  Identity' /\ promise[cmd.client][cmd.seq] = Unset
<1> USE DEF Inv, Identity
<1>1. /\ promise \in [Clients -> [1 .. MaxRequests -> Response \cup {Unset}]]
      /\ cmd.client \in Clients /\ cmd.seq \in 1 .. MaxRequests
  BY DEF TypeInv, TypeOK, Command
<1>2. promise[cmd.client][cmd.seq] = Unset
  BY DEF PromisesOfAnswered
<1>3. /\ promise'[cmd.client][cmd.seq] = r
      /\ \A c \in Clients, k \in 1 .. MaxRequests :
            ~(c = cmd.client /\ k = cmd.seq) => promise'[c][k] = promise[c][k]
  BY <1>1 DEF SetPromise
<1>4. Issued' /\ AwaitsOwn'
  BY DEF Issued, AwaitsOwn, Begun, Turn, CommandsAt
<1>5. PromisesOfAnswered'
  <2>1. ASSUME NEW i \in 1 .. Len(pushed), i # n
        PROVE  promise'[pushed[i].client][pushed[i].seq] = promise[pushed[i].client][pushed[i].seq]
    <3> DEFINE p == pushed[i]
    <3>1. p.client \in Clients /\ p.seq \in 1 .. MaxRequests
      BY Typed DEF TypeInv, TypeOK, Command
    <3>2. ~(p.client = cmd.client /\ p.seq = cmd.seq)
      BY <2>1 DEF Issued
    <3> HIDE DEF p
    <3> QED
      BY <1>3, <3>1, <3>2 DEF p
  <2>2. ASSUME NEW i \in 1 .. Len(pushed)
        PROVE  promise'[pushed[i].client][pushed[i].seq] # Unset <=> Answered(i)'
    <3>1. CASE i = n
      BY <1>3, <3>1, NotUnset
    <3>2. CASE i # n
      <4>1. promise[pushed[i].client][pushed[i].seq] # Unset <=> Answered(i)
        BY DEF PromisesOfAnswered
      <4> QED
        BY <2>1, <3>2, <4>1
    <3> QED
      BY <3>1, <3>2
  <2> QED
    BY <2>2 DEF PromisesOfAnswered
<1>6. PromisesFit'
  <2>1. n \in CommandsAt(cmd.client, cmd.seq)
    BY DEF CommandsAt
  <2>2. \A q, e : Fits(q, e) => Fits(q, e)'
    BY DEF Fits
  <2>3. ASSUME NEW c \in Clients, NEW k \in 1 .. MaxRequests, promise'[c][k] # Unset
        PROVE  \E i \in CommandsAt(c, k) : Fits(promise'[c][k], pushed[i])
    BY <1>3, <2>1, <2>3 DEF PromisesFit
  <2> QED
    BY <2>2, <2>3 DEF PromisesFit, CommandsAt, Fits
<1> QED
  BY <1>2, <1>4, <1>5, <1>6

-----------------------------------------------------------------------------
(***************************************************************************)
(* The actions, by their shapes.                                           *)
(***************************************************************************)
LEMMA PushActs ==
    ASSUME Inv, NEW c \in Clients, Push(c)
    PROVE  \E cmd \in Command :
              /\ cmd.client = c /\ cmd.seq = Turn(c) /\ awaiting[c] = <<>> /\ ~Ended
              /\ pushed' = Append(pushed, cmd)
              /\ awaiting' = [awaiting EXCEPT ![c] = <<cmd>>]
              /\ UNCHANGED <<promise, replies, main, taken, hand, response, popped>>
<1>1. PICK d \in Parsed : /\ Request(c, d).error = 0
                             /\ awaiting' = [awaiting EXCEPT ![c] = <<CommandOf(c, d)>>]
                             /\ pushed' = Append(pushed, CommandOf(c, d))
  BY DEF Push, PushRequest
<1>2. Turn(c) \in 1 .. MaxRequests
  BY Typed DEF Inv, Push, CanHandle
<1> QED
  BY <1>1, <1>2, CommandType, Typed DEF Inv, Push, PushRequest, CanHandle, Ended

\* TryPop takes the next command.
LEMMA PopActs ==
    ASSUME Inv, TryPop
    PROVE  \E cmd \in Command :
              /\ Len(popped) + 1 \in 1 .. Len(pushed)
              /\ pushed[Len(popped) + 1] = cmd
              /\ hand' = Append(hand, cmd)
              /\ popped' = Append(popped, cmd)
              /\ UNCHANGED <<promise, awaiting, replies, pushed>>
              /\ Ended' <=> Ended
              /\ ResponseFits'
<1>1. queue # <<>> /\ queue \in Seq(Command)
  BY DEF TryPop, HasWork, Inv, TypeInv, TypeOK
<1>2. Head(queue) \in Command /\ Head(queue) = queue[1] /\ 1 \in 1 .. Len(queue)
  BY <1>1
<1>3. Len(popped) + 1 \in 1 .. Len(pushed) /\ pushed[Len(popped) + 1] = Head(queue)
  BY <1>2, Places DEF Inv
<1>4. ResponseFits' /\ (Ended' <=> Ended)
  BY DEF TryPop, ResponseFits, Ended
<1> QED
  BY <1>2, <1>3, <1>4 DEF TryPop

\* SetValue and Drain give a fitting answer to a command that has none.
Answers(cmd, r, n) ==
    /\ pushed[n] = cmd
    /\ ~Answered(n)
    /\ \A i \in 1 .. Len(pushed) : Answered(i)' <=> Answered(i) \/ i = n
    /\ Fits(r, cmd)
    /\ SetPromise(cmd, r)
    /\ UNCHANGED <<awaiting, replies, pushed>>
    /\ Ended' <=> Ended
    /\ ResponseFits' /\ Held'

LEMMA SetValueActs ==
    ASSUME Inv, SetValue
    PROVE  \E cmd \in Command, r \in Response, n \in 1 .. Len(pushed) : Answers(cmd, r, n)
<1> DEFINE cmd == Last(hand)
<1>1. /\ hand # <<>> /\ hand \in Seq(Command)
      /\ response \in Response /\ response.id = cmd.id /\ response.code \in Ran
  BY DEF SetValue, Inv, TypeInv, TypeOK, Control, Callbacks, Holds, Identity, ResponseFits
<1>2. /\ SetPromise(cmd, response)
      /\ hand' = Front(hand)
      /\ UNCHANGED <<awaiting, replies, pushed, popped>>
      /\ (Ended' <=> Ended) /\ ResponseFits'
  BY DEF SetValue, Current, Ended, ResponseFits
<1>3. /\ Held
      /\ \A i, j \in 1 .. Len(pushed) : pushed[i] = pushed[j] => i = j
      /\ \A i \in 1 .. Len(popped) : i \in 1 .. Len(pushed)
  BY Places DEF Inv, Identity, Issued
<1>4. /\ Len(hand) \in Nat \ {0}
      /\ cmd = hand[Len(hand)] /\ cmd \in Command
      /\ Len(hand') = Len(hand) - 1
      /\ \A j \in 1 .. Len(hand) - 1 : hand'[j] = hand[j]
  BY <1>1, <1>2, LastOf, FrontOf
<1>5. \A e : InHand(e)' <=> InHand(e) /\ e # cmd
  <2>1. ASSUME NEW e, InHand(e)'
        PROVE  InHand(e) /\ e # cmd
    BY <1>3, <1>4, <2>1 DEF InHand, Held
  <2>2. ASSUME NEW e, InHand(e), e # cmd
        PROVE  InHand(e)'
    BY <1>4, <2>2 DEF InHand
  <2> QED
    BY <2>1, <2>2
<1>6. PICK n \in 1 .. Len(popped) : cmd = pushed[n]
  BY <1>3, <1>4 DEF Held
<1>7. InHand(cmd)
  BY <1>4 DEF InHand
<1>8. Held'
  BY <1>2, <1>3, <1>4 DEF Held
<1>9. \A i \in 1 .. Len(pushed) : Answered(i)' <=> Answered(i) \/ i = n
  <2>1. ASSUME NEW i \in 1 .. Len(pushed)
        PROVE  Answered(i)' <=> Answered(i) \/ i = n
    <3>1. Answered(i)' <=> i <= Len(popped) /\ ~(InHand(pushed[i]) /\ pushed[i] # cmd)
      BY <1>2, <1>5 DEF Answered, InHand
    <3>2. pushed[i] = cmd <=> i = n
      BY <1>3, <1>6
    <3>3. n <= Len(popped)
      BY Typed DEF Inv
    <3> QED
      BY <3>1, <3>2, <3>3 DEF Answered
  <2> QED
    BY <2>1
<1>10. Answers(cmd, response, n)
  BY <1>1, <1>2, <1>6, <1>7, <1>8, <1>9 DEF Answers, Answered, Fits
<1> QED
  BY <1>1, <1>3, <1>4, <1>10

LEMMA DrainActs ==
    ASSUME Inv, Drain
    PROVE  \E cmd \in Command, r \in Response, n \in 1 .. Len(pushed) : Answers(cmd, r, n)
<1> DEFINE cmd == Head(queue)
           r   == make_error(cmd.id, ERR_TIMEOUT)
           n   == Len(popped) + 1
<1>1. /\ hand = <<>> /\ hand' = <<>>
      /\ queue # <<>> /\ queue \in Seq(Command) /\ popped \in Seq(Command)
      /\ popped' = Append(popped, cmd)
      /\ SetPromise(cmd, r)
      /\ UNCHANGED <<awaiting, replies, pushed>>
      /\ Ended /\ Ended' /\ ResponseFits'
  BY DEF Drain, HasWork, Inv, TypeInv, TypeOK, Control, Callbacks, Holds, Ended, ResponseFits
<1>2. cmd \in Command /\ cmd = queue[1] /\ 1 \in 1 .. Len(queue)
  BY <1>1
<1>3. n \in 1 .. Len(pushed) /\ pushed[n] = cmd
  BY <1>2, Places DEF Inv
<1>4. r \in Response /\ Fits(r, cmd)
  BY <1>1, <1>2 DEF make_error, Response, Codes, Command, Fits
<1>5. Len(popped) \in Nat /\ Len(popped') = n
  BY <1>1, <1>2, AppendOf
<1>6. ASSUME NEW e
      PROVE  ~InHand(e) /\ ~InHand(e)'
  BY <1>1 DEF InHand
<1>7. ~Answered(n) /\ \A i \in 1 .. Len(pushed) : Answered(i)' <=> Answered(i) \/ i = n
  BY <1>5, <1>6, Typed DEF Answered, Inv
<1>8. Held'
  BY <1>1 DEF Held
<1> HIDE DEF cmd, r, n
<1> QED
  BY <1>1, <1>2, <1>3, <1>4, <1>7, <1>8 DEF Answers

\* Refuse, FutureReady and WaitTimeout reply and end the wait, if there is one.
LEMMA ReplyActs ==
    ASSUME Inv, NEW c \in Clients, Refuse(c) \/ FutureReady(c) \/ WaitTimeout(c)
    PROVE  \E r \in Response :
              /\ Return(c, r)
              /\ awaiting' = [awaiting EXCEPT ![c] = <<>>]
              /\ UNCHANGED <<promise, main, taken, hand, response, pushed, popped>>
              /\ \/ /\ Refuse(c)
                    /\ awaiting[c] = <<>>
                    /\ r.id = Null /\ r.code \in {ERR_PARSE, ERR_INVALID_REQ}
                 \/ /\ awaiting[c] # <<>>
                    /\ \/ Ready(c) /\ r = promise[c][Turn(c)]
                       \/ ~Ready(c) /\ r = make_error(awaiting[c][1].id, ERR_TIMEOUT)
<1>1. /\ awaiting \in [Clients -> Seq(Command)]
      /\ promise \in [Clients -> [1 .. MaxRequests -> Response \cup {Unset}]]
      /\ Turn(c) \in Nat
      /\ awaiting[c] # <<>> => Turn(c) \in 1 .. MaxRequests
  BY Typed DEF Inv, TypeInv, TypeOK, Control
<1>2. CASE Refuse(c)
  <2>1. PICK d \in Parsed : /\ Request(c, d).error # 0
                               /\ Return(c, make_error(Request(c, d).id, Request(c, d).error))
    BY <1>2 DEF Refuse, RefuseRequest
  <2> DEFINE r == make_error(Request(c, d).id, Request(c, d).error)
  <2>2. r \in Response /\ r.id = Null /\ r.code \in {ERR_PARSE, ERR_INVALID_REQ}
    BY <1>1, <2>1, RequestType DEF make_error, Response, Codes
  <2>3. awaiting' = [awaiting EXCEPT ![c] = <<>>] /\ awaiting[c] = <<>>
    BY <1>1, <1>2 DEF Refuse, CanHandle, RefuseRequest
  <2> QED
    BY <1>2, <2>1, <2>2, <2>3 DEF Refuse, RefuseRequest
<1>3. CASE FutureReady(c)
  <2>1. promise[c][Turn(c)] \in Response
    BY <1>1, <1>3 DEF FutureReady, Waiting, Ready
  <2> QED
    BY <1>3, <2>1 DEF FutureReady, Waiting, StopWaiting
<1>4. CASE WaitTimeout(c)
  <2>1. awaiting[c] \in Seq(Command) /\ awaiting[c] # <<>>
    BY <1>1, <1>4 DEF WaitTimeout, Waiting
  <2>2. awaiting[c][1].id \in Nat
    BY <2>1, FirstElement, Zenon DEF Command
  <2>3. make_error(awaiting[c][1].id, ERR_TIMEOUT) \in Response
    BY <2>2 DEF make_error, Response, Codes
  <2> QED
    BY <1>4, <2>1, <2>3 DEF WaitTimeout, StopWaiting
<1> QED
  BY <1>2, <1>3, <1>4

LEMMA QuietActs ==
    ASSUME Inv,
           \/ TimerFires \/ TickEnds \/ Dispatch \/ Escapes
           \/ UnregisterTimer \/ ServerStopped \/ DrainEnds \/ UNCHANGED vars
    PROVE  /\ UNCHANGED <<promise, awaiting, replies, hand, pushed, popped>>
           /\ Ended => Ended'
           /\ Ended' => Ended \/ \A c \in Clients : awaiting[c] = <<>>
           /\ ResponseFits'
<1>1. CASE TimerFires \/ TickEnds \/ Escapes \/ UnregisterTimer
  BY <1>1 DEF TimerFires, TickEnds, Escapes, DispatchEscapes, Escape, RequestEscapes,
              CanHandle, UnregisterTimer, Ended, ResponseFits
<1>2. CASE ServerStopped \/ DrainEnds
  BY <1>2 DEF ServerStopped, EnterDrain, DrainEnds, Ended, ResponseFits
<1>3. CASE Dispatch
  <2>1. response' \in Outcomes(Last(hand)) /\ UNCHANGED hand
    BY <1>3 DEF Dispatch
  <2>2. response'.id = Last(hand).id /\ response'.code \in Ran
    BY <2>1 DEF Outcomes, make_result, make_error, Ran
  <2> QED
    BY <1>3, <2>1, <2>2 DEF Dispatch, Ended, ResponseFits
<1>4. CASE UNCHANGED vars
  BY <1>4 DEF vars, Ended, ResponseFits, Inv, Identity
<1> QED
  BY <1>1, <1>2, <1>3, <1>4

(***************************************************************************)
(* Every step is of one of these shapes.                                   *)
(***************************************************************************)
LEMMA Shapes ==
    ASSUME [Next]_vars
    PROVE  \/ \E c \in Clients : Push(c)
           \/ \E c \in Clients : Refuse(c) \/ FutureReady(c) \/ WaitTimeout(c)
           \/ TryPop \/ SetValue \/ Drain
           \/ \/ TimerFires \/ TickEnds \/ Dispatch \/ Escapes
              \/ UnregisterTimer \/ ServerStopped \/ DrainEnds \/ UNCHANGED vars
  BY DEF Next, Callback, Unload, Client, Escapes

LEMMA InvInit == Init => Inv
  BY TypeInit, OrderInit, IdentityInit DEF Inv

LEMMA InvStep == Inv /\ [Next]_vars => Inv'
<1> SUFFICES ASSUME Inv, [Next]_vars
             PROVE  Identity'
  BY TypeStep, OrderStep DEF Inv
<1>1. ASSUME NEW c \in Clients, Push(c)
      PROVE  Identity'
  BY <1>1, PushActs, PushStep
<1>2. ASSUME NEW c \in Clients, Refuse(c) \/ FutureReady(c) \/ WaitTimeout(c)
      PROVE  Identity'
  BY <1>2, ReplyActs, ReplyStep
<1>3. CASE SetValue \/ Drain
  <2>1. PICK cmd \in Command, r \in Response, n \in 1 .. Len(pushed) : Answers(cmd, r, n)
    BY <1>3, SetValueActs, DrainActs
  <2> QED
    BY <2>1, AnswerStep DEF Answers
<1>4. CASE TryPop
  BY <1>4, PopActs, PopStep
<1>5. CASE \/ TimerFires \/ TickEnds \/ Dispatch \/ Escapes
           \/ UnregisterTimer \/ ServerStopped \/ DrainEnds \/ UNCHANGED vars
  BY <1>5, QuietActs, QuietStep
<1> QED
  BY <1>1, <1>2, <1>3, <1>4, <1>5, Shapes

LEMMA Invariant == Steps => []Inv
  BY InvInit, InvStep, PTL DEF Steps

-----------------------------------------------------------------------------
LEMMA SetOnceHolds == Steps => SetOnce
<1>1. ASSUME Inv, [Next]_vars
      PROVE  [\A c \in Clients, k \in 1 .. MaxRequests :
                 promise[c][k] # Unset => promise'[c][k] = promise[c][k]]_vars
  <2>1. CASE SetValue \/ Drain
    <3>1. PICK cmd \in Command, r \in Response :
             SetPromise(cmd, r) /\ promise[cmd.client][cmd.seq] = Unset
      BY <1>1, <2>1, SetValueActs, DrainActs, AnswerStep DEF Answers
    <3>2. promise \in [Clients -> [1 .. MaxRequests -> Response \cup {Unset}]]
      BY <1>1 DEF Inv, TypeInv, TypeOK
    <3> QED
      BY <3>1, <3>2 DEF SetPromise, Command
  <2>2. CASE promise' = promise
    BY <2>2
  <2> QED
    BY <1>1, <2>1, <2>2, Shapes, PushActs, ReplyActs, PopActs, QuietActs
<1> QED
  BY <1>1, Invariant, PTL DEF Steps, SetOnce

(***************************************************************************)
(* A promise gets one value: whoever answers, SetValue or Drain, answers a *)
(* command that is in its hand or queued, and its promise has no value.    *)
(***************************************************************************)
THEOREM SetOnceCorrect == Spec => SetOnce
  BY SetOnceHolds, PTL DEF Spec, Steps

LEMMA HeldHolds == Steps => []HeldUntilAnswered
<1>1. ASSUME Inv
      PROVE  HeldUntilAnswered
  <2>1. ASSUME NEW i \in 1 .. Len(popped)
        PROVE  InHand(popped[i]) <=> promise[popped[i].client][popped[i].seq] = Unset
    <3>1. i \in 1 .. Len(pushed) /\ pushed[i] = popped[i]
      BY <1>1, Places DEF Inv
    <3>2. i <= Len(popped)
      BY <1>1, Typed DEF Inv
    <3> QED
      BY <1>1, <3>1, <3>2 DEF Inv, Identity, PromisesOfAnswered, Answered
  <2> QED
    BY <1>1, <2>1 DEF Inv, Identity, Held, HeldUntilAnswered
<1> QED
  BY <1>1, Invariant, PTL

(***************************************************************************)
(* However deep callbacks nest, each holds a command of its own, and those *)
(* are the commands popped that have no answer.                            *)
(***************************************************************************)
THEOREM HeldCorrect == Spec => []HeldUntilAnswered
  BY HeldHolds, PTL DEF Spec, Steps

-----------------------------------------------------------------------------
(***************************************************************************)
(* What a client is told: the invariants about its replies.                *)
(***************************************************************************)

(***************************************************************************)
(* UnansweredIsAwaitedOrTimedOut, by the places in pushed.                 *)
(***************************************************************************)
TimedOut(cmd) ==
    /\ cmd.seq <= Len(replies[cmd.client])
    /\ replies[cmd.client][cmd.seq] = make_error(cmd.id, ERR_TIMEOUT)

Unforgotten ==
    \A i \in 1 .. Len(pushed) : ~Answered(i) =>
        awaiting[pushed[i].client] = <<pushed[i]>> \/ TimedOut(pushed[i])

LEMMA UnforgottenInit == Init => Unforgotten
  BY DEF Init, Unforgotten

LEMMA UnforgottenPush ==
    ASSUME Inv, Unforgotten, NEW c \in Clients, Push(c)
    PROVE  Unforgotten'
<1>1. PICK cmd \in Command :
         /\ cmd.client = c /\ cmd.seq = Turn(c) /\ awaiting[c] = <<>>
         /\ pushed' = Append(pushed, cmd)
         /\ awaiting' = [awaiting EXCEPT ![c] = <<cmd>>]
         /\ UNCHANGED <<replies, hand, popped>>
  BY PushActs
<1>2. pushed \in Seq(Command) /\ awaiting \in [Clients -> Seq(Command)]
  BY DEF Inv, TypeInv, TypeOK
<1>3. /\ \A i \in 1 .. Len(pushed) : pushed'[i] = pushed[i]
      /\ 1 .. Len(pushed') = (1 .. Len(pushed)) \cup {Len(pushed) + 1}
      /\ pushed'[Len(pushed) + 1] = cmd
  BY <1>1, <1>2
<1>4. \A i \in 1 .. Len(pushed) : pushed[i].client \in Clients
  BY Typed DEF Inv
<1>5. ASSUME NEW i \in 1 .. Len(pushed), ~Answered(i)
      PROVE  awaiting'[pushed[i].client] = <<pushed[i]>> \/ TimedOut(pushed[i])
  BY <1>1, <1>2, <1>4, <1>5 DEF Unforgotten
<1>6. \A e : TimedOut(e) => TimedOut(e)'
  BY <1>1 DEF TimedOut
<1>7. awaiting'[c] = <<cmd>>
  BY <1>1, <1>2
<1>8. ASSUME NEW i \in 1 .. Len(pushed'), ~Answered(i)'
      PROVE  awaiting'[pushed'[i].client] = <<pushed'[i]>> \/ TimedOut(pushed[i])'
  <2>1. CASE i \in 1 .. Len(pushed)
    <3>1. Answered(i)' <=> Answered(i)
      BY <1>1, <1>3, <2>1 DEF Answered, InHand
    <3> QED
      BY <1>1, <1>3, <1>5, <1>8, <2>1, <3>1 DEF TimedOut
  <2>2. CASE i = Len(pushed) + 1
    BY <1>1, <1>3, <1>7, <2>2
  <2> QED
    BY <1>3, <2>1, <2>2
<1> QED
  BY <1>8 DEF Unforgotten

LEMMA UnforgottenReply ==
    ASSUME Inv, Unforgotten, NEW c \in Clients, Refuse(c) \/ FutureReady(c) \/ WaitTimeout(c)
    PROVE  Unforgotten'
<1>1. PICK r \in Response :
         /\ Return(c, r)
         /\ awaiting' = [awaiting EXCEPT ![c] = <<>>]
         /\ UNCHANGED <<promise, hand, pushed, popped>>
         /\ \/ awaiting[c] = <<>>
            \/ /\ awaiting[c] # <<>>
               /\ \/ Ready(c)
                  \/ r = make_error(awaiting[c][1].id, ERR_TIMEOUT)
  BY ReplyActs
<1>2. /\ awaiting \in [Clients -> Seq(Command)]
      /\ replies \in [Clients -> Seq(Response)]
  BY DEF Inv, TypeInv, TypeOK
<1>3. /\ Len(replies'[c]) = Turn(c)
      /\ replies'[c][Turn(c)] = r
      /\ \A k \in 1 .. Len(replies[c]) : replies'[c][k] = replies[c][k]
      /\ \A b \in Clients : b # c => replies'[b] = replies[b]
  BY <1>1, <1>2 DEF Return, Turn
<1>4. ASSUME NEW cmd \in Command, TimedOut(cmd)
      PROVE  TimedOut(cmd)'
  <2>1. cmd.client \in Clients /\ cmd.seq \in 1 .. MaxRequests
    BY DEF Command
  <2>2. cmd.seq \in 1 .. Len(replies[cmd.client])
    BY <1>4, <2>1, Typed DEF TimedOut, Inv
  <2>3. /\ replies'[cmd.client][cmd.seq] = replies[cmd.client][cmd.seq]
        /\ Len(replies[cmd.client]) <= Len(replies'[cmd.client])
    <3>1. CASE cmd.client = c
      BY <1>3, <2>2, <3>1, Typed DEF Inv
    <3>2. CASE cmd.client # c
      BY <1>3, <2>1, <3>2, Typed DEF Inv
    <3> QED
      BY <3>1, <3>2
  <2>4. cmd.seq <= Len(replies'[cmd.client])
    <3>1. Len(replies'[cmd.client]) \in Nat
      BY <1>3, <2>1, Typed DEF Inv
    <3> QED
      BY <2>1, <2>2, <2>3, <3>1, Typed DEF Inv
  <2> QED
    BY <1>4, <2>3, <2>4 DEF TimedOut
<1>5. ASSUME NEW i \in 1 .. Len(pushed), ~Answered(i), awaiting[c] = <<pushed[i]>>
      PROVE  TimedOut(pushed[i])'
  <2>1. pushed[i].client = c /\ pushed[i].seq = Turn(c)
    BY <1>5 DEF Inv, Identity, AwaitsOwn, CommandsAt
  <2>2. ~Ready(c)
    BY <1>5, <2>1, Typed DEF Inv, Identity, PromisesOfAnswered, Ready
  <2>3. r = make_error(pushed[i].id, ERR_TIMEOUT)
    BY <1>1, <1>5, <2>2
  <2> QED
    BY <1>1, <1>3, <2>1, <2>3, Typed DEF TimedOut, Inv
<1>6. ASSUME NEW i \in 1 .. Len(pushed), ~Answered(i)
      PROVE  awaiting'[pushed[i].client] = <<pushed[i]>> \/ TimedOut(pushed[i])'
  <2>1. pushed[i] \in Command /\ pushed[i].client \in Clients
    BY Typed DEF Inv
  <2>2. CASE TimedOut(pushed[i])
    <3>1. PICK cmd \in Command : cmd = pushed[i]
      BY <2>1
    <3>2. TimedOut(cmd)'
      BY <1>4, <2>2, <3>1
    <3> QED
      BY <1>1, <3>1, <3>2 DEF TimedOut
  <2>3. CASE awaiting[pushed[i].client] = <<pushed[i]>>
    BY <1>1, <1>2, <1>5, <1>6, <2>1, <2>3
  <2> QED
    BY <1>6, <2>2, <2>3 DEF Unforgotten
<1> QED
  BY <1>1, <1>6 DEF Unforgotten, Answered, InHand

LEMMA UnforgottenStep == Inv /\ Unforgotten /\ [Next]_vars => Unforgotten'
<1> SUFFICES ASSUME Inv, Unforgotten, [Next]_vars
             PROVE  Unforgotten'
  OBVIOUS
<1>1. ASSUME NEW c \in Clients, Push(c)
      PROVE  Unforgotten'
  BY <1>1, UnforgottenPush
<1>2. ASSUME NEW c \in Clients, Refuse(c) \/ FutureReady(c) \/ WaitTimeout(c)
      PROVE  Unforgotten'
  BY <1>2, UnforgottenReply
<1>3. CASE SetValue \/ Drain
  <2>1. PICK cmd \in Command, r \in Response, n \in 1 .. Len(pushed) : Answers(cmd, r, n)
    BY <1>3, SetValueActs, DrainActs
  <2>2. pushed' = pushed /\ awaiting' = awaiting /\ replies' = replies
    BY <2>1 DEF Answers
  <2>3. \A i \in 1 .. Len(pushed) : ~Answered(i)' => ~Answered(i)
    BY <2>1 DEF Answers
  <2>4. ASSUME NEW i \in 1 .. Len(pushed), ~Answered(i)'
        PROVE  awaiting[pushed[i].client] = <<pushed[i]>> \/ TimedOut(pushed[i])
    BY <2>3, <2>4 DEF Unforgotten
  <2> QED
    BY <2>2, <2>4 DEF Unforgotten, TimedOut
<1>4. CASE TryPop
  <2>1. PICK cmd \in Command : /\ pushed[Len(popped) + 1] = cmd
                               /\ hand' = Append(hand, cmd)
                               /\ popped' = Append(popped, cmd)
                               /\ UNCHANGED <<promise, awaiting, replies, pushed>>
    BY <1>4, PopActs
  <2>2. ASSUME NEW i \in 1 .. Len(pushed), ~Answered(i)'
        PROVE  ~Answered(i)
    <3>1. PromisesOfAnswered /\ PromisesOfAnswered'
      BY InvStep DEF Inv, Identity
    <3> QED
      BY <2>1, <2>2, <3>1 DEF PromisesOfAnswered
  <2> QED
    BY <2>1, <2>2 DEF Unforgotten, TimedOut
<1>5. CASE \/ TimerFires \/ TickEnds \/ Dispatch \/ Escapes
           \/ UnregisterTimer \/ ServerStopped \/ DrainEnds \/ UNCHANGED vars
  BY <1>5, QuietActs DEF Unforgotten, TimedOut, Answered, InHand
<1> QED
  BY <1>1, <1>2, <1>3, <1>4, <1>5, Shapes

LEMMA UnansweredHolds == Steps => []UnansweredIsAwaitedOrTimedOut
<1>1. ASSUME Inv, Unforgotten
      PROVE  UnansweredIsAwaitedOrTimedOut
  <2>1. /\ hand \in Seq(Command) /\ queue \in Seq(Command)
    BY <1>1 DEF Inv, TypeInv, TypeOK
  <2>2. ASSUME NEW j \in 1 .. Len(Unanswered)
        PROVE  \E i \in 1 .. Len(pushed) : ~Answered(i) /\ Unanswered[j] = pushed[i]
    <3>1. /\ Len(hand) \in Nat /\ Len(queue) \in Nat
          /\ Len(Unanswered) = Len(hand) + Len(queue)
          /\ Unanswered[j] = IF j <= Len(hand) THEN hand[j] ELSE queue[j - Len(hand)]
      BY <2>1, LenProperties, ConcatProperties DEF Unanswered
    <3>2. CASE j <= Len(hand)
      <4>1. j \in 1 .. Len(hand) /\ Unanswered[j] = hand[j]
        BY <3>1, <3>2
      <4>2. PICK i \in 1 .. Len(popped) : hand[j] = pushed[i]
        BY <1>1, <4>1 DEF Inv, Identity, Held
      <4>3. InHand(pushed[i]) /\ i \in 1 .. Len(pushed)
        BY <1>1, <4>1, <4>2, Places DEF InHand, Inv
      <4> QED
        BY <4>1, <4>2, <4>3 DEF Answered
    <3>3. CASE ~(j <= Len(hand))
      <4> DEFINE q == j - Len(hand)
      <4>1. q \in 1 .. Len(queue) /\ Unanswered[j] = queue[q]
        BY <3>1, <3>3
      <4>2. /\ Len(popped) + q \in 1 .. Len(pushed)
            /\ pushed[Len(popped) + q] = queue[q]
            /\ Len(popped) \in Nat
        BY <1>1, <4>1, Places DEF Inv
      <4>3. ~(Len(popped) + q <= Len(popped))
        BY <3>1, <4>1, <4>2
      <4> QED
        BY <4>1, <4>2, <4>3 DEF Answered
    <3> QED
      BY <3>2, <3>3
  <2> QED
    BY <1>1, <2>2 DEF Unforgotten, TimedOut, UnansweredIsAwaitedOrTimedOut
<1> QED
  BY <1>1, UnforgottenInit, UnforgottenStep, Invariant, PTL DEF Steps

(***************************************************************************)
(* A command without an answer is awaited, or its client was told that it  *)
(* timed out, however many clients there are and however long they go on.  *)
(***************************************************************************)
THEOREM UnansweredCorrect == Spec => []UnansweredIsAwaitedOrTimedOut
  BY UnansweredHolds, PTL DEF Spec, Steps

-----------------------------------------------------------------------------
(***************************************************************************)
(* RepliesMatch.                                                           *)
(***************************************************************************)
Refusals == {ERR_PARSE, ERR_INVALID_REQ}

\* The reply r to the k-th request of c matches.
Matches(r, c, k) ==
    IF r.code \in Refusals
      THEN r.id = Null /\ CommandsAt(c, k) = {}
      ELSE \E i \in CommandsAt(c, k) :
              /\ r.id = pushed[i].id
              /\ r.code = ERR_TIMEOUT \/ r = promise[c][k]

LEMMA CodesDiffer ==
    /\ ERR_TIMEOUT \notin Refusals
    /\ \A code \in Ran : code \notin Refusals /\ code # ERR_TIMEOUT
  BY DEF Refusals, Ran, Result, ERR_PARSE, ERR_INVALID_REQ, ERR_NOT_FOUND,
         ERR_REAPER_API, ERR_TIMEOUT

LEMMA MatchInit == Init => RepliesMatch
  BY DEF Init, RepliesMatch

LEMMA MatchPush ==
    ASSUME Inv, RepliesMatch, NEW c \in Clients, Push(c)
    PROVE  RepliesMatch'
<1>1. PICK cmd \in Command :
         /\ cmd.client = c /\ cmd.seq = Turn(c)
         /\ pushed' = Append(pushed, cmd)
         /\ UNCHANGED <<promise, replies>>
  BY PushActs
<1>2. pushed \in Seq(Command)
  BY DEF Inv, TypeInv, TypeOK
<1>3. /\ \A i \in 1 .. Len(pushed) : pushed'[i] = pushed[i]
      /\ 1 .. Len(pushed') = (1 .. Len(pushed)) \cup {Len(pushed) + 1}
      /\ pushed'[Len(pushed) + 1] = cmd
  BY <1>1, <1>2
<1>4. ASSUME NEW b \in Clients, NEW k \in 1 .. Len(replies[b])
      PROVE  /\ CommandsAt(b, k)' = CommandsAt(b, k)
             /\ \A i \in CommandsAt(b, k) : pushed'[i] = pushed[i]
  <2>1. ~(cmd.client = b /\ cmd.seq = k)
    BY <1>1, Typed DEF Inv
  <2> QED
    BY <1>3, <2>1 DEF CommandsAt
<1>5. ASSUME NEW b \in Clients, NEW k \in 1 .. Len(replies[b])
      PROVE  Matches(replies[b][k], b, k)'
  <2>1. Matches(replies[b][k], b, k)
    BY DEF RepliesMatch, Matches, Refusals
  <2> QED
    BY <1>1, <1>4, <2>1 DEF Matches
<1> QED
  BY <1>1, <1>5 DEF RepliesMatch, Matches, Refusals

LEMMA MatchReply ==
    ASSUME Inv, RepliesMatch, NEW c \in Clients, Refuse(c) \/ FutureReady(c) \/ WaitTimeout(c)
    PROVE  RepliesMatch'
<1>1. PICK r \in Response :
         /\ Return(c, r)
         /\ UNCHANGED <<promise, pushed>>
         /\ \/ awaiting[c] = <<>> /\ r.id = Null /\ r.code \in Refusals
            \/ /\ awaiting[c] # <<>>
               /\ \/ Ready(c) /\ r = promise[c][Turn(c)]
                  \/ r = make_error(awaiting[c][1].id, ERR_TIMEOUT)
  BY ReplyActs DEF Refusals
<1>2. replies \in [Clients -> Seq(Response)]
  BY DEF Inv, TypeInv, TypeOK
<1>3. /\ 1 .. Len(replies'[c]) = (1 .. Len(replies[c])) \cup {Turn(c)}
      /\ replies'[c][Turn(c)] = r
      /\ \A k \in 1 .. Len(replies[c]) : replies'[c][k] = replies[c][k]
      /\ \A b \in Clients : b # c => replies'[b] = replies[b]
  BY <1>1, <1>2 DEF Return, Turn
<1>4. \A q, b, k : Matches(q, b, k)' <=> Matches(q, b, k)
  BY <1>1 DEF Matches, CommandsAt
<1>5. Matches(r, c, Turn(c))
  <2>1. CASE awaiting[c] = <<>> /\ r.id = Null /\ r.code \in Refusals
    <3>1. CommandsAt(c, Turn(c)) = {}
      BY <2>1, Typed DEF Inv, Identity, Issued, Begun, CommandsAt
    <3> QED
      BY <2>1, <3>1 DEF Matches
  <2>2. CASE awaiting[c] # <<>> /\ Ready(c) /\ r = promise[c][Turn(c)]
    <3>1. Turn(c) \in 1 .. MaxRequests /\ ~Ended
      BY <2>2 DEF Inv, TypeInv, Control, Identity, AwaitsOwn
    <3>2. \E i \in CommandsAt(c, Turn(c)) : Fits(r, pushed[i])
      BY <2>2, <3>1 DEF Inv, Identity, PromisesFit, Ready
    <3> QED
      BY <2>2, <3>1, <3>2, CodesDiffer DEF Matches, Fits
  <2>3. CASE awaiting[c] # <<>> /\ r = make_error(awaiting[c][1].id, ERR_TIMEOUT)
    <3>1. PICK i \in CommandsAt(c, Turn(c)) : awaiting[c] = <<pushed[i]>>
      BY <2>3 DEF Inv, Identity, AwaitsOwn
    <3>2. r.id = pushed[i].id /\ r.code = ERR_TIMEOUT
      BY <2>3, <3>1 DEF make_error
    <3> QED
      BY <3>2, CodesDiffer DEF Matches
  <2> QED
    BY <1>1, <2>1, <2>2, <2>3
<1>6. ASSUME NEW b \in Clients, NEW k \in 1 .. Len(replies'[b])
      PROVE  Matches(replies'[b][k], b, k)
  <2>1. CASE k \in 1 .. Len(replies[b])
    <3>1. replies'[b][k] = replies[b][k]
      BY <1>3, <2>1
    <3> QED
      BY <2>1, <3>1 DEF RepliesMatch, Matches, Refusals
  <2>2. CASE b = c /\ k = Turn(c)
    BY <1>3, <1>5, <2>2
  <2> QED
    BY <1>3, <2>1, <2>2
<1> QED
  BY <1>1, <1>6 DEF RepliesMatch, Matches, Refusals, CommandsAt

\* No reply so far is the value a promise is about to get.
LEMMA MatchAnswer ==
    ASSUME Inv, RepliesMatch, SetValue \/ Drain
    PROVE  RepliesMatch'
<1>1. PICK cmd \in Command, r \in Response :
         /\ SetPromise(cmd, r)
         /\ UNCHANGED <<replies, pushed>>
         /\ promise[cmd.client][cmd.seq] = Unset
  <2>1. PICK cmd \in Command, r \in Response, n \in 1 .. Len(pushed) : Answers(cmd, r, n)
    BY SetValueActs, DrainActs
  <2>2. promise[cmd.client][cmd.seq] = Unset
    BY <2>1, AnswerStep DEF Answers
  <2> QED
    BY <2>1, <2>2 DEF Answers
<1>2. /\ promise \in [Clients -> [1 .. MaxRequests -> Response \cup {Unset}]]
      /\ replies \in [Clients -> Seq(Response)]
  BY DEF Inv, TypeInv, TypeOK
<1>3. ASSUME NEW b \in Clients, NEW k \in 1 .. Len(replies[b]), k \in 1 .. MaxRequests,
             replies[b][k] = promise[b][k]
      PROVE  replies[b][k] = promise'[b][k]
  <2>1. replies[b][k] \in Response
    BY <1>2
  <2>2. ~(b = cmd.client /\ k = cmd.seq)
    BY <1>1, <1>3, <2>1, NotUnset
  <2> QED
    BY <1>1, <1>2, <1>3, <2>2 DEF SetPromise
<1>4. ASSUME NEW b \in Clients, NEW k \in 1 .. Len(replies[b])
      PROVE  Matches(replies[b][k], b, k)'
  <2>1. Matches(replies[b][k], b, k)
    BY DEF RepliesMatch, Matches, Refusals
  <2>2. \A i \in CommandsAt(b, k) : k \in 1 .. MaxRequests
    BY Typed DEF Inv, CommandsAt
  <2>3. CommandsAt(b, k)' = CommandsAt(b, k)
    BY <1>1 DEF CommandsAt
  <2> QED
    BY <1>1, <1>3, <2>1, <2>2, <2>3 DEF Matches
<1> QED
  BY <1>1, <1>4 DEF RepliesMatch, Matches, Refusals

LEMMA MatchStep == Inv /\ RepliesMatch /\ [Next]_vars => RepliesMatch'
<1> SUFFICES ASSUME Inv, RepliesMatch, [Next]_vars
             PROVE  RepliesMatch'
  OBVIOUS
<1>1. ASSUME NEW c \in Clients, Push(c)
      PROVE  RepliesMatch'
  BY <1>1, MatchPush
<1>2. ASSUME NEW c \in Clients, Refuse(c) \/ FutureReady(c) \/ WaitTimeout(c)
      PROVE  RepliesMatch'
  BY <1>2, MatchReply
<1>3. CASE SetValue \/ Drain
  BY <1>3, MatchAnswer
<1>4. CASE TryPop
  <2>1. UNCHANGED <<promise, replies, pushed>>
    BY <1>4, PopActs
  <2> QED
    BY <2>1 DEF RepliesMatch, CommandsAt
<1>5. CASE \/ TimerFires \/ TickEnds \/ Dispatch \/ Escapes
           \/ UnregisterTimer \/ ServerStopped \/ DrainEnds \/ UNCHANGED vars
  BY <1>5, QuietActs DEF RepliesMatch, CommandsAt
<1> QED
  BY <1>1, <1>2, <1>3, <1>4, <1>5, Shapes

LEMMA RepliesHold == Steps => []RepliesMatch
  BY Invariant, MatchInit, MatchStep, PTL DEF Steps

(***************************************************************************)
(* A reply is about the request it answers, and a late answer never        *)
(* becomes the reply to a later request of the connection.                 *)
(***************************************************************************)
THEOREM RepliesCorrect == Spec => []RepliesMatch
  BY RepliesHold, PTL DEF Spec, Steps

-----------------------------------------------------------------------------
(***************************************************************************)
(* CommandPipeline implements RpcService.                                  *)
(***************************************************************************)

(***************************************************************************)
(* The refinement mapping.                                                 *)
(***************************************************************************)
CallOf(cmd) == [client |-> cmd.client, seq |-> cmd.seq]

Calls   == [i \in 1 .. Len(pushed) |-> CallOf(pushed[i])]
Running == [i \in 1 .. Len(hand) |-> CallOf(hand[i])]

Kinds == [c \in Clients |-> [k \in 1 .. Len(replies[c]) |-> Kind(replies[c][k].code)]]

LEMMA KindOf ==
    /\ \A code \in Refusals : Kind(code) = "refused"
    /\ Kind(ERR_TIMEOUT) = "expired"
    /\ \A code \in Ran : Kind(code) = "answered"
<1>1. \A code \in Refusals : Kind(code) = "refused"
  BY CodesDiffer DEF Kind, Refusals
<1>2. Kind(ERR_TIMEOUT) = "expired"
  BY CodesDiffer DEF Kind, Refusals
<1>3. ASSUME NEW code \in Ran
      PROVE  Kind(code) = "answered"
  BY CodesDiffer DEF Kind, Refusals
<1> QED
  BY <1>1, <1>2, <1>3

\* The abstract service, spelled out on the mapped state.
LEMMA Mapped ==
    /\ Service!vars = <<Calls, Len(popped), Running, Kinds>>
    /\ Service!Init <=> /\ Calls = <<>> /\ Len(popped) = 0 /\ Running = <<>>
                       /\ Kinds = [c \in Clients |-> <<>>]
    /\ \A c : Service!Open(c) =
          {i \in 1 .. Len(Calls) : Calls[i] = [client |-> c, seq |-> Len(Kinds[c]) + 1]}
    /\ \A i : Service!Executed(i) <=>
          i <= Len(popped) /\ \A j \in 1 .. Len(Running) : Running[j] # Calls[i]
  BY DEF Service!vars, Service!Init, Service!Open, Service!Call, Service!Executed,
         CallsOf, Calls, Running, Kinds, CallOf

\* A call has been executed when its command is answered: of the commands
\* pushed, no two have the same client and place.
LEMMA ExecutedCalls ==
    ASSUME Inv, NEW i \in 1 .. Len(pushed)
    PROVE  Service!Executed(i) <=> Answered(i)
<1>1. Held /\ Issued /\ \A k \in 1 .. Len(popped) : k \in 1 .. Len(pushed)
  BY Places DEF Inv, Identity
<1>2. Calls[i] = CallOf(pushed[i])
  BY DEF Calls
<1>3. Len(hand) \in Nat /\ Len(Running) = Len(hand)
  BY LenProperties DEF Running, Inv, TypeInv, TypeOK
<1>4. ASSUME NEW j \in 1 .. Len(hand)
      PROVE  Running[j] = Calls[i] <=> hand[j] = pushed[i]
  <2>1. PICK k \in 1 .. Len(popped) : hand[j] = pushed[k]
    BY <1>1 DEF Held
  <2>2. Running[j] = CallOf(pushed[k])
    BY <2>1 DEF Running
  <2>3. CallOf(pushed[k]) = CallOf(pushed[i])
           <=> pushed[k].client = pushed[i].client /\ pushed[k].seq = pushed[i].seq
    BY DEF CallOf
  <2>4. CallOf(pushed[k]) = CallOf(pushed[i]) <=> pushed[k] = pushed[i]
    BY <1>1, <2>3 DEF Issued, CallOf
  <2> QED
    BY <1>2, <2>1, <2>2, <2>4
<1> QED
  BY <1>3, <1>4, Mapped DEF Answered, InHand

\* The commands at the turn of c are its open calls.
LEMMA OpenCalls ==
    ASSUME Inv, NEW c \in Clients
    PROVE  Service!Open(c) = CommandsAt(c, Turn(c))
<1>1. Len(Calls) = Len(pushed) /\ Len(Kinds[c]) = Len(replies[c])
  BY Typed DEF Inv, Calls, Kinds
<1>2. \A i \in 1 .. Len(pushed) :
         Calls[i] = [client |-> c, seq |-> Turn(c)]
            <=> pushed[i].client = c /\ pushed[i].seq = Turn(c)
  BY DEF Calls, CallOf
<1> QED
  BY <1>1, <1>2, Mapped DEF CommandsAt, Turn

-----------------------------------------------------------------------------
LEMMA RefinesInit == Init => Service!Init
<1> SUFFICES ASSUME Init
             PROVE  /\ Calls = <<>> /\ Len(popped) = 0 /\ Running = <<>>
                    /\ Kinds = [c \in Clients |-> <<>>]
  BY Mapped
<1> QED
  BY DEF Init, Calls, Running, Kinds

LEMMA RefinesPush ==
    ASSUME Inv, NEW c \in Clients, Push(c)
    PROVE  Service!Submit(c)
<1>1. PICK cmd \in Command :
         /\ cmd.client = c /\ cmd.seq = Turn(c) /\ awaiting[c] = <<>>
         /\ pushed' = Append(pushed, cmd)
         /\ UNCHANGED <<replies, hand, popped>>
  BY PushActs
<1>2. Service!Open(c) = {}
  <2>1. CommandsAt(c, Turn(c)) = {}
    BY <1>1, Typed DEF Inv, Identity, Issued, Begun, CommandsAt
  <2> QED
    BY <2>1, OpenCalls
<1>3. pushed \in Seq(Command)
  BY DEF Inv, TypeInv, TypeOK
<1>4. Calls' = Append(Calls, CallOf(cmd))
  BY <1>1, <1>3 DEF Calls
<1>5. CallOf(cmd) = [client |-> c, seq |-> Len(Kinds[c]) + 1]
  <2>1. Len(Kinds[c]) = Len(replies[c])
    BY Typed DEF Inv, Kinds
  <2> QED
    BY <1>1, <2>1, Typed DEF Inv, CallOf
<1>6. Kinds' = Kinds /\ Running' = Running /\ Len(popped') = Len(popped)
  BY <1>1 DEF Kinds, Running
<1> QED
  BY <1>2, <1>4, <1>5, <1>6 DEF Service!Submit, Service!Call, CallsOf, Calls, Running, Kinds, CallOf

LEMMA RefinesReply ==
    ASSUME Inv, NEW c \in Clients, Refuse(c) \/ FutureReady(c) \/ WaitTimeout(c)
    PROVE  Service!Refuse(c) \/ Service!Answer(c) \/ Service!Expire(c)
<1>1. PICK r \in Response :
         /\ Return(c, r)
         /\ UNCHANGED <<hand, pushed, popped>>
         /\ \/ awaiting[c] = <<>> /\ r.code \in Refusals
            \/ /\ awaiting[c] # <<>>
               /\ \/ Ready(c) /\ r = promise[c][Turn(c)]
                  \/ ~Ready(c) /\ r = make_error(awaiting[c][1].id, ERR_TIMEOUT)
  BY ReplyActs DEF Refusals
<1>2. replies \in [Clients -> Seq(Response)]
  BY DEF Inv, TypeInv, TypeOK
<1>3. Kinds' = [Kinds EXCEPT ![c] = Append(@, Kind(r.code))]
  <2>1. replies' = [replies EXCEPT ![c] = Append(replies[c], r)]
    BY <1>1 DEF Return
  <2>2. [k \in 1 .. Len(replies'[c]) |-> Kind(replies'[c][k].code)]
           = Append([k \in 1 .. Len(replies[c]) |-> Kind(replies[c][k].code)], Kind(r.code))
    BY <1>2, <2>1
  <2> QED
    BY <1>2, <2>1, <2>2 DEF Kinds
<1>4. Service!Reply(c, Kind(r.code))
  BY <1>1, <1>3 DEF Service!Reply, CallsOf, Calls, Running, Kinds, CallOf
<1>5. CASE awaiting[c] = <<>> /\ r.code \in Refusals
  <2>1. CommandsAt(c, Turn(c)) = {}
    BY <1>5, Typed DEF Inv, Identity, Issued, Begun, CommandsAt
  <2>2. Service!Open(c) = {} /\ Kind(r.code) = "refused"
    BY <1>5, <2>1, OpenCalls, KindOf
  <2> QED
    BY <1>4, <2>2 DEF Service!Refuse
<1>6. CASE awaiting[c] # <<>>
  <2>1. PICK i \in CommandsAt(c, Turn(c)) : awaiting[c] = <<pushed[i]>>
    BY <1>6 DEF Inv, Identity, AwaitsOwn
  <2>2. /\ i \in Service!Open(c)
        /\ i \in 1 .. Len(pushed)
        /\ Ready(c) <=> Service!Executed(i)
    BY <2>1, OpenCalls, ExecutedCalls DEF CommandsAt, Inv, Identity, PromisesOfAnswered, Ready
  <2>3. CASE Ready(c) /\ r = promise[c][Turn(c)]
    <3>1. Turn(c) \in 1 .. MaxRequests /\ ~Ended
      BY <1>6 DEF Inv, TypeInv, Control, Identity, AwaitsOwn
    <3>2. r.code \in Ran
      BY <2>3, <3>1 DEF Inv, Identity, PromisesFit, Ready, Fits
    <3>3. Kind(r.code) = "answered"
      BY <3>2, KindOf
    <3> QED
      BY <1>4, <2>2, <2>3, <3>3 DEF Service!Answer
  <2>4. CASE ~Ready(c) /\ r = make_error(awaiting[c][1].id, ERR_TIMEOUT)
    <3>1. Kind(r.code) = "expired"
      BY <2>4, KindOf DEF make_error
    <3> QED
      BY <1>4, <2>2, <2>4, <3>1 DEF Service!Expire
  <2> QED
    BY <1>1, <1>6, <2>3, <2>4
<1> QED
  BY <1>1, <1>5, <1>6

LEMMA RefinesBegin ==
    ASSUME Inv, TryPop
    PROVE  Service!Begin
<1>1. PICK cmd \in Command :
         /\ Len(popped) + 1 \in 1 .. Len(pushed)
         /\ pushed[Len(popped) + 1] = cmd
         /\ hand' = Append(hand, cmd)
         /\ popped' = Append(popped, cmd)
         /\ UNCHANGED <<replies, pushed>>
  BY PopActs
<1>2. hand \in Seq(Command) /\ popped \in Seq(Command)
  BY DEF Inv, TypeInv, TypeOK
<1>3. Len(popped') = Len(popped) + 1 /\ Len(popped) \in Nat
  BY <1>1, <1>2, AppendOf
<1>4. Running' = Append(Running, CallOf(cmd))
  BY <1>1, <1>2 DEF Running
<1>5. Len(Calls) = Len(pushed) /\ Calls[Len(popped) + 1] = CallOf(cmd)
  BY <1>1, Typed DEF Inv, Calls
<1>6. Len(popped) < Len(Calls)
  BY <1>1, <1>3, <1>5, Typed DEF Inv
<1>7. Calls' = Calls /\ Kinds' = Kinds
  BY <1>1 DEF Calls, Kinds
<1> QED
  BY <1>3, <1>4, <1>5, <1>6, <1>7 DEF Service!Begin, CallsOf, Calls, Running, Kinds, CallOf

LEMMA RefinesEnd ==
    ASSUME Inv, SetValue
    PROVE  Service!End
<1>1. hand # <<>> /\ hand \in Seq(Command)
  BY DEF SetValue, Inv, TypeInv, TypeOK, Control, Callbacks, Holds
<1>2. hand' = Front(hand) /\ UNCHANGED <<replies, pushed, popped>>
  BY DEF SetValue
<1>3. /\ Len(hand) \in Nat \ {0}
      /\ Len(hand') = Len(hand) - 1
      /\ \A j \in 1 .. Len(hand) - 1 : hand'[j] = hand[j]
  BY <1>1, <1>2, LastOf, FrontOf
<1>4. Len(Running) = Len(hand)
  BY <1>3 DEF Running
<1>5. SubSeq(Running, 1, Len(hand) - 1) = [i \in 1 .. Len(hand) - 1 |-> Running[i]]
  BY <1>3, <1>4
<1>6. Running' = SubSeq(Running, 1, Len(Running) - 1)
  BY <1>3, <1>4, <1>5 DEF Running
<1>7. Running # <<>>
  BY <1>3, <1>4
<1>8. Calls' = Calls /\ Kinds' = Kinds /\ Len(popped') = Len(popped)
  BY <1>2 DEF Calls, Kinds
<1> QED
  BY <1>6, <1>7, <1>8 DEF Service!End, CallsOf, Calls, Running, Kinds, CallOf

LEMMA RefinesDismiss ==
    ASSUME Inv, Drain
    PROVE  Service!Dismiss
<1>1. /\ hand = <<>> /\ hand' = <<>>
      /\ queue # <<>> /\ queue \in Seq(Command) /\ popped \in Seq(Command)
      /\ popped' = Append(popped, Head(queue))
      /\ UNCHANGED <<replies, pushed>>
  BY DEF Drain, HasWork, Inv, TypeInv, TypeOK, Control, Callbacks, Holds
<1>2. Head(queue) \in Command /\ 1 \in 1 .. Len(queue)
  BY <1>1
<1>3. Len(popped') = Len(popped) + 1 /\ Len(popped) \in Nat
  BY <1>1, <1>2, AppendOf
<1>4. Len(Calls) = Len(pushed)
  BY Typed DEF Inv, Calls
<1>5. Len(popped) < Len(Calls)
  BY <1>2, <1>3, <1>4, Places DEF Inv
<1>6. Running = <<>> /\ Running' = <<>> /\ Calls' = Calls /\ Kinds' = Kinds
  BY <1>1 DEF Running, Calls, Kinds
<1> QED
  BY <1>3, <1>5, <1>6 DEF Service!Dismiss, CallsOf, Calls, Running, Kinds, CallOf

LEMMA RefinesStep == Inv /\ [Next]_vars => [Service!Next]_Service!vars
<1> SUFFICES ASSUME Inv, [Next]_vars
             PROVE  [Service!Next]_Service!vars
  OBVIOUS
<1>1. ASSUME NEW c \in Clients, Push(c)
      PROVE  Service!Next
  BY <1>1, RefinesPush DEF Service!Next
<1>2. ASSUME NEW c \in Clients, Refuse(c) \/ FutureReady(c) \/ WaitTimeout(c)
      PROVE  Service!Next
  BY <1>2, RefinesReply DEF Service!Next
<1>3. CASE TryPop
  BY <1>3, RefinesBegin DEF Service!Next
<1>4. CASE SetValue
  BY <1>4, RefinesEnd DEF Service!Next
<1>5. CASE Drain
  BY <1>5, RefinesDismiss DEF Service!Next
<1>6. CASE \/ TimerFires \/ TickEnds \/ Dispatch \/ Escapes
           \/ UnregisterTimer \/ ServerStopped \/ DrainEnds \/ UNCHANGED vars
  <2>1. UNCHANGED <<hand, pushed, popped, replies>>
    BY <1>6, QuietActs
  <2>2. UNCHANGED <<Calls, Len(popped), Running, Kinds>>
    BY <2>1 DEF Calls, Running, Kinds
  <2>3. UNCHANGED Service!vars
    BY <2>2 DEF Service!vars, CallsOf, Calls, Running, Kinds, CallOf
  <2> QED
    BY <2>3
<1> QED
  BY <1>1, <1>2, <1>3, <1>4, <1>5, <1>6, Shapes

LEMMA RefinesBySteps == Steps => ImplementsRpcService
<1>1. Init => Service!Init
  BY RefinesInit
<1>2. Inv /\ [Next]_vars => [Service!Next]_Service!vars
  BY RefinesStep
<1> QED
  BY <1>1, <1>2, Invariant, PTL DEF Steps, ImplementsRpcService, Service!Spec

(***************************************************************************)
(* Threads, queue, promises, nested timer callbacks, time-outs and         *)
(* unloading together keep the promise of RpcService: each call begins at  *)
(* most once and in order, the innermost running one ends first, and each  *)
(* call ends for its client with one reply of the right kind.              *)
(***************************************************************************)
THEOREM RefinesRpcService == Spec => ImplementsRpcService
  BY RefinesBySteps, PTL DEF Spec, Steps
=============================================================================

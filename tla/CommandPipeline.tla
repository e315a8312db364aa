-------------------------- MODULE CommandPipeline --------------------------
(***************************************************************************)
(* The path of a request from a client thread to REAPER's main thread and  *)
(* back: handle_request and timer_callback (main.cpp), the command queue   *)
(* between them (command_queue.cpp), the registry the main thread looks    *)
(* the method up in (command_registry.cpp), and the end of the plugin,     *)
(* which unregisters the timer, waits for the server and drains the queue. *)
(*                                                                         *)
(* One client thread serves one connection and handles one request at a    *)
(* time, so a request is named by its client and its place on that         *)
(* connection.  Everything else the server does is in TcpServer.           *)
(*                                                                         *)
(* A command may open a window (a script of the Lua commands does), and    *)
(* REAPER may go on calling the timer while it is open: callbacks nest, in *)
(* the middle of the try block of the one below.                           *)
(***************************************************************************)
EXTENDS JsonRpc, Sequences, FiniteSets, SequencesExt

CONSTANTS
    Clients,      \* the connections, each with its thread
    Documents,    \* the payloads a client may send (see Raw)
    Registered,   \* the method names the registry holds
    MaxRequests,  \* bound: requests per connection
    TickBatch,    \* commands one timer callback handles at most; 5 in the code
    MaxNesting    \* bound: callbacks in progress, each in a window of the one below

ASSUME DocumentsAssumption ==
    Documents \subseteq [form    : Forms,
                         jsonrpc : STRING,
                         method  : STRING,
                         id      : {"given", "absent"}]
ASSUME MaxRequestsAssumption == MaxRequests \in Nat
ASSUME TickBatchAssumption   == TickBatch \in Nat \ {0} /\ MaxNesting \in Nat

VARIABLES
    queue,     \* g_queue: the commands waiting for the main thread
    promise,   \* promise[c][k]: what the k-th command of c was answered
    awaiting,  \* awaiting[c]: <<cmd>> while the thread of c is in wait_for on
               \* the future of cmd, <<>> while it is not in handle_request
    replies,   \* replies[c]: the responses handle_request has returned to c
    main,      \* where the main thread is, in the innermost callback if there
               \* is one; the ones below are in "dispatch"
    taken,     \* timer_callback's i for each callback in progress, the innermost
               \* last: the commands it has handled
    hand,      \* timer_callback's cmd for each callback that has one
    response,  \* timer_callback's response, in the innermost callback
    pushed,    \* history: every command, in the order of its push
    popped     \* history: the commands taken out of the queue, in that order

vars == <<queue, promise, awaiting, replies, main, taken, hand, response,
          pushed, popped>>

-----------------------------------------------------------------------------
Codes == {Result, ERR_PARSE, ERR_INVALID_REQ, ERR_NOT_FOUND, ERR_REAPER_API,
          ERR_TIMEOUT}

Response == [id : Nat, code : Codes]

\* A promise without a value.
Unset == [id |-> Null, code |-> 1]

Command == [client : Clients, seq : 1 .. MaxRequests, method : STRING, id : Nat]

\* The place of the request that c is sending or waiting for.
Turn(c) == Len(replies[c]) + 1

\* The payload d as the k-th request of a connection: its id, if it has one,
\* is k, so that the ids of one connection are distinct.
Raw(d, k) == [form |-> d.form, jsonrpc |-> d.jsonrpc, method |-> d.method,
              id   |-> IF d.id = "given" THEN k ELSE Null]

\* The payloads that parse_request returns from.
Parsed == {d \in Documents : ~ParseThrows(d)}

Request(c, d) == parse_request(Raw(d, Turn(c)))

CommandOf(c, d) == [client |-> c, seq |-> Turn(c),
                    method |-> Request(c, d).method, id |-> Request(c, d).id]

-----------------------------------------------------------------------------
Init ==
    /\ queue    = <<>>
    /\ promise  = [c \in Clients |-> [k \in 1 .. MaxRequests |-> Unset]]
    /\ awaiting = [c \in Clients |-> <<>>]
    /\ replies  = [c \in Clients |-> <<>>]
    /\ main     = "idle"
    /\ taken    = <<>>
    /\ hand     = <<>>
    /\ response = Unset
    /\ pushed   = <<>>
    /\ popped   = <<>>

(***************************************************************************)
(* The client threads.                                                     *)
(***************************************************************************)
Return(c, r) == replies' = [replies EXCEPT ![c] = Append(@, r)]

\* handle_request, on a payload parse_request refuses: answered at once.
RefuseRequest(c) ==
    /\ \E d \in Parsed :
          /\ Request(c, d).error # 0
          /\ Return(c, make_error(Request(c, d).id, Request(c, d).error))
    /\ UNCHANGED <<queue, promise, awaiting, main, taken, hand, response,
                   pushed, popped>>

\* CommandQueue::push.  (Fault: the newest command is put first.)
FaultyEnqueueFirst(cmd) == queue' = <<cmd>> \o queue
Enqueue(cmd) == queue' = Append(queue, cmd)

\* handle_request, on a valid request: push it and start to wait.
PushRequest(c) ==
    /\ \E d \in Parsed :
          /\ Request(c, d).error = 0
          /\ Enqueue(CommandOf(c, d))
          /\ awaiting' = [awaiting EXCEPT ![c] = <<CommandOf(c, d)>>]
          /\ pushed' = Append(pushed, CommandOf(c, d))
    /\ UNCHANGED <<promise, replies, main, taken, hand, response, popped>>

\* handle_request, on a payload that makes the parser throw: the exception leaves
\* the client thread, and the process ends.
RequestEscapes ==
    /\ \E d \in Documents : ParseThrows(d)
    /\ main' = "crashed"
    /\ UNCHANGED <<queue, promise, awaiting, replies, taken, hand, response,
                   pushed, popped>>

\* A thread that is not in handle_request enters it with a request.  Threads
\* exist until the server has joined them, which the main thread waits for
\* before it drains the queue, or until the process has died.
CanHandle(c) ==
    /\ main \notin {"drain", "unloaded", "crashed"}
    /\ awaiting[c] = <<>>
    /\ Turn(c) <= MaxRequests

Refuse(c) == CanHandle(c) /\ RefuseRequest(c)
Push(c)   == CanHandle(c) /\ PushRequest(c)
Escape(c) == CanHandle(c) /\ RequestEscapes

\* The end of handle_request, with the response r.
StopWaiting(c, r) ==
    /\ Return(c, r)
    /\ awaiting' = [awaiting EXCEPT ![c] = <<>>]
    /\ UNCHANGED <<queue, promise, main, taken, hand, response, pushed,
                   popped>>

Waiting(c) == main # "crashed" /\ awaiting[c] # <<>>

\* The future of the command of c is ready.  (Fault: wait_for's status is not
\* looked at.)
FaultyReadyUnchecked(c) == TRUE
Ready(c) == promise[c][Turn(c)] # Unset

\* wait_for finds the future ready: the thread returns what the promise holds.
FutureReady(c) ==
    /\ Waiting(c)
    /\ Ready(c)
    /\ StopWaiting(c, promise[c][Turn(c)])

\* Ten seconds are over and the promise has no value.  The command stays where
\* it is, queued or in the hands of the main thread; only its future is gone.
WaitTimeout(c) ==
    /\ Waiting(c)
    /\ ~Ready(c)
    /\ StopWaiting(c, make_error(awaiting[c][1].id, ERR_TIMEOUT))

(***************************************************************************)
(* The main thread in timer_callback.                                      *)
(***************************************************************************)
\* A command that the registry knows may open a window.
has_command(method) == method \in Registered

\* REAPER calls the registered callback, between callbacks or in a window.
TimerFires ==
    /\ \/ main = "idle"
       \/ main = "dispatch" /\ has_command(Last(hand).method) /\ Len(taken) < MaxNesting
    /\ main' = "loop"
    /\ taken' = Append(taken, 0)
    /\ UNCHANGED <<queue, promise, awaiting, replies, hand, response, pushed, popped>>

\* The condition of the for loop.  (Fault: one turn too many.)
FaultyInBatchOffByOne == Last(taken) <= TickBatch
InBatch == Last(taken) < TickBatch

\* CommandQueue::try_pop finds a command.  (Fault: the last one is overlooked.)
FaultyHasWorkButLast == Len(queue) > 1
HasWork == queue # <<>>

\* What try_pop leaves of the queue.  (Fault: the command is copied out.)
FaultyPopCopies == queue
Popped == Tail(queue)

TryPop ==
    /\ main = "loop"
    /\ InBatch
    /\ HasWork
    /\ hand' = Append(hand, Head(queue))
    /\ popped' = Append(popped, Head(queue))
    /\ queue' = Popped
    /\ main' = "dispatch"
    /\ UNCHANGED <<promise, awaiting, replies, taken, response, pushed>>

\* The loop is left: the queue is empty, or the batch is full.
TickEnds ==
    /\ main = "loop"
    /\ ~InBatch \/ ~HasWork
    /\ main' = IF hand = <<>> THEN "idle" ELSE "dispatch"
    /\ taken' = Front(taken)
    /\ UNCHANGED <<queue, promise, awaiting, replies, hand, response, pushed, popped>>

(***************************************************************************)
(* The try block.  What a command does in REAPER is not this module's      *)
(* matter: a registered one returns a result that can be serialised, or    *)
(* throws (as make_result does when the result holds bytes that are not    *)
(* UTF-8), which the catch block turns into an error.                      *)
(***************************************************************************)
Outcomes(cmd) ==
    IF has_command(cmd.method)
      THEN {make_result(cmd.id), make_error(cmd.id, ERR_REAPER_API)}
      ELSE {make_error(cmd.id, ERR_NOT_FOUND)}

Dispatch ==
    /\ main = "dispatch"
    /\ response' \in Outcomes(Last(hand))
    /\ main' = "reply"
    /\ UNCHANGED <<queue, promise, awaiting, replies, taken, hand, pushed,
                   popped>>

\* The text of the exception is itself not UTF-8 (a Lua error may hold any
\* bytes): make_error throws inside the catch block, the exception leaves the
\* callback, and the abandoned promise would throw in the client's thread.
DispatchEscapes ==
    /\ main = "dispatch"
    /\ has_command(Last(hand).method)
    /\ main' = "crashed"
    /\ UNCHANGED <<queue, promise, awaiting, replies, taken, hand, response,
                   pushed, popped>>

\* cmd->response.set_value(r).  (Fault: one promise per connection, whatever
\* request it is waiting for now.)
FaultySetPromiseOfConnection(cmd, r) ==
    promise' = [promise EXCEPT ![cmd.client][Turn(cmd.client)] = r]

SetPromise(cmd, r) == promise' = [promise EXCEPT ![cmd.client][cmd.seq] = r]

\* The command of the callback that goes on.  (Fault: cmd is shared by all
\* callbacks, and is what the outermost one popped.)
FaultySharedCmd == hand[1]
Current == Last(hand)

SetValue ==
    /\ main = "reply"
    /\ SetPromise(Current, response)
    /\ hand' = Front(hand)
    /\ response' = Unset
    /\ taken' = [taken EXCEPT ![Len(taken)] = @ + 1]
    /\ main' = "loop"
    /\ UNCHANGED <<queue, awaiting, replies, pushed, popped>>

(***************************************************************************)
(* The main thread in ReaperPluginEntry(NULL), the end of the plugin.      *)
(***************************************************************************)
\* plugin_register("-timer"): no callback runs after it.
UnregisterTimer ==
    /\ main = "idle"
    /\ main' = "stopping"
    /\ UNCHANGED <<queue, promise, awaiting, replies, taken, hand, response,
                   pushed, popped>>

\* g_server->stop() returns: it has joined every client thread, so none is in
\* handle_request.  Whether it returns is the matter of TcpServer.
EnterDrain ==
    /\ main = "stopping"
    /\ main' = "drain"
    /\ UNCHANGED <<queue, promise, awaiting, replies, taken, hand, response,
                   pushed, popped>>

ServerStopped == (\A c \in Clients : awaiting[c] = <<>>) /\ EnterDrain

\* One turn of the loop that answers what is still queued.
Drain ==
    /\ main = "drain"
    /\ HasWork
    /\ queue' = Popped
    /\ popped' = Append(popped, Head(queue))
    /\ SetPromise(Head(queue), make_error(Head(queue).id, ERR_TIMEOUT))
    /\ UNCHANGED <<awaiting, replies, main, taken, hand, response, pushed>>

DrainEnds ==
    /\ main = "drain"
    /\ ~HasWork
    /\ main' = "unloaded"
    /\ UNCHANGED <<queue, promise, awaiting, replies, taken, hand, response,
                   pushed, popped>>

-----------------------------------------------------------------------------
Callback  == TimerFires \/ TryPop \/ TickEnds \/ Dispatch \/ DispatchEscapes \/ SetValue
Unload    == UnregisterTimer \/ ServerStopped \/ Drain \/ DrainEnds
Client(c) == Refuse(c) \/ Push(c) \/ Escape(c) \/ FutureReady(c) \/ WaitTimeout(c)

Next == Callback \/ Unload \/ \E c \in Clients : Client(c)

(***************************************************************************)
(* wait_for returns, REAPER calls the timer while it is registered, the    *)
(* callback runs on and the drain loop runs on.  A command returns, though *)
(* the timer is called over and over in its window.  Nothing makes a       *)
(* client send or REAPER unload the plugin, and here nothing makes stop()  *)
(* return.                                                                 *)
(***************************************************************************)
Fairness ==
    /\ WF_vars(Callback)
    /\ SF_vars(Dispatch \/ DispatchEscapes)
    /\ WF_vars(Drain \/ DrainEnds)
    /\ \A c \in Clients : WF_vars(FutureReady(c) \/ WaitTimeout(c))

Spec == Init /\ [][Next]_vars /\ Fairness

-----------------------------------------------------------------------------
TypeOK ==
    /\ queue    \in Seq(Command)
    /\ promise  \in [Clients -> [1 .. MaxRequests -> Response \cup {Unset}]]
    /\ awaiting \in [Clients -> Seq(Command)]
    /\ replies  \in [Clients -> Seq(Response)]
    /\ main     \in {"idle", "loop", "dispatch", "reply", "stopping", "drain",
                     "unloaded", "crashed"}
    /\ taken    \in Seq(0 .. TickBatch)
    /\ hand     \in Seq(Command)
    /\ response \in Response \cup {Unset}
    /\ pushed   \in Seq(Command)
    /\ popped   \in Seq(Command)

(***************************************************************************)
(* Every command pushed is popped or queued, once and in the order of the  *)
(* pushes, whatever the client threads do meanwhile and however callbacks  *)
(* nest: a time-out takes nothing out, and the drain goes on where the     *)
(* last callback stopped.                                                  *)
(***************************************************************************)
InOrderOnce == pushed = popped \o queue

(***************************************************************************)
(* A command that has been popped is in the hands of one callback as long  *)
(* as it has no answer: a callback nested in another one neither answers   *)
(* nor forgets the command of the one below.                               *)
(***************************************************************************)
InHand(cmd) == \E j \in 1 .. Len(hand) : hand[j] = cmd

HeldUntilAnswered ==
    /\ \A j, k \in 1 .. Len(hand) : hand[j] = hand[k] => j = k
    /\ \A i \in 1 .. Len(popped) :
          InHand(popped[i]) <=> promise[popped[i].client][popped[i].seq] = Unset

(***************************************************************************)
(* A reply is about the request it answers: a refusal only of a request    *)
(* that never reached the queue; otherwise the id of that request with a   *)
(* time-out, or the very response its own command was given.  A late       *)
(* answer never becomes the reply to a later request of the connection.    *)
(***************************************************************************)
CommandsAt(c, k) == {i \in 1 .. Len(pushed) : pushed[i].client = c /\ pushed[i].seq = k}

RepliesMatch ==
    \A c \in Clients : \A k \in 1 .. Len(replies[c]) :
        LET r == replies[c][k]
        IN  IF r.code \in {ERR_PARSE, ERR_INVALID_REQ}
              THEN r.id = Null /\ CommandsAt(c, k) = {}
              ELSE \E i \in CommandsAt(c, k) :
                      /\ r.id = pushed[i].id
                      /\ r.code = ERR_TIMEOUT \/ r = promise[c][k]

(***************************************************************************)
(* A command without an answer is the one its client still waits for, or   *)
(* its client was told that it timed out: no thread is left waiting for a  *)
(* command the main thread has forgotten, and each client has at most one  *)
(* live command before the main thread.                                    *)
(***************************************************************************)
Unanswered == hand \o queue

UnansweredIsAwaitedOrTimedOut ==
    \A i \in 1 .. Len(Unanswered) :
        LET cmd == Unanswered[i]
        IN  \/ awaiting[cmd.client] = <<cmd>>
            \/ /\ cmd.seq <= Len(replies[cmd.client])
               /\ replies[cmd.client][cmd.seq] = make_error(cmd.id, ERR_TIMEOUT)

(***************************************************************************)
(* A promise gets one value: set_value on a promise that has one throws    *)
(* outside the callback's try block.                                       *)
(***************************************************************************)
SetOnce ==
    [][\A c \in Clients, k \in 1 .. MaxRequests :
          promise[c][k] # Unset => promise'[c][k] = promise[c][k]]_vars

(***************************************************************************)
(* The pipeline comes to rest between requests: every client that waits    *)
(* gets its response, also once the timer has been unregistered and nobody *)
(* pops commands any more, and the main thread runs all that was pushed,   *)
(* the timed-out commands too, unless the plugin is being unloaded or the  *)
(* process has died.                                                       *)
(***************************************************************************)
CatchesUp ==
    []<>(\/ main = "crashed"
         \/ /\ \A c \in Clients : awaiting[c] = <<>>
            /\ Unanswered = <<>> \/ main = "stopping")

(***************************************************************************)
(* The bridge design's risk table relies on the timer callback to catch    *)
(* C++ exceptions, so that a command cannot take REAPER down.  Violated:   *)
(* the catch block serialises the exception's own text, which can throw.   *)
(***************************************************************************)
CallbackCatchesAll == main # "crashed"

(***************************************************************************)
(* The pipeline keeps the promise of RpcService: a call begins when its    *)
(* command is popped and ends when its promise is set, and a reply is      *)
(* classified by its code.                                                 *)
(***************************************************************************)
Kind(code) == CASE code \in {ERR_PARSE, ERR_INVALID_REQ} -> "refused"
                [] code = ERR_TIMEOUT -> "expired"
                [] OTHER -> "answered"

CallsOf(commands) ==
    [i \in 1 .. Len(commands) |->
        [client |-> commands[i].client, seq |-> commands[i].seq]]

Service == INSTANCE RpcService WITH
    calls   <- CallsOf(pushed),
    begun   <- Len(popped),
    running <- CallsOf(hand),
    replies <- [c \in Clients |->
                   [k \in 1 .. Len(replies[c]) |-> Kind(replies[c][k].code)]]

ImplementsRpcService == Service!Spec
=============================================================================

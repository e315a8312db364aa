------------------------------- MODULE Plugin -------------------------------
(***************************************************************************)
(* The plugin as a whole (main.cpp): the server of TcpServer whose handler *)
(* is the handle_request of CommandPipeline, on one main thread that       *)
(* loads the plugin, runs the timer callback, and unloads the plugin.      *)
(*                                                                         *)
(* A client thread is in handle_request exactly while TcpServer has it at  *)
(* "handler".  The main thread is in timer_callback or in the drain when   *)
(* CommandPipeline says so, and in start() or stop() when TcpServer does.  *)
(***************************************************************************)
EXTENDS Naturals, Sequences, FiniteSetsExt

CONSTANTS Conns, Fds, Free, Foreign, MaxMessages, MaxForeign,
          Documents, Registered, MaxRequests, TickBatch, MaxNesting,
          MaxSent    \* bound: requests of all peers together

\* As TcpServer and CommandPipeline assume.
ASSUME PartsAssumption ==
    /\ Free \notin Conns /\ Foreign \notin Conns /\ Free # Foreign
    /\ MaxMessages \in Nat /\ MaxForeign \in Nat
    /\ Documents \subseteq [form    : {"not json", "overflow", "not an object", "object"},
                             jsonrpc : STRING,
                             method  : STRING,
                             id      : {"given", "absent"}]
    /\ MaxRequests \in Nat /\ TickBatch \in Nat \ {0} /\ MaxNesting \in Nat

VARIABLES
    server, running, listening, active, swept, threads, accept, accepted,
    client, sock, owner, shut, backlog, peer, inbox,
    queue, promise, awaiting, replies, main, taken, hand, response, pushed,
    popped

server_vars   == <<server, running, listening, active, swept, threads, accept,
                   accepted, client, sock, owner, shut, backlog, peer, inbox>>
pipeline_vars == <<queue, promise, awaiting, replies, main, taken, hand,
                   response, pushed, popped>>

S == INSTANCE TcpServer
P == INSTANCE CommandPipeline WITH Clients <- Conns

vars == <<server_vars, pipeline_vars>>

Alive == main # "crashed"

Init == S!Init /\ P!Init

(***************************************************************************)
(* The main thread.                                                        *)
(***************************************************************************)
\* ReaperPluginEntry: the timer is registered and the server started; when it
\* does not start, the plugin stays loaded without one.
Load == (S!Start \/ S!StartFails) /\ UNCHANGED pipeline_vars

TimerCallback == server \in {"started", "failed"} /\ P!Callback /\ UNCHANGED server_vars

\* ReaperPluginEntry(NULL): the timer first, then stop(), then the drain.
UnregisterTimer ==
    /\ server \in {"started", "failed"}
    /\ P!UnregisterTimer
    /\ UNCHANGED server_vars

CallStop == main = "stopping" /\ S!StopCalled /\ UNCHANGED pipeline_vars

InStop ==
    /\ Alive
    /\ S!CloseListener \/ S!SweepShutdown \/ S!SweepClose \/ S!SweepEnds \/ S!JoinAccept
    /\ UNCHANGED pipeline_vars

StopReturns == S!JoinClients /\ P!EnterDrain

DrainQueue == (P!Drain \/ P!DrainEnds) /\ UNCHANGED server_vars

(***************************************************************************)
(* The server's threads, as long as the process lives.                     *)
(***************************************************************************)
AcceptThread == Alive /\ S!AcceptThread /\ UNCHANGED pipeline_vars

\* client_loop outside of the handler.  MaxRequests bounds what is received,
\* the bytes of a foreign descriptor included.
Serve(c) ==
    /\ Alive
    /\ \/ P!Turn(c) <= MaxRequests /\ S!Recv(c)
       \/ S!ClientCheck(c) \/ S!RecvFails(c) \/ S!Send(c)
       \/ S!SendFails(c) \/ S!Close(c) \/ S!RemoveActive(c)
    /\ UNCHANGED pipeline_vars

\* handle_request: a request is refused, or pushed, or ends the process; then the
\* wait for it ends.
HandleRequest(c) ==
    /\ Alive
    /\ awaiting[c] = <<>>
    /\ \/ P!RefuseRequest(c) /\ S!HandlerReturns(c)
       \/ P!PushRequest(c) /\ client[c] = "handler" /\ UNCHANGED server_vars
       \/ P!RequestEscapes /\ client[c] = "handler" /\ UNCHANGED server_vars

WaitEnds(c) == (P!FutureReady(c) \/ P!WaitTimeout(c)) /\ S!HandlerReturns(c)

\* How many requests the peer of c has sent.
Sent(c) == Len(replies[c]) + inbox[c] + (IF client[c] = "handler" THEN 1 ELSE 0)

Environment ==
    /\ Alive
    /\ \/ \E c \in Conns : S!Connect(c) \/ S!PeerClose(c) \/ S!CallFails(c)
       \/ /\ MapThenSumSet(Sent, Conns) < MaxSent
          /\ \E c \in Conns : Sent(c) < MaxRequests /\ S!PeerSend(c)
       \/ \E f \in Fds : S!ForeignOpen(f)
    /\ UNCHANGED pipeline_vars

Main == Load \/ TimerCallback \/ CallStop \/ InStop \/ StopReturns \/ DrainQueue

Client(c) == Serve(c) \/ HandleRequest(c) \/ WaitEnds(c)

Next == Main \/ UnregisterTimer \/ AcceptThread \/ (\E c \in Conns : Client(c)) \/ Environment

\* As in the two parts.  REAPER need not unload the plugin, and peers need not
\* do anything: not even read, so that a thread may stay in send().
Fairness ==
    /\ WF_vars(Main)
    /\ WF_vars(AcceptThread)
    /\ \A c \in Conns : WF_vars(~S!AwaitsOther(c) /\ Client(c))

Spec == Init /\ [][Next]_vars /\ Fairness

-----------------------------------------------------------------------------
(***************************************************************************)
(* The pipeline is used as CommandPipeline assumes: a thread handles one   *)
(* request at a time, and when stop() returns and the queue is drained no  *)
(* thread is in handle_request or will be.                                 *)
(***************************************************************************)
ImplementsPipeline == P!Init /\ [][P!Next]_pipeline_vars

(***************************************************************************)
(* After the drain nothing is left: every command ever pushed has its      *)
(* answer, no thread waits, and nobody can push another one.               *)
(***************************************************************************)
NothingLeftBehind ==
    main = "unloaded" =>
        /\ queue = <<>>
        /\ \A i \in 1 .. Len(pushed) : promise[pushed[i].client][pushed[i].seq] # P!Unset
        /\ \A c \in Conns : awaiting[c] = <<>> /\ client[c] \in {"none", "done"}

(***************************************************************************)
(* Every request is answered: over and over, each connection that has its  *)
(* thread, and whose peer stays, has been sent a reply to all its peer has *)
(* sent and has its thread ready for the next request, unless the peer     *)
(* does not read what the thread is sending, or unloading or a crash comes *)
(* first.                                                                  *)
(***************************************************************************)
UpToDate(c) == client[c] \in {"check", "recv"} /\ Len(replies[c]) = Sent(c)

RequestsAreAnswered ==
    []<>(\/ main \in {"stopping", "drain", "unloaded", "crashed"}
         \/ \A c \in Conns :
               peer[c] = "open" /\ client[c] # "none"
                   => UpToDate(c) \/ S!AwaitsOther(c))

(***************************************************************************)
(* The queue is drained "so their futures don't block": a thread that      *)
(* waits when the timer is unregistered has its future set.  Violated: the *)
(* drain comes after the join of the very threads that wait, so that their *)
(* futures can only time out.                                              *)
(***************************************************************************)
InFlightResolved ==
    [][\A c \in Conns :
          main = "stopping" /\ awaiting[c] # <<>> /\ awaiting'[c] = <<>>
              => P!Ready(c)]_vars
=============================================================================

---------------------------- MODULE PluginProofs -----------------------------
(***************************************************************************)
(* The server and the pipeline put together, for every set of connections, *)
(* descriptors, documents and methods: the pipeline is used as it assumes, *)
(* nothing is left of it when the plugin is unloaded, and both parts keep  *)
(* in the plugin what is proved of them alone.                             *)
(***************************************************************************)
EXTENDS Plugin, SequenceTheorems, TLAPS

-----------------------------------------------------------------------------
(***************************************************************************)
(* What holds the two together: a thread is in handle_request only while   *)
(* the server has it there, and stop() has joined every thread when the    *)
(* main thread comes to the drain.                                         *)
(***************************************************************************)
Shapes ==
    /\ client   = [c \in Conns |-> client[c]]
    /\ peer     = [c \in Conns |-> peer[c]]
    /\ awaiting = [c \in Conns |-> awaiting[c]]
    /\ replies  = [c \in Conns |-> replies[c]]
    /\ backlog \in Seq(Conns)

\* A connection gets its thread once: it passes from its peer to the backlog,
\* to the accept thread and to its own thread.
Unserved(c) == client[c] = "none" /\ ~(accept = "register" /\ accepted[1] = c)

Passing ==
    /\ \A c \in Conns : peer[c] = "away" => Unserved(c)
    /\ \A i \in 1 .. Len(backlog) : /\ Unserved(backlog[i])
                                    /\ peer[backlog[i]] # "away"
                                    /\ \A j \in 1 .. Len(backlog) :
                                          backlog[i] = backlog[j] => i = j
    /\ accept = "register" => accepted[1] \in Conns /\ client[accepted[1]] = "none"

\* stop() joins the accept thread first, and then all client threads.
Joining ==
    /\ server = "new" => accept = "none"
    /\ server \in {"join clients", "stopped"} => accept \in {"none", "done"}
    /\ \A c \in Conns : client[c] \in {"none", "done"} \/ c \in threads
    /\ server = "stopped" => \A c \in Conns : client[c] \in {"none", "done"}

Joint ==
    /\ main \in {"drain", "unloaded"} => server = "stopped"
    /\ \A c \in Conns : awaiting[c] # <<>> => client[c] = "handler"
    /\ \A c \in Conns : client[c] = "handler" => P!Turn(c) <= MaxRequests

Coupling == Shapes /\ Passing /\ Joining /\ Joint

LEMMA CouplingInit == Init => Coupling
  BY DEF Init, S!Init, P!Init, Coupling, Shapes, Passing, Unserved, Joining, Joint, P!Turn

\* A step that leaves the connections where they are between peer and thread.
LEMMA PassingStays ==
    ASSUME Shapes, Passing,
           UNCHANGED accepted,
           backlog' \in {backlog, <<>>},
           accept' = "register" <=> accept = "register",
           \A c \in Conns : peer'[c] = "away" <=> peer[c] = "away",
           \A c \in Conns : client'[c] = "none" <=> client[c] = "none"
    PROVE  Passing' /\ backlog' \in Seq(Conns)
<1>1. backlog' \in Seq(Conns)
  <2>1. backlog \in Seq(Conns) /\ <<>> \in Seq(Conns)
    BY DEF Shapes
  <2> QED
    BY <2>1
<1>2. \A c \in Conns : Unserved(c) <=>
                          client'[c] = "none" /\ ~(accept' = "register" /\ accepted'[1] = c)
  BY DEF Unserved
<1>3. \A i \in 1 .. Len(backlog') :
         /\ i \in 1 .. Len(backlog)
         /\ backlog'[i] = backlog[i]
         /\ backlog[i] \in Conns
  BY DEF Shapes
<1>4. \A c \in Conns : peer'[c] = "away" => Unserved(c)'
  BY <1>2 DEF Passing, Unserved
<1>5. \A i \in 1 .. Len(backlog') :
         /\ client'[backlog'[i]] = "none"
         /\ ~(accept' = "register" /\ accepted'[1] = backlog'[i])
         /\ peer'[backlog'[i]] # "away"
         /\ \A j \in 1 .. Len(backlog') : backlog'[i] = backlog'[j] => i = j
  BY <1>2, <1>3 DEF Passing
<1>6. accept' = "register" => accepted'[1] \in Conns /\ client'[accepted'[1]] = "none"
  BY DEF Passing
<1> QED
  BY <1>1, <1>4, <1>5, <1>6 DEF Passing, Unserved

(***************************************************************************)
(* The main thread.  In the callback and in the drain it makes a step of   *)
(* the pipeline; in start() and stop(), but for the end of stop(), none.   *)
(***************************************************************************)
PipelineMain == TimerCallback \/ UnregisterTimer \/ DrainQueue

ServerMain == Load \/ CallStop \/ InStop

LEMMA PipelineMainStep ==
    ASSUME Coupling, PipelineMain
    PROVE  Coupling' /\ P!Next
<1>1. /\ UNCHANGED server_vars
      /\ UNCHANGED <<awaiting, replies>>
      /\ P!Callback \/ P!UnregisterTimer \/ P!Drain \/ P!DrainEnds
  BY DEF PipelineMain, TimerCallback, UnregisterTimer, DrainQueue, P!Callback, P!TimerFires,
         P!TryPop, P!TickEnds, P!Dispatch, P!DispatchEscapes, P!SetValue, P!UnregisterTimer,
         P!Drain, P!DrainEnds
<1>2. main' \in {"drain", "unloaded"} => main = "drain"
  BY <1>1 DEF P!Callback, P!TimerFires, P!TryPop, P!TickEnds, P!Dispatch, P!DispatchEscapes,
              P!SetValue, P!UnregisterTimer, P!Drain, P!DrainEnds
<1>3. Shapes' /\ Passing'
  BY <1>1, PassingStays DEF Coupling, Shapes, server_vars
<1>4. Joining' /\ Joint'
  BY <1>1, <1>2 DEF Coupling, Joining, Joint, P!Turn, server_vars
<1> QED
  BY <1>1, <1>3, <1>4 DEF Coupling, P!Next, P!Unload

LEMMA ServerMainStep ==
    ASSUME Coupling, ServerMain
    PROVE  Coupling' /\ UNCHANGED pipeline_vars
<1>1. /\ UNCHANGED pipeline_vars
      /\ \/ S!Start \/ S!StartFails \/ (main = "stopping" /\ S!StopCalled)
         \/ S!CloseListener \/ S!SweepShutdown \/ S!SweepClose \/ S!SweepEnds \/ S!JoinAccept
  BY DEF ServerMain, Load, CallStop, InStop
<1>2. /\ UNCHANGED <<client, threads, accepted, peer>>
      /\ accept' \in {accept, "check"}
      /\ accept' # accept => server = "new"
      /\ backlog' \in {backlog, <<>>}
      /\ server # "stopped" /\ server' # "stopped"
      /\ server' # "new"
      /\ server' = "join clients" => accept' \in {"none", "done"}
  BY <1>1 DEF S!Start, S!StartFails, S!StopCalled, S!CloseListener, S!SweepShutdown,
              S!SweepClose, S!SweepEnds, S!JoinAccept, S!AcceptJoined, S!main_vars, S!peer_vars
<1>3. accept' = "register" <=> accept = "register"
  BY <1>2 DEF Coupling, Joining
<1>4. Shapes' /\ Passing'
  BY <1>1, <1>2, <1>3, PassingStays DEF Coupling, Shapes, pipeline_vars
<1>5. Joining' /\ Joint'
  BY <1>1, <1>2 DEF Coupling, Joining, Joint, P!Turn, pipeline_vars
<1> QED
  BY <1>1, <1>4, <1>5 DEF Coupling

LEMMA StopReturnsStep ==
    ASSUME Coupling, StopReturns
    PROVE  Coupling' /\ P!Next
<1>1. /\ server = "join clients" /\ server' = "stopped" /\ threads' = {}
      /\ \A c \in threads : client[c] = "done"
      /\ UNCHANGED <<accept, accepted, client, peer, backlog, awaiting, replies>>
      /\ P!EnterDrain /\ main' = "drain"
  BY DEF StopReturns, S!JoinClients, S!ClientsJoined, S!peer_vars, P!EnterDrain
<1>2. \A c \in Conns : client[c] \in {"none", "done"}
  BY <1>1 DEF Coupling, Joining
<1>3. \A c \in Conns : awaiting[c] = <<>>
  BY <1>2 DEF Coupling, Joint
<1>4. Shapes' /\ Passing'
  BY <1>1, PassingStays DEF Coupling, Shapes
<1>5. Joining' /\ Joint'
  BY <1>1, <1>2, <1>3 DEF Coupling, Joining, Joint
<1> QED
  BY <1>1, <1>3, <1>4, <1>5 DEF Coupling, P!Next, P!Unload, P!ServerStopped

(***************************************************************************)
(* The accept thread makes no step of the pipeline.  The thread it starts  *)
(* is the first one of its connection, and so is not in handle_request.    *)
(***************************************************************************)
LEMMA AcceptLoopStep ==
    ASSUME Coupling, Alive, S!AcceptCheck \/ S!AcceptFails, UNCHANGED pipeline_vars
    PROVE  Coupling'
<1>1. /\ UNCHANGED <<server, threads, accepted, client, peer, backlog>>
      /\ accept \notin {"none", "done", "register"} /\ accept' # "register"
  BY DEF S!AcceptCheck, S!AcceptFails, S!main_vars, S!peer_vars
<1>2. Shapes' /\ Passing'
  BY <1>1, PassingStays DEF Coupling, Shapes, pipeline_vars
<1>3. Joining' /\ Joint'
  BY <1>1 DEF Coupling, Joining, Joint, P!Turn, pipeline_vars
<1> QED
  BY <1>2, <1>3 DEF Coupling

LEMMA AcceptStep ==
    ASSUME Coupling, S!Accept, UNCHANGED pipeline_vars
    PROVE  Coupling'
<1> DEFINE b == Head(backlog)
<1>1. /\ UNCHANGED <<server, threads, client, peer>>
      /\ accept = "accept" /\ accept' = "register"
      /\ backlog # <<>> /\ backlog' = Tail(backlog)
      /\ accepted'[1] = b
  BY DEF S!Accept, S!main_vars, S!peer_vars
<1>2. backlog \in Seq(Conns)
  BY DEF Coupling, Shapes
<1>3. /\ b = backlog[1] /\ b \in Conns /\ 1 \in 1 .. Len(backlog)
      /\ backlog' \in Seq(Conns)
      /\ \A i \in 1 .. Len(backlog') : /\ i + 1 \in 1 .. Len(backlog)
                                       /\ i + 1 # 1
                                       /\ backlog'[i] = backlog[i + 1]
                                       /\ backlog[i + 1] \in Conns
  BY <1>1, <1>2
<1>4. Unserved(b) /\ peer[b] # "away" /\ \A i \in 1 .. Len(backlog') : backlog'[i] # b
  BY <1>3 DEF Coupling, Passing
<1> HIDE DEF b
<1>5. \A c \in Conns : c # b /\ Unserved(c) => Unserved(c)'
  BY <1>1 DEF Unserved
<1>6. \A c \in Conns : peer'[c] = "away" => Unserved(c)'
  BY <1>1, <1>4, <1>5 DEF Coupling, Passing
<1>7. ASSUME NEW i \in 1 .. Len(backlog')
      PROVE  /\ client'[backlog'[i]] = "none"
             /\ ~(accept' = "register" /\ accepted'[1] = backlog'[i])
             /\ peer'[backlog'[i]] # "away"
  BY <1>1, <1>3, <1>4 DEF Coupling, Passing, Unserved
<1>8. ASSUME NEW i \in 1 .. Len(backlog'), NEW j \in 1 .. Len(backlog'),
             backlog'[i] = backlog'[j]
      PROVE  i = j
  <2>1. \A p, q \in 1 .. Len(backlog) : backlog[p] = backlog[q] => p = q
    BY DEF Coupling, Passing
  <2>2. i + 1 = j + 1
    BY <1>3, <1>8, <2>1
  <2> QED
    BY <2>2
<1>9. accepted'[1] \in Conns /\ client'[accepted'[1]] = "none"
  BY <1>1, <1>3, <1>4 DEF Unserved
<1>10. Shapes' /\ Passing'
  BY <1>1, <1>3, <1>6, <1>7, <1>8, <1>9 DEF Coupling, Shapes, Passing, Unserved, pipeline_vars
<1>11. Joining' /\ Joint'
  BY <1>1 DEF Coupling, Joining, Joint, P!Turn, pipeline_vars
<1> QED
  BY <1>10, <1>11 DEF Coupling

LEMMA RegisterStep ==
    ASSUME Coupling, S!Register, UNCHANGED pipeline_vars
    PROVE  Coupling'
<1> DEFINE a == accepted[1]
<1>1. /\ UNCHANGED <<server, peer, backlog>>
      /\ accept = "register" /\ accept' = "check"
      /\ threads' = threads \cup {a}
      /\ client' = [client EXCEPT ![a] = "check"]
  BY DEF S!Register, S!main_vars, S!peer_vars
<1>2. a \in Conns /\ client[a] = "none"
  BY <1>1 DEF Coupling, Passing
<1>3. /\ client' = [c \in Conns |-> client'[c]]
      /\ \A c \in Conns : client'[c] = IF c = a THEN "check" ELSE client[c]
  BY <1>1, <1>2 DEF Coupling, Shapes
<1>4. \A c \in Conns : Unserved(c) => c # a /\ client'[c] = "none"
  BY <1>1, <1>3 DEF Unserved
<1>5. \A i \in 1 .. Len(backlog) : backlog[i] \in Conns
  BY DEF Coupling, Shapes
<1>6. Shapes'
  BY <1>1, <1>3 DEF Coupling, Shapes, pipeline_vars
<1>7. Passing'
  BY <1>1, <1>4, <1>5 DEF Coupling, Passing, Unserved
<1>8. awaiting[a] = <<>>
  BY <1>2 DEF Coupling, Joint
<1> HIDE DEF a
<1>9. Joining'
  BY <1>1, <1>2, <1>3 DEF Coupling, Joining
<1>10. Joint'
  BY <1>1, <1>3, <1>8 DEF Coupling, Joint, P!Turn, pipeline_vars
<1> QED
  BY <1>6, <1>7, <1>9, <1>10 DEF Coupling

LEMMA AcceptThreadStep ==
    ASSUME Coupling, AcceptThread
    PROVE  Coupling' /\ UNCHANGED pipeline_vars
  BY AcceptLoopStep, AcceptStep, RegisterStep DEF AcceptThread, S!AcceptThread

(***************************************************************************)
(* A client thread outside the handler, and the rest of the world.         *)
(***************************************************************************)
LEMMA ServeStep ==
    ASSUME Coupling, NEW c \in Conns, Serve(c)
    PROVE  Coupling' /\ UNCHANGED pipeline_vars
<1>1. /\ UNCHANGED pipeline_vars
      /\ UNCHANGED <<server, threads, accept, accepted, peer, backlog>>
      /\ client[c] \notin {"none", "done", "handler"}
      /\ \E pc : client' = [client EXCEPT ![c] = pc] /\ pc # "none"
  BY DEF Serve, S!ClientCheck, S!Recv, S!RecvFails, S!Send, S!SendFails, S!Close,
         S!RemoveActive, S!Goto, S!main_vars, S!peer_vars
<1>2. client' = [client EXCEPT ![c] = client'[c]] /\ client'[c] # "none"
  BY <1>1 DEF Coupling, Shapes
<1>3. /\ client' = [b \in Conns |-> client'[b]]
      /\ \A b \in Conns : b # c => client'[b] = client[b]
  BY <1>2 DEF Coupling, Shapes
<1>4. client'[c] = "handler" => P!Turn(c) <= MaxRequests
  BY <1>2 DEF Serve, S!ClientCheck, S!Recv, S!RecvFails, S!Send, S!SendFails, S!Close,
         S!RemoveActive, S!Goto, Coupling, Shapes
<1>5. awaiting[c] = <<>>
  BY <1>1 DEF Coupling, Joint
<1>6. Shapes' /\ Passing'
  BY <1>1, <1>2, <1>3, PassingStays DEF Coupling, Shapes, pipeline_vars
<1>7. Joining'
  BY <1>1, <1>3 DEF Coupling, Joining
<1>8. Joint'
  BY <1>1, <1>3, <1>4, <1>5 DEF Coupling, Joint, P!Turn, pipeline_vars
<1> QED
  BY <1>1, <1>6, <1>7, <1>8 DEF Coupling

LEMMA ConnectStep ==
    ASSUME Coupling, NEW c \in Conns, S!Connect(c), UNCHANGED pipeline_vars
    PROVE  Coupling'
<1>1. /\ peer[c] = "away"
      /\ peer' = [peer EXCEPT ![c] = "open"]
      /\ backlog' = Append(backlog, c)
      /\ UNCHANGED <<server, threads, accept, accepted, client>>
  BY DEF S!Connect, S!main_vars
<1>2. backlog \in Seq(Conns)
  BY DEF Coupling, Shapes
<1>3. /\ 1 .. Len(backlog') = (1 .. Len(backlog)) \cup {Len(backlog) + 1}
      /\ \A i \in 1 .. Len(backlog) : backlog'[i] = backlog[i] /\ backlog[i] \in Conns
      /\ backlog'[Len(backlog) + 1] = c
      /\ backlog' \in Seq(Conns)
  BY <1>1, <1>2
<1>4. /\ peer' = [b \in Conns |-> peer'[b]]
      /\ \A b \in Conns : peer'[b] = IF b = c THEN "open" ELSE peer[b]
  BY <1>1 DEF Coupling, Shapes
<1>5. Unserved(c) /\ \A i \in 1 .. Len(backlog) : backlog[i] # c
  BY <1>1 DEF Coupling, Passing
<1>6. \A b \in Conns : peer'[b] = "away" => Unserved(b)
  BY <1>4 DEF Coupling, Passing
<1>7. \A i \in 1 .. Len(backlog') : Unserved(backlog'[i]) /\ peer'[backlog'[i]] # "away"
  BY <1>3, <1>4, <1>5 DEF Coupling, Passing
<1>8. \A i, j \in 1 .. Len(backlog') : backlog'[i] = backlog'[j] => i = j
  BY <1>3, <1>5 DEF Coupling, Passing
<1>9. Shapes'
  BY <1>1, <1>3, <1>4 DEF Coupling, Shapes, pipeline_vars
<1>10. Passing'
  BY <1>1, <1>6, <1>7, <1>8 DEF Coupling, Passing, Unserved
<1>11. Joining' /\ Joint'
  BY <1>1 DEF Coupling, Joining, Joint, P!Turn, pipeline_vars
<1> QED
  BY <1>9, <1>10, <1>11 DEF Coupling

\* A call on a connection fails, and its thread is to close it.
LEMMA CallFailsStep ==
    ASSUME Coupling, NEW c \in Conns, S!CallFails(c), UNCHANGED pipeline_vars
    PROVE  Coupling'
<1>1. /\ UNCHANGED <<server, threads, accept, accepted, backlog>>
      /\ client[c] \in {"recv", "send"}
      /\ client' = [client EXCEPT ![c] = "close"]
      /\ peer[c] = "open" /\ peer' = [peer EXCEPT ![c] = "broken"]
  BY DEF S!CallFails, S!Goto, S!main_vars
<1>2. /\ client' = [b \in Conns |-> client'[b]]
      /\ \A b \in Conns : client'[b] = IF b = c THEN "close" ELSE client[b]
      /\ peer' = [b \in Conns |-> peer'[b]]
      /\ \A b \in Conns : peer'[b] = "away" <=> peer[b] = "away"
  BY <1>1 DEF Coupling, Shapes
<1>3. awaiting[c] = <<>>
  BY <1>1 DEF Coupling, Joint
<1>4. Shapes' /\ Passing'
  BY <1>1, <1>2, PassingStays DEF Coupling, Shapes, pipeline_vars
<1>5. Joining'
  BY <1>1, <1>2 DEF Coupling, Joining
<1>6. Joint'
  BY <1>1, <1>2, <1>3 DEF Coupling, Joint, P!Turn, pipeline_vars
<1> QED
  BY <1>4, <1>5, <1>6 DEF Coupling

LEMMA EnvironmentStep ==
    ASSUME Coupling, Environment
    PROVE  Coupling' /\ UNCHANGED pipeline_vars
<1>1. UNCHANGED pipeline_vars
  BY DEF Environment
<1>2. ASSUME \/ \E c \in Conns : S!PeerClose(c) \/ S!PeerSend(c)
             \/ \E f \in Fds : S!ForeignOpen(f)
      PROVE  Coupling'
  <2>1. /\ UNCHANGED <<server, threads, accept, accepted, client, backlog>>
        /\ \/ UNCHANGED peer
           \/ \E c \in Conns : peer[c] # "away" /\ peer' = [peer EXCEPT ![c] = "closed"]
    BY <1>2 DEF S!PeerClose, S!PeerSend, S!ForeignOpen, S!main_vars, S!peer_vars
  <2>2. /\ peer' = [c \in Conns |-> peer'[c]]
        /\ \A c \in Conns : peer'[c] = "away" <=> peer[c] = "away"
    BY <2>1 DEF Coupling, Shapes
  <2>3. Shapes' /\ Passing'
    BY <1>1, <2>1, <2>2, PassingStays DEF Coupling, Shapes, pipeline_vars
  <2>4. Joining' /\ Joint'
    BY <1>1, <2>1 DEF Coupling, Joining, Joint, P!Turn, pipeline_vars
  <2> QED
    BY <2>3, <2>4 DEF Coupling
<1> QED
  BY <1>1, <1>2, ConnectStep, CallFailsStep DEF Environment

(***************************************************************************)
(* A client thread in the handler makes a step of the pipeline, which is   *)
(* possible there: stop() has not returned, and it has one request.        *)
(***************************************************************************)
LEMMA InHandler ==
    ASSUME Coupling, NEW c \in Conns, client[c] = "handler"
    PROVE  main \notin {"drain", "unloaded"} /\ P!Turn(c) <= MaxRequests /\ c \in threads
  BY DEF Coupling, Joining, Joint

\* It returns from the handler.
LEMMA ReturnStep ==
    ASSUME Coupling, NEW c \in Conns, S!HandlerReturns(c),
           UNCHANGED main,
           \E r : P!Return(c, r),
           awaiting' = [awaiting EXCEPT ![c] = <<>>]
    PROVE  Coupling'
<1>1. /\ client[c] = "handler"
      /\ client' = [client EXCEPT ![c] = "send"]
      /\ UNCHANGED <<server, threads, accept, accepted, peer, backlog>>
  BY DEF S!HandlerReturns, S!Goto, S!main_vars
<1>2. /\ client' = [b \in Conns |-> client'[b]]
      /\ awaiting' = [b \in Conns |-> awaiting'[b]]
      /\ replies' = [b \in Conns |-> replies'[b]]
      /\ client'[c] = "send" /\ awaiting'[c] = <<>>
      /\ \A b \in Conns : b # c => /\ client'[b] = client[b]
                                   /\ awaiting'[b] = awaiting[b]
                                   /\ replies'[b] = replies[b]
  BY <1>1 DEF Coupling, Shapes, P!Return
<1>3. Shapes' /\ Passing'
  BY <1>1, <1>2, PassingStays DEF Coupling, Shapes
<1>4. Joining'
  BY <1>1, <1>2 DEF Coupling, Joining
<1>5. Joint'
  BY <1>1, <1>2 DEF Coupling, Joint, P!Turn
<1> QED
  BY <1>3, <1>4, <1>5 DEF Coupling

LEMMA HandleRequestStep ==
    ASSUME Coupling, NEW c \in Conns, HandleRequest(c)
    PROVE  Coupling' /\ P!Next
<1>1. awaiting[c] = <<>> /\ main # "crashed" /\ client[c] = "handler"
  BY DEF HandleRequest, Alive, S!HandlerReturns
<1>2. P!CanHandle(c)
  BY <1>1, InHandler DEF P!CanHandle
<1>3. CASE P!RefuseRequest(c) /\ S!HandlerReturns(c)
  <2>1. /\ UNCHANGED <<main, awaiting>>
        /\ \E r : P!Return(c, r)
    BY <1>3 DEF P!RefuseRequest
  <2>2. awaiting' = [awaiting EXCEPT ![c] = <<>>]
    BY <1>1, <2>1 DEF Coupling, Shapes
  <2>3. Coupling'
    BY <1>3, <2>1, <2>2, ReturnStep
  <2> QED
    BY <1>2, <1>3, <2>3 DEF P!Next, P!Client, P!Refuse
<1>4. CASE P!PushRequest(c) /\ UNCHANGED server_vars
  <2>1. /\ UNCHANGED <<replies, main>> /\ UNCHANGED server_vars
        /\ \E a : awaiting' = [awaiting EXCEPT ![c] = a]
    BY <1>4 DEF P!PushRequest
  <2>2. /\ awaiting' = [b \in Conns |-> awaiting'[b]]
        /\ \A b \in Conns : b # c => awaiting'[b] = awaiting[b]
    BY <2>1 DEF Coupling, Shapes
  <2>3. Shapes' /\ Passing'
    BY <2>1, <2>2, PassingStays DEF Coupling, Shapes, server_vars
  <2>4. Joining' /\ Joint'
    BY <1>1, <2>1, <2>2 DEF Coupling, Joining, Joint, P!Turn, server_vars
  <2> QED
    BY <1>2, <1>4, <2>3, <2>4 DEF Coupling, P!Next, P!Client, P!Push
<1>5. CASE P!RequestEscapes /\ UNCHANGED server_vars
  <2>1. UNCHANGED <<awaiting, replies>> /\ UNCHANGED server_vars /\ main' = "crashed"
    BY <1>5 DEF P!RequestEscapes
  <2>2. Shapes' /\ Passing'
    BY <2>1, PassingStays DEF Coupling, Shapes, server_vars
  <2>3. Joining' /\ Joint'
    BY <2>1 DEF Coupling, Joining, Joint, P!Turn, server_vars
  <2> QED
    BY <1>2, <1>5, <2>2, <2>3 DEF Coupling, P!Next, P!Client, P!Escape
<1> QED
  BY <1>3, <1>4, <1>5 DEF HandleRequest

LEMMA WaitEndsStep ==
    ASSUME Coupling, NEW c \in Conns, WaitEnds(c)
    PROVE  Coupling' /\ P!Next
<1>1. /\ P!FutureReady(c) \/ P!WaitTimeout(c)
      /\ S!HandlerReturns(c)
  BY DEF WaitEnds
<1>2. /\ UNCHANGED main
      /\ \E r : P!Return(c, r)
      /\ awaiting' = [awaiting EXCEPT ![c] = <<>>]
  BY <1>1 DEF P!FutureReady, P!WaitTimeout, P!StopWaiting
<1>3. Coupling'
  BY <1>1, <1>2, ReturnStep
<1> QED
  BY <1>1, <1>3 DEF P!Next, P!Client

-----------------------------------------------------------------------------
\* Every step of the plugin keeps the coupling and is a step of the pipeline
\* or none of its.
LEMMA CouplingStep ==
    Coupling /\ [Next]_vars => Coupling' /\ [P!Next]_pipeline_vars
<1> SUFFICES ASSUME Coupling, [Next]_vars
             PROVE  Coupling' /\ [P!Next]_pipeline_vars
  OBVIOUS
<1>1. CASE PipelineMain
  BY <1>1, PipelineMainStep
<1>2. CASE ServerMain
  BY <1>2, ServerMainStep
<1>3. CASE StopReturns
  BY <1>3, StopReturnsStep
<1>4. CASE AcceptThread
  BY <1>4, AcceptThreadStep
<1>5. ASSUME NEW c \in Conns, Client(c)
      PROVE  Coupling' /\ [P!Next]_pipeline_vars
  BY <1>5, ServeStep, HandleRequestStep, WaitEndsStep DEF Client
<1>6. CASE Environment
  BY <1>6, EnvironmentStep
<1>7. CASE UNCHANGED vars
  <2>1. UNCHANGED server_vars /\ UNCHANGED pipeline_vars
    BY <1>7 DEF vars
  <2>2. Shapes' /\ Passing'
    BY <2>1, PassingStays DEF Coupling, Shapes, server_vars, pipeline_vars
  <2>3. Joining' /\ Joint'
    BY <2>1 DEF Coupling, Joining, Joint, P!Turn, server_vars, pipeline_vars
  <2> QED
    BY <2>1, <2>2, <2>3 DEF Coupling
<1> QED
  BY <1>1, <1>2, <1>3, <1>4, <1>5, <1>6, <1>7
  DEF Next, Main, PipelineMain, ServerMain

LEMMA CouplingInvariant == Spec => []Coupling
  BY CouplingInit, CouplingStep, PTL DEF Spec

(***************************************************************************)
(* The plugin uses the pipeline as CommandPipeline assumes: what is proved *)
(* of the pipeline alone holds in the plugin, with the real server.        *)
(***************************************************************************)
THEOREM ImplementsPipelineCorrect == Spec => ImplementsPipeline
<1>1. Init => P!Init
  BY DEF Init
<1> QED
  BY <1>1, CouplingStep, CouplingInvariant, PTL DEF Spec, ImplementsPipeline

-----------------------------------------------------------------------------
(***************************************************************************)
(* Nothing left behind: a command that has been pushed has its answer, or  *)
(* is in the hands of a callback, or in the queue.  No callback is left    *)
(* when the timer is unregistered, and no command when the drain is over.  *)
(***************************************************************************)
Commands ==
    {[client |-> c, seq |-> k,
      method |-> P!parse_request(P!Raw(d, k)).method,
      id     |-> P!parse_request(P!Raw(d, k)).id] :
        c \in Conns, k \in 1 .. MaxRequests, d \in Documents}

Lists ==
    /\ queue  \in Seq(Commands)
    /\ hand   \in Seq(Commands)
    /\ pushed \in Seq(Commands)
    /\ promise = [c \in Conns |-> [k \in 1 .. MaxRequests |-> promise[c][k]]]
    /\ \A c \in Conns : \E R : replies[c] \in Seq(R)

In(cmd, s) == \E j \in 1 .. Len(s) : s[j] = cmd

Answered(cmd) == promise[cmd.client][cmd.seq] # P!Unset

Kept ==
    \A i \in 1 .. Len(pushed) :
        Answered(pushed[i]) \/ In(pushed[i], queue) \/ In(pushed[i], hand)

Ends ==
    /\ main \in {"idle", "stopping", "drain", "unloaded"} => hand = <<>>
    /\ main \in {"dispatch", "reply"} => hand # <<>>
    /\ main = "reply" => response # P!Unset
    /\ main = "unloaded" => queue = <<>>

Tidy == Lists /\ Kept /\ Ends

LEMMA CommandParts ==
    ASSUME NEW cmd \in Commands
    PROVE  cmd.client \in Conns /\ cmd.seq \in 1 .. MaxRequests
  BY DEF Commands

\* An error response, and a result, is not the value of an unset promise.
LEMMA Set ==
    ASSUME NEW id
    PROVE  /\ P!make_error(id, P!ERR_TIMEOUT)    # P!Unset
           /\ P!make_error(id, P!ERR_NOT_FOUND)  # P!Unset
           /\ P!make_error(id, P!ERR_REAPER_API) # P!Unset
           /\ P!make_result(id)                  # P!Unset
<1>1. ASSUME NEW r, NEW code, r = [id |-> id, code |-> code], code # 1
      PROVE  r # P!Unset
  <2>1. r.code # P!Unset.code
    BY <1>1 DEF P!Unset
  <2> QED
    BY <2>1
<1> QED
  BY <1>1 DEF P!make_error, P!make_result, P!ERR_TIMEOUT, P!ERR_NOT_FOUND,
              P!ERR_REAPER_API, P!Result

\* The list functions of the pipeline.
LEMMA Lengthened ==
    ASSUME NEW Kind, NEW s \in Seq(Kind), NEW e \in Kind
    PROVE  /\ Append(s, e) \in Seq(Kind)
           /\ Append(s, e) # <<>>
           /\ In(e, Append(s, e))
           /\ \A x : In(x, s) => In(x, Append(s, e))
<1>1. /\ Append(s, e) \in Seq(Kind)
      /\ Len(s) \in Nat
      /\ Len(Append(s, e)) = Len(s) + 1
      /\ \A i \in 1 .. Len(s) : Append(s, e)[i] = s[i]
      /\ Append(s, e)[Len(s) + 1] = e
  BY AppendProperties, LenProperties
<1>2. Append(s, e) # <<>>
  BY <1>1, EmptySeq
<1>3. /\ Len(s) + 1 \in 1 .. Len(Append(s, e))
      /\ \A i \in 1 .. Len(s) : i \in 1 .. Len(Append(s, e))
  BY <1>1
<1> QED
  BY <1>1, <1>2, <1>3 DEF In

LEMMA HeadTaken ==
    ASSUME NEW Kind, NEW s \in Seq(Kind), s # <<>>
    PROVE  /\ Head(s) \in Kind
           /\ Tail(s) \in Seq(Kind)
           /\ \A x : In(x, s) => x = Head(s) \/ In(x, Tail(s))
<1>1. /\ Head(s) \in Kind /\ Tail(s) \in Seq(Kind) /\ Head(s) = s[1]
      /\ \A i \in 1 .. Len(s) : i = 1 \/ (i - 1 \in 1 .. Len(Tail(s)) /\ Tail(s)[i - 1] = s[i])
  OBVIOUS
<1> QED
  BY <1>1 DEF In

LEMMA LastTaken ==
    ASSUME NEW Kind, NEW s \in Seq(Kind), s # <<>>
    PROVE  /\ P!Last(s) \in Kind
           /\ P!Front(s) \in Seq(Kind)
           /\ \A x : In(x, s) => x = P!Last(s) \/ In(x, P!Front(s))
<1>1. Len(s) \in Nat \ {0}
  OBVIOUS
<1> DEFINE n == Len(s) - 1
<1>2. /\ n \in Nat /\ n - 1 + 1 = n /\ 1 \in Nat \ {0}
      /\ \A i \in 1 .. n : s[i] \in Kind
  BY <1>1, LenProperties
<1>3. P!Last(s) = s[Len(s)] /\ P!Front(s) = SubSeq(s, 1, n) /\ s[Len(s)] \in Kind
  BY <1>1 DEF P!Last, P!Front
<1>4. \A i \in 1 .. Len(s) : i = Len(s) \/ i \in 1 .. n
  BY <1>1
<1>5. /\ SubSeq(s, 1, n) \in Seq(Kind)
      /\ Len(SubSeq(s, 1, n)) = n
      /\ \A i \in 1 .. n : SubSeq(s, 1, n)[i] = s[i]
  BY <1>2, SubSeqProperties
<1> HIDE DEF n
<1> QED
  BY <1>3, <1>4, <1>5 DEF In

-----------------------------------------------------------------------------
LEMMA TidyInit == Init => Tidy
<1> SUFFICES ASSUME Init
             PROVE  Tidy
  OBVIOUS
<1>1. P!Init
  BY DEF Init
<1>2. <<>> \in Seq(Commands) /\ <<>> \in Seq({}) /\ ~ \E i \in 1 .. Len(<<>>) : TRUE
  OBVIOUS
<1>3. Lists
  BY <1>1, <1>2 DEF P!Init, Lists
<1>4. Kept /\ Ends
  BY <1>1, <1>2 DEF P!Init, Kept, Ends
<1> QED
  BY <1>3, <1>4 DEF Tidy

\* A step between the commands: nothing moves.
LEMMA TidyStays ==
    ASSUME Tidy,
           UNCHANGED <<queue, hand, pushed, promise, replies>>,
           Ends'
    PROVE  Tidy'
  BY DEF Tidy, Lists, Kept, Answered

LEMMA RepliesGrow ==
    ASSUME Tidy, NEW c \in Conns, NEW r, P!Return(c, r),
           replies = [b \in Conns |-> replies[b]]
    PROVE  \A b \in Conns : \E R : replies'[b] \in Seq(R)
<1>1. PICK R : replies[c] \in Seq(R)
  BY DEF Tidy, Lists
<1>2. replies[c] \in Seq(R \cup {r}) /\ r \in R \cup {r}
  <2>1. R \subseteq R \cup {r}
    OBVIOUS
  <2> QED
    BY <1>1, <2>1
<1>3. Append(replies[c], r) \in Seq(R \cup {r})
  BY <1>2, AppendProperties
<1>4. \A b \in Conns : replies'[b] = IF b = c THEN Append(replies[c], r) ELSE replies[b]
  BY DEF P!Return
<1> QED
  BY <1>3, <1>4 DEF Tidy, Lists

\* Setting the promise of a command answers it, and takes no answer back.
LEMMA SetAnswers ==
    ASSUME Tidy, NEW cmd \in Commands, NEW r, r # P!Unset, P!SetPromise(cmd, r)
    PROVE  /\ promise' = [c \in Conns |-> [k \in 1 .. MaxRequests |-> promise'[c][k]]]
           /\ \A x \in Commands : x = cmd \/ Answered(x)
                                    => promise'[x.client][x.seq] # P!Unset
<1>1. cmd.client \in Conns /\ cmd.seq \in 1 .. MaxRequests
  BY CommandParts
<1>2. /\ promise' = [promise EXCEPT ![cmd.client][cmd.seq] = r]
      /\ promise = [c \in Conns |-> [k \in 1 .. MaxRequests |-> promise[c][k]]]
  BY DEF P!SetPromise, Tidy, Lists
<1>3. \A c \in Conns, k \in 1 .. MaxRequests :
         promise'[c][k] = IF c = cmd.client /\ k = cmd.seq THEN r ELSE promise[c][k]
  BY <1>1, <1>2
<1>4. promise' = [c \in Conns |-> [k \in 1 .. MaxRequests |-> promise'[c][k]]]
  BY <1>1, <1>2
<1>5. \A x \in Commands : x.client \in Conns /\ x.seq \in 1 .. MaxRequests
  BY CommandParts
<1> QED
  BY <1>3, <1>4, <1>5 DEF Answered

LEMMA CallbackTidy ==
    ASSUME Tidy, P!Callback
    PROVE  Tidy'
<1>1. CASE P!TimerFires \/ P!TickEnds \/ P!Dispatch \/ P!DispatchEscapes
  <2>1. UNCHANGED <<queue, hand, pushed, promise, replies>>
    BY <1>1 DEF P!TimerFires, P!TickEnds, P!Dispatch, P!DispatchEscapes
  <2>2. main' = "reply" => response' # P!Unset
    BY <1>1, Set DEF P!TimerFires, P!TickEnds, P!Dispatch, P!DispatchEscapes, P!Outcomes
  <2>3. Ends'
    BY <1>1, <2>1, <2>2 DEF P!TimerFires, P!TickEnds, P!Dispatch, P!DispatchEscapes, Tidy, Ends
  <2> QED
    BY <2>1, <2>3, TidyStays
<1>2. CASE P!TryPop
  <2>1. /\ queue # <<>> /\ queue' = Tail(queue)
        /\ hand' = Append(hand, Head(queue))
        /\ main' = "dispatch"
        /\ UNCHANGED <<pushed, promise, replies>>
    BY <1>2 DEF P!TryPop, P!HasWork, P!Popped
  <2>2. /\ Head(queue) \in Commands /\ queue' \in Seq(Commands)
        /\ \A x : In(x, queue) => x = Head(queue) \/ In(x, queue')
    BY <2>1, HeadTaken DEF Tidy, Lists
  <2>3. /\ hand' \in Seq(Commands) /\ hand' # <<>>
        /\ In(Head(queue), hand')
        /\ \A x : In(x, hand) => In(x, hand')
    BY <2>1, <2>2, Lengthened DEF Tidy, Lists
  <2>4. Lists' /\ Ends'
    BY <2>1, <2>2, <2>3 DEF Tidy, Lists, Ends
  <2>5. \A i \in 1 .. Len(pushed') :
           promise'[pushed'[i].client][pushed'[i].seq] # P!Unset
           \/ In(pushed'[i], queue') \/ In(pushed'[i], hand')
    BY <2>1, <2>2, <2>3 DEF Tidy, Kept, Answered
  <2> QED
    BY <2>4, <2>5 DEF Tidy, Kept, Answered, In
<1>3. CASE P!SetValue
  <2>1. /\ main = "reply" /\ main' = "loop"
        /\ hand' = P!Front(hand)
        /\ P!SetPromise(P!Last(hand), response)
        /\ UNCHANGED <<queue, pushed, replies>>
    BY <1>3 DEF P!SetValue, P!Current
  <2>2. /\ P!Last(hand) \in Commands /\ hand' \in Seq(Commands)
        /\ \A x : In(x, hand) => x = P!Last(hand) \/ In(x, hand')
    BY <2>1, LastTaken DEF Tidy, Lists, Ends
  <2>3. response # P!Unset
    BY <2>1 DEF Tidy, Ends
  <2>4. /\ promise' = [c \in Conns |-> [k \in 1 .. MaxRequests |-> promise'[c][k]]]
        /\ \A x \in Commands : x = P!Last(hand) \/ Answered(x)
                                 => promise'[x.client][x.seq] # P!Unset
    BY <2>1, <2>2, <2>3, SetAnswers
  <2>5. Lists' /\ Ends'
    BY <2>1, <2>2, <2>4 DEF Tidy, Lists, Ends
  <2>6. \A i \in 1 .. Len(pushed) : pushed[i] \in Commands
    BY DEF Tidy, Lists
  <2>7. \A i \in 1 .. Len(pushed') :
           promise'[pushed'[i].client][pushed'[i].seq] # P!Unset
           \/ In(pushed'[i], queue') \/ In(pushed'[i], hand')
    BY <2>1, <2>2, <2>4, <2>6 DEF Tidy, Kept
  <2> QED
    BY <2>5, <2>7 DEF Tidy, Kept, Answered, In
<1> QED
  BY <1>1, <1>2, <1>3 DEF P!Callback

LEMMA UnloadTidy ==
    ASSUME Tidy, P!Unload
    PROVE  Tidy'
<1>1. CASE P!UnregisterTimer \/ P!ServerStopped \/ P!DrainEnds
  <2>1. UNCHANGED <<queue, hand, pushed, promise, replies>>
    BY <1>1 DEF P!UnregisterTimer, P!ServerStopped, P!EnterDrain, P!DrainEnds
  <2>2. Ends'
    BY <1>1, <2>1 DEF P!UnregisterTimer, P!ServerStopped, P!EnterDrain, P!DrainEnds,
                      P!HasWork, Tidy, Ends
  <2> QED
    BY <2>1, <2>2, TidyStays
<1>2. CASE P!Drain
  <2>1. /\ queue # <<>> /\ queue' = Tail(queue)
        /\ main = "drain"
        /\ P!SetPromise(Head(queue), P!make_error(Head(queue).id, P!ERR_TIMEOUT))
        /\ UNCHANGED <<pushed, hand, replies, main>>
    BY <1>2 DEF P!Drain, P!HasWork, P!Popped
  <2>2. /\ Head(queue) \in Commands /\ queue' \in Seq(Commands)
        /\ \A x : In(x, queue) => x = Head(queue) \/ In(x, queue')
    BY <2>1, HeadTaken DEF Tidy, Lists
  <2>3. /\ promise' = [c \in Conns |-> [k \in 1 .. MaxRequests |-> promise'[c][k]]]
        /\ \A x \in Commands : x = Head(queue) \/ Answered(x)
                                 => promise'[x.client][x.seq] # P!Unset
    BY <2>1, <2>2, Set, SetAnswers
  <2>4. Lists' /\ Ends'
    BY <2>1, <2>2, <2>3 DEF Tidy, Lists, Ends
  <2>5. \A i \in 1 .. Len(pushed) : pushed[i] \in Commands
    BY DEF Tidy, Lists
  <2>6. \A i \in 1 .. Len(pushed') :
           promise'[pushed'[i].client][pushed'[i].seq] # P!Unset
           \/ In(pushed'[i], queue') \/ In(pushed'[i], hand')
    BY <2>1, <2>2, <2>3, <2>5 DEF Tidy, Kept
  <2> QED
    BY <2>4, <2>6 DEF Tidy, Kept, Answered, In
<1> QED
  BY <1>1, <1>2 DEF P!Unload

LEMMA ClientTidy ==
    ASSUME Coupling, Tidy, NEW c \in Conns, P!Client(c)
    PROVE  Tidy'
<1>0. replies = [b \in Conns |-> replies[b]]
  BY DEF Coupling, Shapes
<1>1. CASE P!Refuse(c) \/ P!FutureReady(c) \/ P!WaitTimeout(c)
  <2>1. UNCHANGED <<queue, hand, pushed, promise, main, response>>
    BY <1>1 DEF P!Refuse, P!RefuseRequest, P!FutureReady, P!WaitTimeout, P!StopWaiting
  <2>2. \E r : P!Return(c, r)
    BY <1>1 DEF P!Refuse, P!RefuseRequest, P!FutureReady, P!WaitTimeout, P!StopWaiting
  <2>3. \A b \in Conns : \E R : replies'[b] \in Seq(R)
    BY <1>0, <2>2, RepliesGrow
  <2> QED
    BY <2>1, <2>3 DEF Tidy, Lists, Kept, Ends, Answered
<1>2. CASE P!Push(c)
  <2>1. PICK d \in Documents :
           /\ queue' = Append(queue, P!CommandOf(c, d))
           /\ pushed' = Append(pushed, P!CommandOf(c, d))
    BY <1>2 DEF P!Push, P!PushRequest, P!Enqueue, P!Parsed
  <2>2. UNCHANGED <<hand, promise, replies, main, response>> /\ main # "unloaded"
    BY <1>2 DEF P!Push, P!PushRequest, P!CanHandle
  <2>3. P!CommandOf(c, d) \in Commands
    <3>1. P!Turn(c) \in 1 .. MaxRequests
      <4>1. PICK R : replies[c] \in Seq(R)
        BY DEF Tidy, Lists
      <4>2. Len(replies[c]) \in Nat
        BY <4>1
      <4>3. MaxRequests \in Nat
        BY PartsAssumption DEF PartsAssumption
      <4> QED
        BY <1>2, <4>2, <4>3 DEF P!Push, P!CanHandle, P!Turn
    <3> QED
      BY <3>1 DEF P!CommandOf, P!Request, Commands
  <2> DEFINE new == P!CommandOf(c, d)
  <2> HIDE DEF new
  <2>4. /\ queue' \in Seq(Commands) /\ In(new, queue')
        /\ \A x : In(x, queue) => In(x, queue')
    BY <2>1, <2>3, Lengthened DEF Tidy, Lists, new
  <2>5. pushed \in Seq(Commands)
    BY DEF Tidy, Lists
  <2>6. /\ pushed' \in Seq(Commands)
        /\ Len(pushed') = Len(pushed) + 1 /\ Len(pushed) \in Nat
        /\ pushed'[Len(pushed) + 1] = new
        /\ \A i \in 1 .. Len(pushed) : pushed'[i] = pushed[i]
    BY <2>1, <2>3, <2>5, AppendProperties, LenProperties DEF new
  <2>7. Lists' /\ Ends'
    BY <2>2, <2>4, <2>6 DEF Tidy, Lists, Ends
  <2>8. ASSUME NEW i \in 1 .. Len(pushed')
        PROVE  promise'[pushed'[i].client][pushed'[i].seq] # P!Unset
               \/ In(pushed'[i], queue') \/ In(pushed'[i], hand')
    <3>1. CASE i = Len(pushed) + 1
      BY <2>4, <2>6, <3>1
    <3>2. CASE i \in 1 .. Len(pushed)
      BY <2>2, <2>4, <2>6, <3>2 DEF Tidy, Kept, Answered
    <3> QED
      BY <2>6, <3>1, <3>2
  <2> QED
    BY <2>7, <2>8 DEF Tidy, Kept, Answered, In
<1>3. CASE P!Escape(c)
  <2>1. UNCHANGED <<queue, hand, pushed, promise, replies, response>> /\ main' = "crashed"
    BY <1>3 DEF P!Escape, P!RequestEscapes
  <2>2. Ends'
    BY <2>1 DEF Tidy, Ends
  <2> QED
    BY <2>1, <2>2, TidyStays
<1> QED
  BY <1>1, <1>2, <1>3 DEF P!Client

LEMMA TidyStep ==
    Coupling /\ Tidy /\ [Next]_vars => Tidy'
<1> SUFFICES ASSUME Coupling, Tidy, [P!Next]_pipeline_vars
             PROVE  Tidy'
  BY CouplingStep
<1>1. CASE UNCHANGED pipeline_vars
  <2>1. UNCHANGED <<queue, hand, pushed, promise, replies, main, response>>
    BY <1>1 DEF pipeline_vars
  <2>2. Ends'
    BY <2>1 DEF Tidy, Ends
  <2> QED
    BY <2>1, <2>2, TidyStays
<1> QED
  BY <1>1, CallbackTidy, UnloadTidy, ClientTidy DEF P!Next

(***************************************************************************)
(* Once the plugin is unloaded every command ever pushed has an answer, no *)
(* thread waits for one, and no thread is left that could push another.    *)
(***************************************************************************)
THEOREM NothingLeftBehindCorrect == Spec => []NothingLeftBehind
<1>1. Spec => []Tidy
  BY TidyInit, TidyStep, CouplingInvariant, PTL DEF Spec
<1>2. Coupling /\ Tidy => NothingLeftBehind
  <2> SUFFICES ASSUME Coupling, Tidy, main = "unloaded"
               PROVE  /\ queue = <<>>
                      /\ \A i \in 1 .. Len(pushed) : Answered(pushed[i])
                      /\ \A c \in Conns : awaiting[c] = <<>> /\ client[c] \in {"none", "done"}
    BY DEF NothingLeftBehind, Answered
  <2>1. queue = <<>> /\ hand = <<>>
    BY DEF Tidy, Ends
  <2>2. \A c \in Conns : client[c] \in {"none", "done"}
    BY DEF Coupling, Joining, Joint
  <2>3. \A c \in Conns : awaiting[c] = <<>>
    BY <2>2 DEF Coupling, Joint
  <2>4. \A x : ~In(x, queue) /\ ~In(x, hand)
    BY <2>1 DEF In
  <2>5. \A i \in 1 .. Len(pushed) : Answered(pushed[i])
    BY <2>4 DEF Tidy, Kept
  <2> QED
    BY <2>1, <2>2, <2>3, <2>5
<1> QED
  BY <1>1, <1>2, CouplingInvariant, PTL

-----------------------------------------------------------------------------
(***************************************************************************)
(* What is proved of the pipeline and of the server alone holds of them in *)
(* the plugin, which makes no steps with them but theirs.                  *)
(***************************************************************************)
Pipeline == INSTANCE CommandPipelineProofs WITH Clients <- Conns
Server   == INSTANCE TcpServerProofs

\* The pipeline of Plugin is the one of the proofs.
LEMMA SameInit == P!Init <=> Pipeline!Init
  BY DEF P!Init, P!Unset, P!Null, Pipeline!Init, Pipeline!Unset, Pipeline!Null

LEMMA SameCallback == P!Callback <=> Pipeline!Callback
  BY DEF P!Callback, P!TimerFires, P!TryPop, P!TickEnds, P!Dispatch, P!DispatchEscapes,
         P!SetValue, P!has_command, P!InBatch, P!HasWork, P!Popped, P!Outcomes,
         P!make_result, P!make_error, P!Result, P!ERR_REAPER_API, P!ERR_NOT_FOUND,
         P!SetPromise, P!Current, P!Unset, P!Null, P!Last, P!Front,
         Pipeline!Callback, Pipeline!TimerFires, Pipeline!TryPop, Pipeline!TickEnds,
         Pipeline!Dispatch, Pipeline!DispatchEscapes, Pipeline!SetValue,
         Pipeline!has_command, Pipeline!InBatch, Pipeline!HasWork, Pipeline!Popped,
         Pipeline!Outcomes, Pipeline!make_result, Pipeline!make_error, Pipeline!Result,
         Pipeline!ERR_REAPER_API, Pipeline!ERR_NOT_FOUND, Pipeline!SetPromise,
         Pipeline!Current, Pipeline!Unset, Pipeline!Null, Pipeline!Last, Pipeline!Front

LEMMA SameUnload == P!Unload <=> Pipeline!Unload
  BY DEF P!Unload, P!UnregisterTimer, P!ServerStopped, P!EnterDrain, P!Drain,
         P!DrainEnds, P!HasWork, P!Popped, P!SetPromise, P!make_error, P!ERR_TIMEOUT,
         Pipeline!Unload, Pipeline!UnregisterTimer, Pipeline!ServerStopped,
         Pipeline!EnterDrain, Pipeline!Drain, Pipeline!DrainEnds, Pipeline!HasWork,
         Pipeline!Popped, Pipeline!SetPromise, Pipeline!make_error, Pipeline!ERR_TIMEOUT

LEMMA SameClient == \A c \in Conns : P!Client(c) <=> Pipeline!Client(c)
  BY DEF P!Client, P!Refuse, P!Push, P!Escape, P!FutureReady, P!WaitTimeout,
         P!CanHandle, P!RefuseRequest, P!PushRequest, P!RequestEscapes, P!Parsed,
         P!ParseThrows, P!Turn, P!Request, P!Raw, P!CommandOf,
         P!Enqueue, P!Return, P!StopWaiting, P!Waiting, P!Ready, P!Unset, P!Null,
         P!parse_request, P!Refusal, P!Valid, P!NoMethod, P!make_error, P!ERR_PARSE,
         P!ERR_INVALID_REQ, P!ERR_TIMEOUT,
         Pipeline!Client, Pipeline!Refuse, Pipeline!Push, Pipeline!Escape,
         Pipeline!FutureReady, Pipeline!WaitTimeout, Pipeline!CanHandle,
         Pipeline!RefuseRequest, Pipeline!PushRequest, Pipeline!RequestEscapes,
         Pipeline!Parsed, Pipeline!ParseThrows, Pipeline!Turn, Pipeline!Request, Pipeline!Raw,
         Pipeline!CommandOf, Pipeline!Enqueue, Pipeline!Return, Pipeline!StopWaiting,
         Pipeline!Waiting, Pipeline!Ready, Pipeline!Unset, Pipeline!Null,
         Pipeline!parse_request, Pipeline!Refusal, Pipeline!Valid, Pipeline!NoMethod,
         Pipeline!make_error, Pipeline!ERR_PARSE, Pipeline!ERR_INVALID_REQ,
         Pipeline!ERR_TIMEOUT

LEMMA PipelineSteps == Spec => Pipeline!Steps
<1>1. P!Next <=> Pipeline!Next
  BY SameCallback, SameUnload, SameClient DEF P!Next, Pipeline!Next
<1>2. [P!Next]_pipeline_vars => [Pipeline!Next]_Pipeline!vars
  BY <1>1 DEF pipeline_vars, Pipeline!vars
<1> QED
  BY <1>2, SameInit, ImplementsPipelineCorrect, PTL DEF ImplementsPipeline, Pipeline!Steps

LEMMA PipelineAssumptions ==
    /\ Documents \subseteq [form    : Pipeline!Forms,
                             jsonrpc : STRING,
                             method  : STRING,
                             id      : {"given", "absent"}]
    /\ MaxRequests \in Nat /\ TickBatch \in Nat \ {0} /\ MaxNesting \in Nat
  BY PartsAssumption DEF PartsAssumption, Pipeline!Forms

(***************************************************************************)
(* The plugin answers requests as RpcService says: each call begins at     *)
(* most once and in order, and ends for its client with one reply of the   *)
(* right kind, with the real server and its threads under the pipeline.    *)
(***************************************************************************)
THEOREM PluginRefinesRpcService == Spec => Pipeline!ImplementsRpcService
  BY PipelineSteps, PipelineAssumptions, Pipeline!RefinesBySteps, PTL

(***************************************************************************)
(* Under the real server, too, every reply is about the request it answers *)
(* and no late answer becomes another request's; a command without an      *)
(* answer is awaited or was given up by its client; no promise is set      *)
(* twice; and commands are popped once, in order, and held until answered. *)
(***************************************************************************)
THEOREM PluginAnswersRequests ==
    Spec => /\ []P!RepliesMatch
            /\ []P!UnansweredIsAwaitedOrTimedOut
            /\ []P!InOrderOnce
            /\ []P!HeldUntilAnswered
            /\ P!SetOnce
<1>1. Pipeline!RepliesMatch => P!RepliesMatch
  BY DEF Pipeline!RepliesMatch, Pipeline!CommandsAt, Pipeline!ERR_PARSE,
         Pipeline!ERR_INVALID_REQ, Pipeline!ERR_TIMEOUT, Pipeline!Null,
         P!RepliesMatch, P!CommandsAt, P!ERR_PARSE, P!ERR_INVALID_REQ, P!ERR_TIMEOUT,
         P!Null
<1>2. Pipeline!UnansweredIsAwaitedOrTimedOut => P!UnansweredIsAwaitedOrTimedOut
  <2>1. Pipeline!Unanswered = P!Unanswered
    BY Zenon DEF Pipeline!Unanswered, P!Unanswered
  <2> QED
    BY <2>1 DEF Pipeline!UnansweredIsAwaitedOrTimedOut, Pipeline!make_error,
                Pipeline!ERR_TIMEOUT, P!UnansweredIsAwaitedOrTimedOut, P!make_error,
                P!ERR_TIMEOUT
<1>3. Pipeline!InOrderOnce => P!InOrderOnce
  BY DEF Pipeline!InOrderOnce, P!InOrderOnce
<1>4. Pipeline!HeldUntilAnswered => P!HeldUntilAnswered
  BY DEF Pipeline!HeldUntilAnswered, Pipeline!InHand, Pipeline!Unset, Pipeline!Null,
         P!HeldUntilAnswered, P!InHand, P!Unset, P!Null
<1>5. Pipeline!SetOnce => P!SetOnce
  BY PTL DEF Pipeline!SetOnce, Pipeline!Unset, Pipeline!Null, Pipeline!vars,
             P!SetOnce, P!Unset, P!Null, P!vars
<1>6. Pipeline!Steps => []Pipeline!RepliesMatch
  BY PipelineAssumptions, Pipeline!RepliesHold
<1>7. Pipeline!Steps => []Pipeline!UnansweredIsAwaitedOrTimedOut
  BY PipelineAssumptions, Pipeline!UnansweredHolds
<1>8. Pipeline!Steps => []Pipeline!InOrderOnce
  BY PipelineAssumptions, Pipeline!OrderHolds
<1>9. Pipeline!Steps => []Pipeline!HeldUntilAnswered
  BY PipelineAssumptions, Pipeline!HeldHolds
<1>10. Pipeline!Steps => Pipeline!SetOnce
  BY PipelineAssumptions, Pipeline!SetOnceHolds
<1> QED
  BY <1>1, <1>2, <1>3, <1>4, <1>5, <1>6, <1>7, <1>8, <1>9, <1>10, PipelineSteps, PTL

-----------------------------------------------------------------------------
(***************************************************************************)
(* The same for the server.                                                *)
(***************************************************************************)
LEMMA SameServerInit == S!Init <=> Server!Init
  BY DEF S!Init, Server!Init

LEMMA SameThreads ==
    /\ S!AcceptThread <=> Server!AcceptThread
    /\ S!Start \/ S!StartFails \/ S!StopCalled
        <=> Server!Start \/ Server!StartFails \/ Server!StopCalled
  BY DEF S!AcceptThread, S!Start, S!StartFails, S!StopCalled, S!AcceptCheck,
         S!Accept, S!AcceptFails, S!Register, S!main_vars, S!peer_vars,
         S!clients_mutex_free, Server!AcceptThread, Server!Start, Server!StartFails,
         Server!StopCalled, Server!AcceptCheck, Server!Accept, Server!AcceptFails,
         Server!Register, Server!main_vars, Server!peer_vars,
         Server!clients_mutex_free

LEMMA SameStopping == S!Stopping <=> Server!Stopping
  BY DEF S!Stopping, S!CloseListener, S!SweepShutdown, S!SweepClose, S!SweepEnds,
         S!JoinAccept, S!JoinClients, S!main_vars, S!peer_vars,
         S!ListenerOpenAfterStop, S!AcceptJoined, S!ClientsJoined, Server!Stopping,
         Server!CloseListener, Server!SweepShutdown, Server!SweepClose,
         Server!SweepEnds, Server!JoinAccept, Server!JoinClients, Server!main_vars,
         Server!peer_vars, Server!ListenerOpenAfterStop, Server!AcceptJoined,
         Server!ClientsJoined

LEMMA SameServing ==
    ASSUME NEW c \in Conns
    PROVE  S!ClientThread(c) <=> Server!ClientThread(c)
<1>1. S!Without(sock[c][1]) = Server!Without(sock[c][1])
  BY DEF S!Without, S!FoldLeft, S!MapThenFoldSet, S!Max,
         Server!Without, Server!FoldLeft, Server!MapThenFoldSet, Server!Max
<1>2. S!RemoveActive(c) <=> Server!RemoveActive(c)
  BY <1>1 DEF S!RemoveActive, Server!RemoveActive, S!main_vars, S!peer_vars,
              S!clients_mutex_free, Server!main_vars, Server!peer_vars,
              Server!clients_mutex_free
<1> QED
  BY <1>2 DEF S!ClientThread, S!ClientCheck, S!Recv, S!RecvFails, S!HandlerReturns,
         S!Send, S!SendFails, S!Close, S!main_vars, S!peer_vars, S!Named, S!Goto,
         Server!ClientThread, Server!ClientCheck, Server!Recv, Server!RecvFails,
         Server!HandlerReturns, Server!Send, Server!SendFails, Server!Close,
         Server!main_vars, Server!peer_vars, Server!Named, Server!Goto

LEMMA SameEnvironment == S!Environment <=> Server!Environment
<1>1. \A f \in Fds : S!ForeignOpen(f) <=> Server!ForeignOpen(f)
  <2>1. \A T : S!Cardinality(T) = Server!Cardinality(T)
    BY DEF S!Cardinality, Server!Cardinality
  <2> QED
    BY <2>1 DEF S!ForeignOpen, S!main_vars, S!peer_vars,
                Server!ForeignOpen, Server!main_vars, Server!peer_vars
<1>2. \A c \in Conns : /\ S!Connect(c) <=> Server!Connect(c)
                       /\ S!PeerSend(c) <=> Server!PeerSend(c)
                       /\ S!PeerClose(c) <=> Server!PeerClose(c)
                       /\ S!CallFails(c) <=> Server!CallFails(c)
  BY DEF S!Connect, S!PeerSend, S!PeerClose, S!CallFails, S!Goto, S!Named,
         S!main_vars, S!peer_vars,
         Server!Connect, Server!PeerSend, Server!PeerClose, Server!CallFails,
         Server!Goto, Server!Named, Server!main_vars, Server!peer_vars
<1> QED
  BY <1>1, <1>2 DEF S!Environment, Server!Environment

LEMMA ServerSteps == Spec => Server!Steps
<1>1. [Next]_vars => [S!Next]_S!vars
  <2>1. CASE Main \/ UnregisterTimer
    BY <2>1 DEF Main, Load, TimerCallback, UnregisterTimer, CallStop, InStop,
                StopReturns, DrainQueue, server_vars, S!Next, S!Stopping, S!vars,
                S!main_vars, S!peer_vars
  <2>2. CASE AcceptThread \/ Environment
    BY <2>2 DEF AcceptThread, Environment, S!Next, S!Environment
  <2>3. ASSUME NEW c \in Conns, Client(c)
        PROVE  [S!Next]_S!vars
    BY <2>3 DEF Client, Serve, HandleRequest, WaitEnds, server_vars, S!Next,
                S!ClientThread, S!vars, S!main_vars, S!peer_vars
  <2>4. CASE UNCHANGED vars
    BY <2>4 DEF vars, server_vars, S!vars, S!main_vars, S!peer_vars
  <2> QED
    BY <2>1, <2>2, <2>3, <2>4 DEF Next
<1>2. S!Next <=> Server!Next
  BY SameThreads, SameStopping, SameServing, SameEnvironment DEF S!Next, Server!Next
<1>3. [S!Next]_S!vars => [Server!Next]_Server!vars
  BY <1>2 DEF S!vars, S!main_vars, S!peer_vars,
              Server!vars, Server!main_vars, Server!peer_vars
<1>4. Init => Server!Init
  BY SameServerInit DEF Init
<1> QED
  BY <1>1, <1>3, <1>4, PTL DEF Spec, Server!Steps

LEMMA ServerAssumptions ==
    /\ Free \notin Conns /\ Foreign \notin Conns /\ Free # Foreign
    /\ MaxMessages \in Nat /\ MaxForeign \in Nat
  BY PartsAssumption DEF PartsAssumption

(***************************************************************************)
(* Under load and unload of the real plugin: until stop() a thread serves  *)
(* its own connection alone, at no time another client's, and stop() does  *)
(* not return before all threads and descriptors are gone.                 *)
(***************************************************************************)
THEOREM PluginServesOwnConnections ==
    Spec => /\ []S!OwnConnectionOnly
            /\ []S!NeverAnothers
            /\ []S!StopQuiesces
<1>1. Server!OwnConnectionOnly => S!OwnConnectionOnly
  BY DEF Server!OwnConnectionOnly, Server!Unstopped, Server!Named,
         S!OwnConnectionOnly, S!Unstopped, S!Named
<1>2. Server!NeverAnothers => S!NeverAnothers
  BY DEF Server!NeverAnothers, Server!Named, S!NeverAnothers, S!Named
<1>3. Server!StopQuiesces => S!StopQuiesces
  BY DEF Server!StopQuiesces, S!StopQuiesces
<1>4. Server!Steps => []Server!OwnConnectionOnly
  BY ServerAssumptions, Server!OwnConnectionOnlyHolds
<1>5. Server!Steps => []Server!NeverAnothers
  BY ServerAssumptions, Server!NeverAnothersHolds
<1>6. Server!Steps => []Server!StopQuiesces
  BY ServerAssumptions, Server!StopQuiescesHolds
<1> QED
  BY <1>1, <1>2, <1>3, <1>4, <1>5, <1>6, ServerSteps, PTL

=============================================================================

----------------------------- MODULE TcpServer -----------------------------
(***************************************************************************)
(* The TCP server (tcp_server.cpp): the accept thread, one client thread   *)
(* per connection, and start() and stop(), which the main thread runs.     *)
(*                                                                         *)
(* Descriptors are the point of this module.  They are numbers the kernel  *)
(* hands out again as soon as they are closed, to accept() or to any other *)
(* part of REAPER, while the server keeps numbers in active_client_sockets_ *)
(* and in each thread's client_sock.  A system call acts on whatever the   *)
(* number names when it is made.                                           *)
(*                                                                         *)
(* A message is one framed request, read by read_message and answered by   *)
(* write_message; how a frame is read is the matter of framing.            *)
(***************************************************************************)
EXTENDS Naturals, Sequences, FiniteSets, SequencesExt

CONSTANTS
    Conns,        \* connections; a connection names its client thread too, and
                  \* is made once
    Fds,          \* descriptor numbers the kernel may hand out
    Free,         \* the owner of a descriptor that is not open
    Foreign,      \* the owner of one opened by another part of REAPER
    MaxMessages,  \* bound: requests in flight to the server per connection
    MaxForeign    \* bound: descriptors other parts of REAPER open

ASSUME OwnersAssumption == Free \notin Conns /\ Foreign \notin Conns /\ Free # Foreign
ASSUME BoundsAssumption == MaxMessages \in Nat /\ MaxForeign \in Nat

VARIABLES
    server,      \* where the main thread is in start() and stop()
    running,     \* running_
    listening,   \* listen_sock_ is open
    active,      \* active_client_sockets_
    swept,       \* how many entries of active stop() has dealt with
    threads,     \* client_threads_
    accept,      \* where the accept thread is
    accepted,    \* accept_loop's client, as <<conn, fd>>, until it is registered
    client,      \* client[c]: where the client thread of c is
    sock,        \* sock[c]: client_loop's client_sock, <<>> before the thread starts
    owner,       \* owner[f]: the kernel's view of a descriptor
    shut,        \* the connections on which shutdown() has been called
    backlog,     \* connections the kernel has completed and accept() has not
    peer,        \* peer[c]: the remote end, "away", "open", "closed", or
                 \* "broken" when the server has given it up before it closed
    inbox        \* inbox[c]: requests sent to the server and not yet received

main_vars  == <<server, running, listening, swept>>
peer_vars  == <<peer, inbox>>
vars == <<main_vars, active, threads, accept, accepted, client, sock, owner,
          shut, backlog, peer_vars>>

-----------------------------------------------------------------------------
Init ==
    /\ server    = "new"
    /\ running   = FALSE
    /\ listening = FALSE
    /\ active    = <<>>
    /\ swept     = 0
    /\ threads   = {}
    /\ accept    = "none"
    /\ accepted  = <<>>
    /\ client    = [c \in Conns |-> "none"]
    /\ sock      = [c \in Conns |-> <<>>]
    /\ owner     = [f \in Fds |-> Free]
    /\ shut      = {}
    /\ backlog   = <<>>
    /\ peer      = [c \in Conns |-> "away"]
    /\ inbox     = [c \in Conns |-> 0]

\* clients_mutex_ is held across steps by stop() alone: while it sweeps, and
\* while it joins the client threads.  The other critical sections are steps.
\* (Fault: there is no mutex.)
FaultyNoMutex == TRUE
clients_mutex_free == server \notin {"shutdown", "close", "join clients"}

(***************************************************************************)
(* The main thread in start().                                             *)
(***************************************************************************)
Start ==
    /\ server = "new"
    /\ server' = "started"
    /\ running' = TRUE
    /\ listening' = TRUE
    /\ accept' = "check"
    /\ UNCHANGED <<swept, active, threads, accepted, client, sock, owner, shut,
                   backlog, peer_vars>>

\* socket, bind or listen fails: no thread, and the plugin stays loaded.
StartFails ==
    /\ server = "new"
    /\ server' = "failed"
    /\ UNCHANGED <<running, listening, swept, active, threads, accept, accepted,
                   client, sock, owner, shut, backlog, peer_vars>>

(***************************************************************************)
(* The accept thread.                                                      *)
(***************************************************************************)
AcceptCheck ==
    /\ accept = "check"
    /\ accept' = IF running THEN "accept" ELSE "done"
    /\ UNCHANGED <<main_vars, active, threads, accepted, client, sock, owner,
                   shut, backlog, peer_vars>>

\* accept() returns the oldest connection on a descriptor that is free.
Accept ==
    /\ accept = "accept"
    /\ listening
    /\ backlog # <<>>
    /\ \E f \in Fds :
          /\ owner[f] = Free
          /\ owner' = [owner EXCEPT ![f] = Head(backlog)]
          /\ accepted' = <<Head(backlog), f>>
    /\ backlog' = Tail(backlog)
    /\ accept' = "register"
    /\ UNCHANGED <<main_vars, active, threads, client, sock, shut, peer_vars>>

\* accept() fails, with the listening socket gone or no descriptor left, and
\* the loop tries again at once.  (Fault: break instead of continue.)
FaultyAcceptBreaks ==
    /\ accept = "accept"
    /\ ~listening \/ (backlog # <<>> /\ \A f \in Fds : owner[f] # Free)
    /\ accept' = "done"
    /\ UNCHANGED <<main_vars, active, threads, accepted, client, sock, owner,
                   shut, backlog, peer_vars>>

AcceptFails ==
    /\ accept = "accept"
    /\ ~listening \/ (backlog # <<>> /\ \A f \in Fds : owner[f] # Free)
    /\ accept' = "check"
    /\ UNCHANGED <<main_vars, active, threads, accepted, client, sock, owner,
                   shut, backlog, peer_vars>>

\* The critical section of accept_loop.  Its clean-up of finished threads
\* removes none, because a thread stays joinable until it is joined.
Register ==
    /\ accept = "register"
    /\ clients_mutex_free
    /\ active' = Append(active, accepted[2])
    /\ threads' = threads \cup {accepted[1]}
    /\ client' = [client EXCEPT ![accepted[1]] = "check"]
    /\ sock' = [sock EXCEPT ![accepted[1]] = <<accepted[2]>>]
    /\ accepted' = <<>>
    /\ accept' = "check"
    /\ UNCHANGED <<main_vars, owner, shut, backlog, peer_vars>>

(***************************************************************************)
(* A client thread, in client_loop.                                        *)
(***************************************************************************)
\* What the thread's descriptor names now.
Named(c) == owner[sock[c][1]]

Goto(c, pc) ==
    /\ client' = [client EXCEPT ![c] = pc]
    /\ UNCHANGED <<main_vars, active, threads, accept, accepted, sock, shut,
                   backlog, peer>>

ClientCheck(c) ==
    /\ client[c] = "check"
    /\ Goto(c, IF running THEN "recv" ELSE "close")
    /\ UNCHANGED <<owner, inbox>>

\* read_message delivers a request: of the connection the descriptor names, or
\* whatever bytes a foreign descriptor holds.
Recv(c) ==
    /\ client[c] = "recv"
    /\ \/ /\ Named(c) \in Conns
          /\ inbox[Named(c)] > 0
          /\ inbox' = [inbox EXCEPT ![Named(c)] = @ - 1]
       \/ Named(c) = Foreign /\ UNCHANGED inbox
    /\ Goto(c, "handler")
    /\ UNCHANGED owner

\* read_message fails: the connection was shut down, the peer has closed it,
\* or the descriptor is closed or, being another part's, is no socket or has
\* come to its end.  (Fault: recv's 0, the end of the stream, is not taken for
\* a failure.)
FaultyRecvGoesOnAtEnd(c) ==
    /\ client[c] = "recv"
    /\ Named(c) \in {Free, Foreign}
    /\ Goto(c, "close")
    /\ UNCHANGED <<owner, inbox>>

RecvFails(c) ==
    /\ client[c] = "recv"
    /\ \/ c \in shut
       \/ Named(c) = c /\ peer[c] = "closed" /\ inbox[c] = 0
       \/ Named(c) \in {Free, Foreign}
    /\ Goto(c, "close")
    /\ UNCHANGED <<owner, inbox>>

\* handler_ returns; what it does meanwhile is CommandPipeline.
HandlerReturns(c) ==
    /\ client[c] = "handler"
    /\ Goto(c, "send")
    /\ UNCHANGED <<owner, inbox>>

\* write_message writes the response to whatever the descriptor names.  While
\* the other end does not read, send() blocks: the step need not come.  (Fault:
\* a thread serves one request.)
FaultySendEnds(c) ==
    /\ client[c] = "send"
    /\ Named(c) \notin shut \cup {Free}
    /\ Goto(c, "close")
    /\ UNCHANGED <<owner, inbox>>

Send(c) ==
    /\ client[c] = "send"
    /\ Named(c) \notin shut \cup {Free}
    /\ Goto(c, "check")
    /\ UNCHANGED <<owner, inbox>>

SendFails(c) ==
    /\ client[c] = "send"
    /\ \/ Named(c) \in shut \cup {Free, Foreign}
       \/ Named(c) \in Conns /\ peer[Named(c)] = "closed"
    /\ Goto(c, "close")
    /\ UNCHANGED <<owner, inbox>>

\* The peer is there, but recv() or send() returns an error, that of a signal
\* included, or the length of the next message is 0 or above the limit.
CallFails(c) ==
    /\ client[c] \in {"recv", "send"}
    /\ Named(c) = c /\ peer[c] = "open"
    /\ client' = [client EXCEPT ![c] = "close"]
    /\ peer' = [peer EXCEPT ![c] = "broken"]
    /\ UNCHANGED <<main_vars, active, threads, accept, accepted, sock, owner, shut,
                   backlog, inbox>>

\* close_socket(client_sock), without the mutex: the number is free again while
\* it is still in active.
Close(c) ==
    /\ client[c] = "close"
    /\ owner' = [owner EXCEPT ![sock[c][1]] = Free]
    /\ Goto(c, "remove")
    /\ UNCHANGED inbox

\* active without every entry that is the number f.  (Faults: nothing is
\* removed; the descriptor is closed once more.)
FaultyWithoutNothing(f) == active
Without(f) ==
    FoldLeft(LAMBDA kept, g : IF g = f THEN kept ELSE Append(kept, g), <<>>, active)

FaultyRemoveCloses(c) ==
    /\ client[c] = "remove"
    /\ clients_mutex_free
    /\ active' = Without(sock[c][1])
    /\ owner' = [owner EXCEPT ![sock[c][1]] = Free]
    /\ client' = [client EXCEPT ![c] = "done"]
    /\ UNCHANGED <<main_vars, threads, accept, accepted, sock, shut, backlog,
                   peer_vars>>

RemoveActive(c) ==
    /\ client[c] = "remove"
    /\ clients_mutex_free
    /\ active' = Without(sock[c][1])
    /\ client' = [client EXCEPT ![c] = "done"]
    /\ UNCHANGED <<main_vars, threads, accept, accepted, sock, owner, shut,
                   backlog, peer_vars>>

(***************************************************************************)
(* The main thread in stop().                                              *)
(***************************************************************************)
StopCalled ==
    /\ server \in {"started", "failed"}
    /\ server' = "close listener"
    /\ running' = FALSE
    /\ UNCHANGED <<listening, swept, active, threads, accept, accepted, client,
                   sock, owner, shut, backlog, peer_vars>>

\* The listening socket is shut down and closed; the kernel resets what is in
\* its backlog.  (Fault: it is left open.)
FaultyListenerLeftOpen == TRUE
ListenerOpenAfterStop == FALSE

CloseListener ==
    /\ server = "close listener"
    /\ server' = "shutdown"
    /\ swept' = 0
    /\ listening' = ListenerOpenAfterStop
    /\ backlog' = <<>>
    /\ UNCHANGED <<running, active, threads, accept, accepted, client, sock,
                   owner, shut, peer_vars>>

\* With the mutex held: shutdown() on one active socket, then close().
SweepShutdown ==
    /\ server = "shutdown"
    /\ swept < Len(active)
    /\ shut' = shut \cup ({owner[active[swept + 1]]} \cap Conns)
    /\ server' = "close"
    /\ UNCHANGED <<running, listening, swept, active, threads, accept, accepted,
                   client, sock, owner, backlog, peer_vars>>

SweepClose ==
    /\ server = "close"
    /\ owner' = [owner EXCEPT ![active[swept + 1]] = Free]
    /\ swept' = swept + 1
    /\ server' = "shutdown"
    /\ UNCHANGED <<running, listening, active, threads, accept, accepted, client,
                   sock, shut, backlog, peer_vars>>

SweepEnds ==
    /\ server = "shutdown"
    /\ swept = Len(active)
    /\ active' = <<>>
    /\ swept' = 0
    /\ server' = "join accept"
    /\ UNCHANGED <<running, listening, threads, accept, accepted, client, sock,
                   owner, shut, backlog, peer_vars>>

\* The accept thread, if there is one, has ended.  (Fault: it is not joined
\* before the client threads are.)
FaultyAcceptJoinSkipped == TRUE
AcceptJoined == accept \in {"none", "done"}

JoinAccept ==
    /\ server = "join accept"
    /\ AcceptJoined
    /\ server' = "join clients"
    /\ UNCHANGED <<running, listening, swept, active, threads, accept, accepted,
                   client, sock, owner, shut, backlog, peer_vars>>

\* With the mutex held: every client thread has ended.  (Fault: the threads are
\* detached.)
FaultyClientsDetached == TRUE
ClientsJoined == \A c \in threads : client[c] = "done"

JoinClients ==
    /\ server = "join clients"
    /\ ClientsJoined
    /\ threads' = {}
    /\ server' = "stopped"
    /\ UNCHANGED <<running, listening, swept, active, accept, accepted, client,
                   sock, owner, shut, backlog, peer_vars>>

(***************************************************************************)
(* The remote ends and the rest of REAPER.                                 *)
(***************************************************************************)
Connect(c) ==
    /\ listening
    /\ peer[c] = "away"
    /\ peer' = [peer EXCEPT ![c] = "open"]
    /\ backlog' = Append(backlog, c)
    /\ UNCHANGED <<main_vars, active, threads, accept, accepted, client, sock,
                   owner, shut, inbox>>

PeerSend(c) ==
    /\ peer[c] = "open"
    /\ inbox[c] < MaxMessages
    /\ inbox' = [inbox EXCEPT ![c] = @ + 1]
    /\ UNCHANGED <<main_vars, active, threads, accept, accepted, client, sock,
                   owner, shut, backlog, peer>>

PeerClose(c) ==
    /\ peer[c] = "open"
    /\ peer' = [peer EXCEPT ![c] = "closed"]
    /\ UNCHANGED <<main_vars, active, threads, accept, accepted, client, sock,
                   owner, shut, backlog, inbox>>

\* Another part of REAPER opens a file or a socket, and keeps it.  Nothing is
\* known of what a recv() or a send() on it does: it may wait for ever.
ForeignOpen(f) ==
    /\ owner[f] = Free
    /\ Cardinality({g \in Fds : owner[g] = Foreign}) < MaxForeign
    /\ owner' = [owner EXCEPT ![f] = Foreign]
    /\ UNCHANGED <<main_vars, active, threads, accept, accepted, client, sock,
                   shut, backlog, peer_vars>>

-----------------------------------------------------------------------------
AcceptThread == AcceptCheck \/ Accept \/ AcceptFails \/ Register

ClientThread(c) ==
    \/ ClientCheck(c) \/ Recv(c) \/ RecvFails(c) \/ HandlerReturns(c)
    \/ Send(c) \/ SendFails(c) \/ Close(c) \/ RemoveActive(c)

Stopping ==
    \/ CloseListener \/ SweepShutdown \/ SweepClose \/ SweepEnds
    \/ JoinAccept \/ JoinClients

Environment ==
    \/ \E c \in Conns : Connect(c) \/ PeerSend(c) \/ PeerClose(c) \/ CallFails(c)
    \/ \E f \in Fds : ForeignOpen(f)

Next ==
    \/ Start \/ StartFails \/ StopCalled
    \/ AcceptThread
    \/ \E c \in Conns : ClientThread(c)
    \/ Stopping
    \/ Environment

\* The thread of c is in a call that only the other end of its number can make
\* return: recv() or send() on a descriptor of another part of REAPER, or send()
\* to a peer that is there.  (recv() from a peer that sends nothing is no step.)
AwaitsOther(c) ==
    \/ client[c] \in {"recv", "send"} /\ Named(c) = Foreign
    \/ /\ client[c] = "send"
       /\ Named(c) \in Conns \ shut
       /\ peer[Named(c)] # "closed"

(***************************************************************************)
(* Every thread of the server is scheduled, handle_request returns (its    *)
(* wait is bounded), and stop() goes on whenever it can.  Nothing makes a  *)
(* peer send, read or close, or a call on its connection fail, nothing     *)
(* makes a call on a foreign descriptor return, and nothing makes REAPER   *)
(* unload the plugin.                                                      *)
(***************************************************************************)
Fairness ==
    /\ WF_vars(AcceptThread)
    /\ WF_vars(Stopping)
    /\ \A c \in Conns : WF_vars(~AwaitsOther(c) /\ ClientThread(c))

Spec == Init /\ [][Next]_vars /\ Fairness

-----------------------------------------------------------------------------
TypeOK ==
    /\ server    \in {"new", "started", "failed", "close listener", "shutdown",
                      "close", "join accept", "join clients", "stopped"}
    /\ running   \in BOOLEAN
    /\ listening \in BOOLEAN
    /\ active    \in Seq(Fds)
    /\ swept     \in 0 .. Len(active)
    /\ threads   \subseteq Conns
    /\ accept    \in {"none", "check", "accept", "register", "done"}
    /\ accepted  \in (Conns \X Fds) \cup {<<>>}
    /\ client    \in [Conns -> {"none", "check", "recv", "handler", "send",
                                "close", "remove", "done"}]
    /\ sock      \in [Conns -> Seq(Fds)]
    /\ owner     \in [Fds -> Conns \cup {Free, Foreign}]
    /\ shut      \subseteq Conns
    /\ backlog   \in Seq(Conns)
    /\ peer      \in [Conns -> {"away", "open", "broken", "closed"}]
    /\ inbox     \in [Conns -> 0 .. MaxMessages]

Unstopped == server \in {"new", "started", "failed"}

(***************************************************************************)
(* Until stop() is called, a client thread receives, sends and closes on   *)
(* its own connection alone, although descriptor numbers are reused: the   *)
(* number a thread holds is its own until the thread has closed it.        *)
(***************************************************************************)
OwnConnectionOnly ==
    Unstopped => \A c \in Conns :
        client[c] \in {"check", "recv", "handler", "send", "close"} => Named(c) = c

(***************************************************************************)
(* Not even stop(), which closes numbers under the threads that use them,  *)
(* makes a thread receive from, answer or close the connection of another  *)
(* client: what becomes of its number is never such a connection.          *)
(***************************************************************************)
NeverAnothers ==
    \A c \in Conns :
        client[c] \in {"check", "recv", "handler", "send", "close"}
            => Named(c) \notin Conns \ {c}

(***************************************************************************)
(* An entry of active_client_sockets_ is the number of a thread that has   *)
(* yet to remove it: connections that have ended leave nothing behind for  *)
(* a later stop() to close.                                                *)
(***************************************************************************)
ActiveHasThread ==
    \A i \in 1 .. Len(active) : \E c \in threads :
        sock[c] = <<active[i]>> /\ client[c] # "done"

(***************************************************************************)
(* When stop() has returned, no thread of the server is alive to touch the *)
(* server object, which is freed next, or the globals, and no connection   *)
(* holds a descriptor.                                                     *)
(***************************************************************************)
StopQuiesces ==
    server = "stopped" =>
        /\ accept \in {"none", "done"}
        /\ \A c \in Conns : client[c] \in {"none", "done"}
        /\ \A f \in Fds : owner[f] \notin Conns

(***************************************************************************)
(* A peer that has disconnected, or been given up for a call that failed,  *)
(* is let go: over and over, its thread has ended, its descriptor is       *)
(* closed and its entry is removed, unless stop() is called first.         *)
(***************************************************************************)
DisconnectIsReaped ==
    []<>(\A c \in Conns :
            peer[c] \in {"broken", "closed"} /\ client[c] # "none"
                => client[c] = "done" \/ ~Unstopped)

(***************************************************************************)
(* A peer that has connected gets its thread: over and over, none is       *)
(* without one, unless stop() is called or the process has run out of      *)
(* descriptors.                                                            *)
(***************************************************************************)
ConnectionIsServed ==
    []<>(\/ ~Unstopped
         \/ \A f \in Fds : owner[f] # Free
         \/ \A c \in Conns : peer[c] # "away" => client[c] # "none")

\* stop() joins a client thread that is waiting for the mutex stop() holds.
JoinCycle ==
    server = "join clients" /\ \E c \in threads : client[c] = "remove"

\* stop() joins a client thread whose connection it has not shut down and whose
\* peer is there, but sends nothing or does not read.
JoinsLiveConnection ==
    server = "join clients" /\ \E c \in threads :
        /\ client[c] \in {"recv", "send"}
        /\ Named(c) = c /\ c \notin shut /\ peer[c] # "closed"

\* stop() joins a client thread that reads from or writes to a descriptor it has
\* closed and another part of REAPER has been given since.
JoinsForeign ==
    server = "join clients" /\ \E c \in threads :
        client[c] \in {"recv", "send"} /\ Named(c) = Foreign

(***************************************************************************)
(* stop() returns or ends in one of three known ways to hang: a stop()     *)
(* that never returns is in one of them over and over, so that no other    *)
(* step of it, and no other state of the threads it joins, blocks it.      *)
(***************************************************************************)
StopHangsOnlyAsKnown ==
    []<>(\/ Unstopped \/ server = "stopped"
         \/ JoinCycle \/ JoinsLiveConnection \/ JoinsForeign)

(***************************************************************************)
(* Unloading is ordered "to avoid deadlock": stop() returns.  Violated:    *)
(* stop() joins the client threads with clients_mutex_ held, and each of   *)
(* them takes clients_mutex_ before it ends.                               *)
(***************************************************************************)
StopReturns == server = "close listener" ~> server = "stopped"

(***************************************************************************)
(* "Shutdown all active client sockets so their blocking recv() calls      *)
(* return immediately": once the sweep is over, no client thread is left   *)
(* in recv() on an open connection.  Violated: a thread closes its number  *)
(* before it removes it from active_client_sockets_; when the number is    *)
(* reused in between, both entries are removed, and the new one with them. *)
(***************************************************************************)
SweepReachesAll ==
    server \in {"join accept", "join clients"} =>
        \A c \in Conns : client[c] = "recv" /\ Named(c) = c => c \in shut

(***************************************************************************)
(* The sockets stop() closes are "active client sockets": the server never *)
(* closes a descriptor of another part of REAPER.  Violated: both stop()   *)
(* and the client thread close the same number, and between the two the    *)
(* kernel may have given it to somebody else.                              *)
(***************************************************************************)
ForeignUntouched ==
    [][\A f \in Fds : owner[f] = Foreign => owner'[f] = Foreign]_vars
=============================================================================

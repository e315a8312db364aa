-------------------------- MODULE TcpServerProofs ---------------------------
(***************************************************************************)
(* Safety of TcpServer for every set of connections and of descriptors.    *)
(***************************************************************************)
EXTENDS TcpServer, FoldLemmas

\* Spec without its fairness, which no argument here needs: all this module
\* proves holds of the part in the plugin too, which takes these steps only.
Steps == Init /\ [][Next]_vars

-----------------------------------------------------------------------------
(***************************************************************************)
(* The types of what the arguments are about.                              *)
(***************************************************************************)
Serving == {"check", "recv", "handler", "send", "close"}

Types ==
    /\ client   \in [Conns -> Serving \cup {"none", "remove", "done"}]
    /\ sock     \in [Conns -> Seq(Fds)]
    /\ owner    \in [Fds -> Conns \cup {Free, Foreign}]
    /\ accepted \in (Conns \X Fds) \cup {<<>>}
    /\ backlog  \in Seq(Conns)
    /\ threads  \in SUBSET Conns
    /\ peer     \in [Conns -> {"away", "open", "broken", "closed"}]

(***************************************************************************)
(* A connection passes from its peer to the backlog, to the accept thread  *)
(* and to its own thread, and is with one of them at a time.               *)
(***************************************************************************)
Accepted(c) == accept = "register" /\ accepted[1] = c

\* Nobody but the kernel or the peer has anything of c.
Untouched(c) ==
    /\ client[c] = "none"
    /\ ~Accepted(c)
    /\ \A f \in Fds : owner[f] # c

Passing ==
    /\ \A c \in Conns : peer[c] = "away" => Untouched(c)
    /\ \A i \in 1 .. Len(backlog) : /\ Untouched(backlog[i])
                                    /\ peer[backlog[i]] # "away"
                                    /\ \A j \in 1 .. Len(backlog) :
                                          backlog[i] = backlog[j] => i = j
    /\ accept = "register" => accepted \in Conns \X Fds /\ client[accepted[1]] = "none"
    /\ \A c \in Conns : client[c] # "none" => sock[c] # <<>>

\* Whoever a descriptor of a connection is with.
Held ==
    \A f \in Fds, c \in Conns : owner[f] = c =>
        \/ accept = "register" /\ accepted = <<c, f>>
        \/ client[c] \in Serving /\ sock[c] = <<f>>

\* stop() joins the accept thread first, and then all client threads.
Joining ==
    /\ server = "new" => accept = "none"
    /\ server \in {"join clients", "stopped"} => accept \in {"none", "done"}
    /\ server = "stopped" => threads = {}
    /\ \A c \in Conns : client[c] \in {"none", "done"} \/ c \in threads

\* Until stop() sweeps, a thread's number, and the accepted one, name its
\* connection.
Unswept == Unstopped \/ server = "close listener"

Owning ==
    Unswept =>
        /\ accept = "register" => owner[accepted[2]] = accepted[1]
        /\ \A c \in Conns : client[c] \in Serving => Named(c) = c

Inv == Types /\ Passing /\ Held /\ Joining /\ Owning

LEMMA InvInit == Init => Inv
  BY OwnersAssumption
  DEF Init, Inv, Types, Passing, Held, Joining, Owning, Untouched, Accepted, Serving,
      OwnersAssumption

-----------------------------------------------------------------------------
(***************************************************************************)
(* The steps that leave descriptors and connections where they are.        *)
(***************************************************************************)
LEMMA Still ==
    ASSUME Types, Passing, Held,
           UNCHANGED <<client, sock, owner, accepted, peer>>,
           backlog' \in {backlog, <<>>},
           threads' \in SUBSET Conns,
           accept' = "register" <=> accept = "register"
    PROVE  Types' /\ Passing' /\ Held'
<1>1. Types'
  <2>1. backlog \in Seq(Conns) /\ <<>> \in Seq(Conns)
    BY DEF Types
  <2>2. backlog' \in Seq(Conns)
    BY <2>1
  <2> QED
    BY <2>2 DEF Types
<1>2. \A c : Untouched(c)' <=> Untouched(c)
  BY DEF Untouched, Accepted
<1>3. \A i \in 1 .. Len(backlog') : i \in 1 .. Len(backlog) /\ backlog'[i] = backlog[i]
  OBVIOUS
<1>4. \A i \in 1 .. Len(backlog') : backlog'[i] \in Conns
  BY <1>3 DEF Types
<1>5. Passing'
  <2>1. \A c \in Conns : peer'[c] = "away" => Untouched(c)'
    BY <1>2 DEF Passing
  <2>2. \A i \in 1 .. Len(backlog') : Untouched(backlog[i])'
    BY <1>2, <1>3 DEF Passing, Untouched, Accepted
  <2>3. \A i \in 1 .. Len(backlog') :
           /\ peer'[backlog'[i]] # "away"
           /\ \A j \in 1 .. Len(backlog') : backlog'[i] = backlog'[j] => i = j
    BY <1>3 DEF Passing
  <2>4. accept' = "register" => accepted' \in Conns \X Fds /\ client'[accepted'[1]] = "none"
    BY DEF Passing
  <2>5. \A c \in Conns : client'[c] # "none" => sock'[c] # <<>>
    BY DEF Passing
  <2> QED
    BY <2>1, <2>2, <2>3, <2>4, <2>5 DEF Passing
<1>6. Held'
  BY DEF Held
<1> QED
  BY <1>1, <1>5, <1>6

LEMMA MainStep ==
    ASSUME Inv,
           \/ Start \/ StartFails \/ StopCalled \/ CloseListener \/ SweepShutdown
           \/ SweepEnds \/ JoinAccept \/ JoinClients
    PROVE  Inv'
<1>1. /\ UNCHANGED <<client, sock, owner, accepted, peer>>
      /\ backlog' \in {backlog, <<>>}
      /\ threads' \in {threads, {}}
  BY DEF Start, StartFails, StopCalled, CloseListener, SweepShutdown, SweepEnds,
         JoinAccept, JoinClients, main_vars, peer_vars
<1>2. accept' = "register" <=> accept = "register"
  BY DEF Start, StartFails, StopCalled, CloseListener, SweepShutdown, SweepEnds,
         JoinAccept, JoinClients, main_vars, peer_vars, Inv, Joining
<1>3. Types' /\ Passing' /\ Held'
  BY <1>1, <1>2, Still DEF Inv, Types
<1>4. Joining'
  BY DEF Start, StartFails, StopCalled, CloseListener, SweepShutdown, SweepEnds,
         JoinAccept, JoinClients, AcceptJoined, ClientsJoined, Inv, Joining, Types
<1>5. Unswept' => Unswept
  BY DEF Start, StartFails, StopCalled, CloseListener, SweepShutdown, SweepEnds,
         JoinAccept, JoinClients, Unswept, Unstopped
<1>6. Owning'
  BY <1>1, <1>2, <1>5 DEF Owning, Inv, Named
<1> QED
  BY <1>3, <1>4, <1>6 DEF Inv

LEMMA AcceptLoopStep ==
    ASSUME Inv, AcceptCheck \/ AcceptFails
    PROVE  Inv'
<1>1. UNCHANGED <<server, client, sock, owner, accepted, peer, backlog, threads>>
  BY DEF AcceptCheck, AcceptFails, main_vars, peer_vars
<1>2. accept' # "register" /\ accept \in {"check", "accept"}
  BY DEF AcceptCheck, AcceptFails
<1>3. Types' /\ Passing' /\ Held'
  BY <1>1, <1>2, Still DEF Inv, Types
<1>4. Joining' /\ Owning'
  BY <1>1, <1>2 DEF Inv, Joining, Owning, Unswept, Unstopped, Named
<1> QED
  BY <1>3, <1>4 DEF Inv

LEMMA PeerStep ==
    ASSUME Inv, NEW c \in Conns, PeerSend(c) \/ PeerClose(c)
    PROVE  Inv'
<1>1. /\ UNCHANGED <<server, accept, client, sock, owner, accepted, backlog, threads>>
      /\ peer' \in [Conns -> {"away", "open", "broken", "closed"}]
      /\ \A b \in Conns : peer'[b] = "away" <=> peer[b] = "away"
  BY DEF PeerSend, PeerClose, main_vars, Inv, Types
<1>2. Types'
  BY <1>1 DEF Inv, Types
<1>3. \A b : Untouched(b)' <=> Untouched(b)
  BY <1>1 DEF Untouched, Accepted
<1>4. \A i \in 1 .. Len(backlog) : backlog[i] \in Conns
  BY DEF Inv, Types
<1>5. Passing'
  BY <1>1, <1>3, <1>4 DEF Inv, Passing, Untouched, Accepted
<1>6. Held' /\ Joining' /\ Owning'
  BY <1>1 DEF Inv, Held, Joining, Owning, Unswept, Unstopped, Named
<1> QED
  BY <1>2, <1>5, <1>6 DEF Inv

-----------------------------------------------------------------------------
(***************************************************************************)
(* A client thread between receiving and sending.                          *)
(***************************************************************************)
LEMMA ServingStep ==
    ASSUME Inv, NEW c \in Conns,
           \/ ClientCheck(c) \/ Recv(c) \/ RecvFails(c) \/ HandlerReturns(c)
           \/ Send(c) \/ SendFails(c) \/ CallFails(c)
    PROVE  Inv'
<1>1. PICK pc \in Serving : client' = [client EXCEPT ![c] = pc]
  BY DEF ClientCheck, Recv, RecvFails, HandlerReturns, Send, SendFails, CallFails, Goto,
         Serving
<1>2. /\ UNCHANGED <<server, threads, accept, accepted, sock, owner, backlog>>
      /\ peer' \in [Conns -> {"away", "open", "broken", "closed"}]
      /\ \A b \in Conns : peer'[b] = "away" <=> peer[b] = "away"
      /\ client[c] \in Serving
  BY DEF ClientCheck, Recv, RecvFails, HandlerReturns, Send, SendFails, CallFails, Goto,
         Serving, main_vars, Inv, Types
<1>3. \A b \in Conns : client'[b] = client[b] \/ (client[b] \in Serving /\ client'[b] \in Serving)
  BY <1>1, <1>2 DEF Inv, Types
<1>4. Types'
  BY <1>1, <1>2 DEF Inv, Types
<1>5. "none" \notin Serving /\ "done" \notin Serving
  BY DEF Serving
<1>6. \A b \in Conns : Untouched(b)' <=> Untouched(b)
  BY <1>2, <1>3, <1>5 DEF Untouched, Accepted
<1>7. Passing'
  <2>1. \A i \in 1 .. Len(backlog) : backlog[i] \in Conns
    BY DEF Inv, Types
  <2>2. \A i \in 1 .. Len(backlog') : Untouched(backlog[i])'
    BY <1>2, <1>3, <1>5, <2>1 DEF Inv, Passing, Untouched, Accepted
  <2>3. accept' = "register" => accepted' \in Conns \X Fds /\ client'[accepted'[1]] = "none"
    BY <1>2, <1>3, <1>5 DEF Inv, Passing
  <2>4. \A b \in Conns : client'[b] # "none" => sock'[b] # <<>>
    BY <1>2, <1>3, <1>5 DEF Inv, Passing
  <2>5. \A b \in Conns : peer'[b] = "away" => Untouched(b)'
    BY <1>2, <1>6 DEF Inv, Passing
  <2>6. \A i \in 1 .. Len(backlog') :
            /\ peer'[backlog'[i]] # "away"
            /\ \A j \in 1 .. Len(backlog') : backlog'[i] = backlog'[j] => i = j
    BY <1>2, <2>1 DEF Inv, Passing
  <2> QED
    BY <2>2, <2>3, <2>4, <2>5, <2>6 DEF Passing
<1>8. Held'
  BY <1>2, <1>3 DEF Inv, Held
<1>9. Joining'
  BY <1>2, <1>3, <1>5 DEF Inv, Joining
<1>10. Owning'
  BY <1>2, <1>3 DEF Inv, Owning, Unswept, Unstopped, Named
<1> QED
  BY <1>4, <1>7, <1>8, <1>9, <1>10 DEF Inv

(***************************************************************************)
(* The end of a client thread: it closes what its number names, until      *)
(* stop() its own connection, and is gone.                                 *)
(***************************************************************************)
\* The thread of c, after its last look at the connection.
LEMMA SockOf ==
    ASSUME Inv, NEW c \in Conns, client[c] # "none"
    PROVE  sock[c][1] \in Fds
<1>1. sock[c] \in Seq(Fds) /\ sock[c] # <<>>
  BY DEF Inv, Types, Passing
<1> QED
  BY <1>1

LEMMA CloseStep ==
    ASSUME Inv, NEW c \in Conns, Close(c)
    PROVE  Inv'
<1> DEFINE f == sock[c][1]
<1>1. /\ client[c] = "close"
      /\ client' = [client EXCEPT ![c] = "remove"]
      /\ owner' = [owner EXCEPT ![f] = Free]
      /\ UNCHANGED <<server, threads, accept, accepted, sock, backlog, peer>>
  BY DEF Close, Goto, main_vars
<1>2. f \in Fds
  BY <1>1, SockOf
<1> HIDE DEF f
<1>3. \A b \in Conns : /\ b # c => client'[b] = client[b]
                       /\ b = c => client'[b] = "remove"
  BY <1>1 DEF Inv, Types
<1>4. \A g \in Fds : owner'[g] = IF g = f THEN Free ELSE owner[g]
  BY <1>1, <1>2 DEF Inv, Types
<1>5. Types'
  BY <1>1 DEF Inv, Types
<1>6. ASSUME NEW b \in Conns, Untouched(b)
      PROVE  client'[b] = "none" /\ ~(accept = "register" /\ accepted[1] = b)
             /\ \A g \in Fds : owner'[g] # b
  BY <1>1, <1>3, <1>4, <1>6, OwnersAssumption DEF Untouched, Accepted, OwnersAssumption
<1>7. Passing'
  <2>1. \A i \in 1 .. Len(backlog) : backlog[i] \in Conns
    BY DEF Inv, Types
  <2>2. \A i \in 1 .. Len(backlog') : Untouched(backlog[i])'
    BY <1>1, <1>6, <2>1 DEF Inv, Passing, Untouched, Accepted
  <2>3. accept' = "register" => accepted' \in Conns \X Fds /\ client'[accepted'[1]] = "none"
    BY <1>1, <1>3 DEF Inv, Passing
  <2>4. \A b \in Conns : client'[b] # "none" => sock'[b] # <<>>
    BY <1>1, <1>3 DEF Inv, Passing
  <2>5. \A b \in Conns : peer'[b] = "away" => Untouched(b)'
    BY <1>1, <1>6 DEF Inv, Passing, Untouched, Accepted
  <2> QED
    BY <1>1, <2>2, <2>3, <2>4, <2>5 DEF Inv, Passing
<1>8. Held'
  <2>1. ASSUME NEW g \in Fds, NEW b \in Conns, owner'[g] = b
        PROVE  \/ accept = "register" /\ accepted = <<b, g>>
               \/ client'[b] \in Serving /\ sock[b] = <<g>>
    <3>1. owner[g] = b /\ g # f
      BY <1>4, <2>1, OwnersAssumption DEF OwnersAssumption
    <3>2. b = c => sock[b] # <<g>>
      BY <3>1 DEF f
    <3> QED
      BY <1>3, <3>1, <3>2 DEF Inv, Held
  <2> QED
    BY <1>1, <2>1 DEF Held
<1>9. Joining'
  BY <1>1, <1>3 DEF Inv, Joining
<1>10. Owning'
  <2>1. ASSUME Unswept, accept = "register"
        PROVE  owner'[accepted[2]] = accepted[1]
    <3>1. Named(c) = c /\ owner[accepted[2]] = accepted[1] /\ accepted[1] # c
      BY <1>1, <2>1 DEF Inv, Owning, Passing, Serving
    <3>2. accepted[2] \in Fds /\ accepted[2] # f
      BY <2>1, <3>1 DEF f, Named, Inv, Passing
    <3> QED
      BY <1>4, <3>1, <3>2
  <2>2. ASSUME Unswept, NEW b \in Conns, client'[b] \in Serving
        PROVE  owner'[sock[b][1]] = b
    <3>1. b # c /\ client[b] \in Serving
      BY <1>3, <2>2 DEF Serving
    <3>2. Named(b) = b /\ Named(c) = c
      BY <1>1, <2>2, <3>1 DEF Inv, Owning, Serving
    <3>3. sock[b][1] \in Fds /\ sock[b][1] # f
      BY <3>1, <3>2, SockOf DEF f, Named, Serving
    <3> QED
      BY <1>4, <3>2, <3>3 DEF Named
  <2> QED
    BY <1>1, <2>1, <2>2 DEF Owning, Unswept, Unstopped, Named
<1> QED
  BY <1>5, <1>7, <1>8, <1>9, <1>10 DEF Inv

LEMMA RemoveStep ==
    ASSUME Inv, NEW c \in Conns, RemoveActive(c)
    PROVE  Inv'
<1>1. /\ client[c] = "remove"
      /\ client' = [client EXCEPT ![c] = "done"]
      /\ UNCHANGED <<server, threads, accept, accepted, sock, owner, backlog, peer>>
  BY DEF RemoveActive, main_vars, peer_vars
<1>2. \A b \in Conns : /\ b # c => client'[b] = client[b]
                       /\ b = c => client'[b] = "done"
  BY <1>1 DEF Inv, Types
<1>3. Types'
  BY <1>1 DEF Inv, Types
<1>4. Passing'
  <2>1. \A i \in 1 .. Len(backlog) : backlog[i] \in Conns
    BY DEF Inv, Types
  <2>2. \A i \in 1 .. Len(backlog') : Untouched(backlog[i])'
    BY <1>1, <1>2, <2>1 DEF Inv, Passing, Untouched, Accepted
  <2>3. accept' = "register" => accepted' \in Conns \X Fds /\ client'[accepted'[1]] = "none"
    BY <1>1, <1>2 DEF Inv, Passing
  <2>4. \A b \in Conns : client'[b] # "none" => sock'[b] # <<>>
    BY <1>1, <1>2 DEF Inv, Passing
  <2>5. \A b \in Conns : peer'[b] = "away" => Untouched(b)'
    BY <1>1, <1>2 DEF Inv, Passing, Untouched, Accepted
  <2> QED
    BY <1>1, <2>2, <2>3, <2>4, <2>5 DEF Inv, Passing
<1>5. Held'
  BY <1>1, <1>2 DEF Inv, Held, Serving
<1>6. Joining' /\ Owning'
  BY <1>1, <1>2 DEF Inv, Joining, Owning, Unswept, Unstopped, Named, Serving
<1> QED
  BY <1>3, <1>4, <1>5, <1>6 DEF Inv

(***************************************************************************)
(* The steps of others on descriptors: stop() closes some, and the rest of *)
(* REAPER opens some.                                                      *)
(***************************************************************************)
LEMMA OthersStep ==
    ASSUME Inv, SweepClose \/ \E f \in Fds : ForeignOpen(f)
    PROVE  Inv'
<1>1. /\ UNCHANGED <<threads, accept, accepted, client, sock, backlog, peer>>
      /\ server' = server \/ (server = "close" /\ server' = "shutdown")
  BY DEF SweepClose, ForeignOpen, main_vars, peer_vars
<1>2. PICK f, o : /\ owner' = [owner EXCEPT ![f] = o]
                  /\ o \in {Free, Foreign}
                  /\ Unswept => owner[f] = Free
  BY DEF SweepClose, ForeignOpen, Unswept, Unstopped
<1>3. \A g \in Fds : owner'[g] = IF g = f THEN o ELSE owner[g]
  BY <1>2 DEF Inv, Types
<1>4. Types'
  BY <1>1, <1>2 DEF Inv, Types
<1>5. ASSUME NEW g \in Fds, NEW b \in Conns, owner'[g] = b
      PROVE  owner[g] = b
  BY <1>2, <1>3, <1>5, OwnersAssumption DEF OwnersAssumption
<1>6. ASSUME NEW b \in Conns, Untouched(b)
      PROVE  client[b] = "none" /\ ~Accepted(b) /\ \A g \in Fds : owner'[g] # b
  BY <1>5, <1>6 DEF Untouched
<1>7. Passing'
  <2>1. \A i \in 1 .. Len(backlog) : backlog[i] \in Conns
    BY DEF Inv, Types
  <2>2. \A i \in 1 .. Len(backlog') : Untouched(backlog[i])'
    BY <1>1, <1>6, <2>1 DEF Inv, Passing, Untouched, Accepted
  <2>3. \A b \in Conns : peer'[b] = "away" => Untouched(b)'
    BY <1>1, <1>6 DEF Inv, Passing, Untouched, Accepted
  <2> QED
    BY <1>1, <2>2, <2>3 DEF Inv, Passing
<1>8. Held'
  BY <1>1, <1>5 DEF Inv, Held
<1>9. Joining'
  BY <1>1 DEF Inv, Joining
<1>10. Owning'
  <2>1. Unswept' => Unswept
    BY <1>1 DEF Unswept, Unstopped
  <2>2. ASSUME Unswept, NEW g \in Fds, owner[g] \in Conns
        PROVE  owner'[g] = owner[g]
    BY <1>2, <1>3, <2>2, OwnersAssumption DEF OwnersAssumption
  <2>3. Unswept /\ accept = "register" => owner'[accepted[2]] = accepted[1]
    BY <2>2 DEF Inv, Owning, Passing
  <2>4. ASSUME Unswept, NEW b \in Conns, client[b] \in Serving
        PROVE  owner'[sock[b][1]] = b
    BY <2>2, <2>4, SockOf DEF Inv, Owning, Named, Serving
  <2> QED
    BY <1>1, <2>1, <2>3, <2>4 DEF Owning, Named
<1> QED
  BY <1>4, <1>7, <1>8, <1>9, <1>10 DEF Inv

(***************************************************************************)
(* A new connection: from its peer to the backlog, the accept thread and   *)
(* its own thread.                                                         *)
(***************************************************************************)
LEMMA ConnectStep ==
    ASSUME Inv, NEW c \in Conns, Connect(c)
    PROVE  Inv'
<1>1. /\ peer[c] = "away"
      /\ peer' = [peer EXCEPT ![c] = "open"]
      /\ backlog' = Append(backlog, c)
      /\ UNCHANGED <<server, threads, accept, accepted, client, sock, owner>>
  BY DEF Connect, main_vars
<1>2. backlog \in Seq(Conns)
  BY DEF Inv, Types
<1>3. /\ 1 .. Len(backlog') = (1 .. Len(backlog)) \cup {Len(backlog) + 1}
      /\ \A i \in 1 .. Len(backlog) : backlog'[i] = backlog[i] /\ backlog[i] \in Conns
      /\ backlog'[Len(backlog) + 1] = c
  BY <1>1, <1>2
<1>4. \A b \in Conns : /\ b # c => peer'[b] = peer[b]
                       /\ b = c => peer'[b] = "open"
  BY <1>1 DEF Inv, Types
<1>5. Types'
  BY <1>1, <1>2 DEF Inv, Types
<1>6. \A b : Untouched(b)' <=> Untouched(b)
  BY <1>1 DEF Untouched, Accepted
<1>7. \A i \in 1 .. Len(backlog) : backlog[i] # c
  BY <1>1 DEF Inv, Passing
<1>8. Passing'
  <2>1. \A b \in Conns : peer'[b] = "away" => Untouched(b)'
    BY <1>4, <1>6 DEF Inv, Passing
  <2>2. ASSUME NEW i \in 1 .. Len(backlog'), NEW b, b = backlog'[i]
        PROVE  Untouched(b)' /\ peer'[b] # "away"
    BY <1>1, <1>3, <1>4, <1>6, <2>2 DEF Inv, Passing
  <2>3. \A i, j \in 1 .. Len(backlog') : backlog'[i] = backlog'[j] => i = j
    BY <1>3, <1>7 DEF Inv, Passing
  <2>4. \A i \in 1 .. Len(backlog') : Untouched(backlog[i])' /\ peer'[backlog'[i]] # "away"
    BY <2>2 DEF Untouched, Accepted
  <2> QED
    BY <1>1, <2>1, <2>3, <2>4 DEF Inv, Passing
<1>9. Held' /\ Joining' /\ Owning'
  BY <1>1 DEF Inv, Held, Joining, Owning, Unswept, Unstopped, Named
<1> QED
  BY <1>5, <1>8, <1>9 DEF Inv

LEMMA AcceptStep ==
    ASSUME Inv, Accept
    PROVE  Inv'
<1> DEFINE c == Head(backlog)
<1>1. PICK f \in Fds : /\ owner[f] = Free
                       /\ owner' = [owner EXCEPT ![f] = c]
                       /\ accepted' = <<c, f>>
  BY DEF Accept
<1>2. /\ accept = "accept" /\ accept' = "register" /\ backlog # <<>>
      /\ backlog' = Tail(backlog)
      /\ UNCHANGED <<server, threads, client, sock, peer>>
  BY DEF Accept, main_vars, peer_vars
<1>3. backlog \in Seq(Conns)
  BY DEF Inv, Types
<1>4. /\ c = backlog[1] /\ c \in Conns
      /\ 1 \in 1 .. Len(backlog)
      /\ backlog' \in Seq(Conns)
      /\ \A i \in 1 .. Len(backlog') : /\ i + 1 \in 1 .. Len(backlog)
                                       /\ i + 1 # 1
                                       /\ backlog'[i] = backlog[i + 1]
                                       /\ backlog[i + 1] \in Conns
  BY <1>2, <1>3
<1>5. Untouched(c) /\ peer[c] # "away"
  BY <1>4 DEF Inv, Passing
<1>6. \A i \in 1 .. Len(backlog') : backlog'[i] # c
  BY <1>4 DEF Inv, Passing
<1> HIDE DEF c
<1>7. \A g \in Fds : owner'[g] = IF g = f THEN c ELSE owner[g]
  BY <1>1 DEF Inv, Types
<1>8. Types'
  BY <1>1, <1>2, <1>4 DEF Inv, Types
<1>9. ASSUME NEW b \in Conns, b # c, Untouched(b)
      PROVE  client[b] = "none" /\ accepted'[1] # b /\ \A g \in Fds : owner'[g] # b
  BY <1>1, <1>7, <1>9 DEF Untouched
<1>10. Passing'
  <2>1. \A b \in Conns : peer'[b] = "away" => Untouched(b)'
    BY <1>2, <1>5, <1>9 DEF Inv, Passing, Untouched, Accepted
  <2>2. ASSUME NEW i \in 1 .. Len(backlog'), NEW b, b = backlog'[i]
        PROVE  Untouched(b)' /\ peer'[b] # "away"
    <3>1. b \in Conns /\ b # c /\ Untouched(b) /\ peer[b] # "away"
      BY <1>4, <1>6, <2>2 DEF Inv, Passing
    <3> QED
      BY <1>2, <1>9, <3>1 DEF Untouched, Accepted
  <2>3. \A i, j \in 1 .. Len(backlog') : backlog'[i] = backlog'[j] => i = j
    <3>1. ASSUME NEW i \in 1 .. Len(backlog'), NEW j \in 1 .. Len(backlog'),
                 backlog'[i] = backlog'[j]
          PROVE  i = j
      <4>1. i + 1 = j + 1
        BY <1>4, <3>1 DEF Inv, Passing
      <4> QED
        BY <4>1
    <3> QED
      BY <3>1
  <2>4. accepted' \in Conns \X Fds /\ client'[accepted'[1]] = "none"
    BY <1>1, <1>2, <1>4, <1>5 DEF Untouched
  <2>5. \A b \in Conns : client'[b] # "none" => sock'[b] # <<>>
    BY <1>2 DEF Inv, Passing
  <2>6. \A i \in 1 .. Len(backlog') : Untouched(backlog[i])' /\ peer'[backlog'[i]] # "away"
    BY <2>2 DEF Untouched, Accepted
  <2> QED
    BY <2>1, <2>3, <2>4, <2>5, <2>6 DEF Passing
<1>11. Held'
  BY <1>1, <1>2, <1>7 DEF Inv, Held
<1>12. Joining'
  BY <1>2 DEF Inv, Joining
<1>13. Owning'
  <2>1. owner'[accepted'[2]] = accepted'[1]
    BY <1>1, <1>7
  <2>2. ASSUME Unswept, NEW b \in Conns, client[b] \in Serving
        PROVE  owner'[sock[b][1]] = b
    <3>1. Named(b) = b /\ sock[b][1] \in Fds
      BY <2>2, SockOf DEF Inv, Owning, Serving
    <3>2. sock[b][1] # f
      BY <1>1, <3>1, OwnersAssumption DEF Named, OwnersAssumption
    <3> QED
      BY <1>7, <3>1, <3>2 DEF Named
  <2> QED
    BY <1>2, <2>1, <2>2 DEF Owning, Unswept, Unstopped, Named
<1> QED
  BY <1>8, <1>10, <1>11, <1>12, <1>13 DEF Inv

LEMMA RegisterStep ==
    ASSUME Inv, Register
    PROVE  Inv'
<1>1. PICK c \in Conns, f \in Fds : accepted = <<c, f>>
  BY DEF Register, Inv, Passing
<1>2. /\ accept = "register" /\ accept' = "check" /\ accepted' = <<>>
      /\ threads' = threads \cup {c}
      /\ client' = [client EXCEPT ![c] = "check"]
      /\ sock' = [sock EXCEPT ![c] = <<f>>]
      /\ UNCHANGED <<server, owner, backlog, peer>>
  BY <1>1 DEF Register, main_vars, peer_vars
<1>3. client[c] = "none"
  BY <1>1, <1>2 DEF Inv, Passing
<1>4. \A b \in Conns : /\ b # c => client'[b] = client[b] /\ sock'[b] = sock[b]
                       /\ b = c => client'[b] = "check" /\ sock'[b] = <<f>>
  BY <1>2 DEF Inv, Types
<1>5. Types'
  BY <1>2 DEF Inv, Types, Serving
<1>6. ASSUME NEW b \in Conns, Untouched(b)
      PROVE  client'[b] = "none" /\ \A g \in Fds : owner[g] # b
  BY <1>1, <1>2, <1>4, <1>6 DEF Untouched, Accepted
<1>7. Passing'
  <2>1. \A i \in 1 .. Len(backlog) : backlog[i] \in Conns
    BY DEF Inv, Types
  <2>2. \A i \in 1 .. Len(backlog') : Untouched(backlog[i])'
    BY <1>2, <1>6, <2>1 DEF Inv, Passing, Untouched, Accepted
  <2>3. \A b \in Conns : peer'[b] = "away" => Untouched(b)'
    BY <1>2, <1>6 DEF Inv, Passing, Untouched, Accepted
  <2>4. \A b \in Conns : client'[b] # "none" => sock'[b] # <<>>
    BY <1>4 DEF Inv, Passing
  <2> QED
    BY <1>2, <2>2, <2>3, <2>4 DEF Inv, Passing
<1>8. Held'
  <2>1. ASSUME NEW g \in Fds, NEW b \in Conns, owner[g] = b
        PROVE  client'[b] \in Serving /\ sock'[b] = <<g>>
    <3>1. CASE b = c
      BY <1>1, <1>3, <1>4, <2>1, <3>1 DEF Inv, Held, Serving
    <3>2. CASE b # c
      BY <1>1, <1>4, <2>1, <3>2 DEF Inv, Held
    <3> QED
      BY <3>1, <3>2
  <2> QED
    BY <1>2, <2>1 DEF Held
<1>9. Joining'
  BY <1>2, <1>4 DEF Inv, Joining
<1>10. Owning'
  <2>1. Unswept => owner[f] = c
    BY <1>1, <1>2 DEF Inv, Owning
  <2>2. Unswept' => Unswept
    BY <1>2 DEF Unswept, Unstopped
  <2>3. ASSUME Unswept, NEW b \in Conns, client'[b] \in Serving
        PROVE  owner[sock'[b][1]] = b
    <3>1. CASE b = c
      BY <1>4, <2>1, <2>3, <3>1
    <3>2. CASE b # c
      BY <1>4, <2>3, <3>2 DEF Inv, Owning, Named
    <3> QED
      BY <3>1, <3>2
  <2> QED
    BY <1>2, <2>2, <2>3 DEF Owning, Named
<1> QED
  BY <1>5, <1>7, <1>8, <1>9, <1>10 DEF Inv

-----------------------------------------------------------------------------
LEMMA InvStep == Inv /\ [Next]_vars => Inv'
<1> SUFFICES ASSUME Inv, [Next]_vars
             PROVE  Inv'
  OBVIOUS
<1>1. CASE \/ Start \/ StartFails \/ StopCalled \/ CloseListener \/ SweepShutdown
           \/ SweepEnds \/ JoinAccept \/ JoinClients
  BY <1>1, MainStep
<1>2. CASE AcceptThread
  BY <1>2, AcceptLoopStep, AcceptStep, RegisterStep DEF AcceptThread
<1>3. ASSUME NEW c \in Conns, ClientThread(c)
      PROVE  Inv'
  BY <1>3, ServingStep, CloseStep, RemoveStep DEF ClientThread
<1>4. CASE SweepClose \/ \E f \in Fds : ForeignOpen(f)
  BY <1>4, OthersStep
<1>5. ASSUME NEW c \in Conns, Connect(c) \/ CallFails(c) \/ PeerSend(c) \/ PeerClose(c)
      PROVE  Inv'
  BY <1>5, ConnectStep, ServingStep, PeerStep
<1>6. CASE UNCHANGED vars
  <2>1. UNCHANGED <<server, threads, accept, accepted, client, sock, owner, backlog, peer>>
    BY <1>6 DEF vars, main_vars, peer_vars
  <2>2. Types' /\ Passing' /\ Held'
    BY <2>1, Still DEF Inv, Types
  <2>3. Joining' /\ Owning'
    BY <2>1 DEF Inv, Joining, Owning, Unswept, Unstopped, Named
  <2> QED
    BY <2>2, <2>3 DEF Inv
<1> QED
  BY <1>1, <1>2, <1>3, <1>4, <1>5, <1>6 DEF Next, Stopping, Environment

LEMMA Invariant == Steps => []Inv
  BY InvInit, InvStep, PTL DEF Steps

LEMMA OwnConnectionOnlyHolds == Steps => []OwnConnectionOnly
<1>1. Inv => OwnConnectionOnly
  BY DEF Inv, Owning, Unswept, OwnConnectionOnly, Serving
<1> QED
  BY <1>1, Invariant, PTL

(***************************************************************************)
(* Until stop() is called no thread receives, sends or closes on a         *)
(* connection that is not its own, however numbers are reused.             *)
(***************************************************************************)
THEOREM OwnConnectionOnlyCorrect == Spec => []OwnConnectionOnly
  BY OwnConnectionOnlyHolds, PTL DEF Spec, Steps

LEMMA StopQuiescesHolds == Steps => []StopQuiesces
<1>1. Inv => StopQuiesces
  <2> SUFFICES ASSUME Inv, server = "stopped"
               PROVE  /\ accept \in {"none", "done"}
                      /\ \A c \in Conns : client[c] \in {"none", "done"}
                      /\ \A f \in Fds : owner[f] \notin Conns
    BY DEF StopQuiesces
  <2>1. accept \in {"none", "done"} /\ \A c \in Conns : client[c] \in {"none", "done"}
    BY DEF Inv, Joining
  <2>2. \A f \in Fds : owner[f] \notin Conns
    BY <2>1 DEF Inv, Held, Serving
  <2> QED
    BY <2>1, <2>2
<1> QED
  BY <1>1, Invariant, PTL

(***************************************************************************)
(* When stop() returns, no thread of the server and no descriptor of a     *)
(* connection is left, whatever was going on when it was called.           *)
(***************************************************************************)
THEOREM StopQuiescesCorrect == Spec => []StopQuiesces
  BY StopQuiescesHolds, PTL DEF Spec, Steps

-----------------------------------------------------------------------------
(***************************************************************************)
(* What Without leaves of active: some of its entries, and none that is f. *)
(* It is a fold, so this is by induction over the prefixes of active.      *)
(***************************************************************************)
\* One step of it, by position, and what is claimed of the prefix of length k.
Keep(f) == [p \in Seq(Fds) \X (1 .. Len(active)) |->
                IF active[p[2]] = f THEN p[1] ELSE Append(p[1], active[p[2]])]

KeptOf(kept, f) ==
    /\ kept \in Seq(Fds)
    /\ \A i \in 1 .. Len(kept) : kept[i] # f /\ \E j \in 1 .. Len(active) : kept[i] = active[j]

LEMMA WithoutUnfolds ==
    ASSUME active \in Seq(Fds), NEW f
    PROVE  \E h : /\ Without(f) = h[1 .. Len(active)]
                  /\ h[1 .. 0] = <<>>
                  /\ \A k \in 1 .. Len(active) :
                        h[1 .. k] = IF active[k] = f THEN h[1 .. k - 1]
                                    ELSE Append(h[1 .. k - 1], active[k])
<1> DEFINE N == Len(active)
           Def(h) == [s \in SUBSET (1 .. N) |->
                         IF s = {} THEN <<>>
                         ELSE IF active[Max(s)] = f THEN h[s \ {Max(s)}]
                              ELSE Append(h[s \ {Max(s)}], active[Max(s)])]
           iter == CHOOSE h : h = Def(h)
<1>1. Without(f) = iter[1 .. N]
  <2>1. DOMAIN active = 1 .. N
    OBVIOUS
  <2> QED
    BY <2>1 DEF Without, FoldLeft, MapThenFoldSet
<1>2. \E h : h = Def(h)
  <2>1. N \in Nat /\ <<>> \in Seq(Fds) /\ Keep(f) \in [Seq(Fds) \X (1 .. N) -> Seq(Fds)]
    BY DEF Keep
  <2>2. PICK h \in [SUBSET (1 .. N) -> Seq(Fds)] : Folds(h, Keep(f), <<>>, N)
    BY <2>1, FoldExists
  <2>3. ASSUME NEW s \in SUBSET (1 .. N), s # {}
        PROVE  /\ Max(s) \in 1 .. N
               /\ h[s \ {Max(s)}] \in Seq(Fds)
    <3>1. N \in Nat /\ s \subseteq 1 .. N
      OBVIOUS
    <3>2. Max(s) \in s
      BY <2>3, <3>1, MaxInRange
    <3>3. s \ {Max(s)} \in SUBSET (1 .. N)
      OBVIOUS
    <3> HIDE DEF N
    <3> QED
      BY <3>1, <3>2, <3>3
  <2>4. ASSUME NEW s \in SUBSET (1 .. N)
        PROVE  h[s] = Def(h)[s]
    BY <2>2, <2>3 DEF Folds, Keep
  <2> QED
    BY <2>4
<1>3. iter = Def(iter)
  BY <1>2
<1> HIDE DEF iter
<1>4. \A s \in SUBSET (1 .. N) : iter[s] = Def(iter)[s]
  BY <1>3
<1>5. ASSUME NEW k \in 1 .. N
      PROVE  iter[1 .. k] = IF active[k] = f THEN iter[1 .. k - 1]
                            ELSE Append(iter[1 .. k - 1], active[k])
  <2>1. k \in Nat \ {0} /\ 1 .. k \in SUBSET (1 .. N)
    OBVIOUS
  <2> QED
    BY <1>4, <2>1, Prefix
<1>6. iter[1 .. 0] = <<>>
  <2>1. 1 .. 0 \in SUBSET (1 .. N) /\ 1 .. 0 = {}
    OBVIOUS
  <2> QED
    BY <1>4, <2>1
<1> QED
  BY <1>1, <1>5, <1>6

LEMMA WithoutKeeps ==
    ASSUME active \in Seq(Fds), NEW f
    PROVE  KeptOf(Without(f), f)
<1>1. PICK h : /\ Without(f) = h[1 .. Len(active)]
               /\ h[1 .. 0] = <<>>
               /\ \A k \in 1 .. Len(active) :
                     h[1 .. k] = IF active[k] = f THEN h[1 .. k - 1]
                                 ELSE Append(h[1 .. k - 1], active[k])
  BY WithoutUnfolds
<1> DEFINE T == {k \in Nat : k <= Len(active) => KeptOf(h[1 .. k], f)}
<1>2. 0 \in T
  <2>1. KeptOf(<<>>, f)
    BY DEF KeptOf
  <2> QED
    BY <1>1, <2>1
<1>3. ASSUME NEW k \in Nat, k \in T
      PROVE  k + 1 \in T
  <2> SUFFICES ASSUME k + 1 <= Len(active)
               PROVE  KeptOf(h[1 .. k + 1], f)
    OBVIOUS
  <2>1. KeptOf(h[1 .. k], f)
    BY <1>3
  <2>2. h[1 .. k + 1] = IF active[k + 1] = f THEN h[1 .. k] ELSE Append(h[1 .. k], active[k + 1])
    BY <1>1
  <2>3. active[k + 1] \in Fds /\ k + 1 \in 1 .. Len(active)
    OBVIOUS
  <2> QED
    BY <2>1, <2>2, <2>3 DEF KeptOf
<1> HIDE DEF T
<1>4. Len(active) \in T
  BY <1>2, <1>3, NatSetInduction
<1> QED
  BY <1>1, <1>4 DEF T

-----------------------------------------------------------------------------
(***************************************************************************)
(* The types of all variables.  The sweep of stop() stays within active,   *)
(* which nobody changes meanwhile: the mutex is held.                      *)
(***************************************************************************)
Sweep ==
    /\ server = "close" => swept < Len(active)
    /\ server \notin {"shutdown", "close"} => swept = 0

TypeInv == TypeOK /\ Sweep

LEMMA TypeInit == Init => TypeInv
<1> SUFFICES ASSUME Init
             PROVE  TypeInv
  OBVIOUS
<1>1. /\ active \in Seq(Fds) /\ swept \in 0 .. Len(active) /\ swept = 0
      /\ backlog \in Seq(Conns)
  BY DEF Init
<1>2. sock \in [Conns -> Seq(Fds)] /\ inbox \in [Conns -> 0 .. MaxMessages]
  BY BoundsAssumption DEF Init, BoundsAssumption
<1>3. TypeOK
  BY <1>1, <1>2 DEF Init, TypeOK
<1> QED
  BY <1>1, <1>3 DEF Init, TypeInv, Sweep

\* The steps of start() and stop().
LEMMA MainTypes ==
    ASSUME TypeInv,
           \/ Start \/ StartFails \/ StopCalled \/ CloseListener \/ SweepShutdown
           \/ SweepClose \/ SweepEnds \/ JoinAccept \/ JoinClients
    PROVE  /\ server' \in {"new", "started", "failed", "close listener", "shutdown",
                           "close", "join accept", "join clients", "stopped"}
           /\ running' \in BOOLEAN /\ listening' \in BOOLEAN
           /\ active' \in Seq(Fds)
           /\ swept' \in 0 .. Len(active')
           /\ shut' \subseteq Conns
           /\ accept' \in {"none", "check", "accept", "register", "done"}
           /\ inbox' = inbox
           /\ Sweep'
<1>1. /\ active \in Seq(Fds) /\ Len(active) \in Nat
      /\ swept \in Nat /\ swept <= Len(active)
      /\ server = "close" => swept < Len(active)
      /\ server \notin {"shutdown", "close"} => swept = 0
  <2>1. active \in Seq(Fds) /\ swept \in 0 .. Len(active)
    BY DEF TypeInv, TypeOK
  <2>2. /\ server = "close" => swept < Len(active)
        /\ server \notin {"shutdown", "close"} => swept = 0
    BY DEF TypeInv, Sweep
  <2> QED
    BY <2>1, <2>2
<1>2. /\ server' \in {"new", "started", "failed", "close listener", "shutdown",
                      "close", "join accept", "join clients", "stopped"}
      /\ running' \in BOOLEAN /\ listening' \in BOOLEAN
      /\ shut' \subseteq Conns
      /\ accept' \in {"none", "check", "accept", "register", "done"}
      /\ inbox' = inbox
  BY DEF Start, StartFails, StopCalled, CloseListener, SweepShutdown, SweepClose, SweepEnds,
         JoinAccept, JoinClients, main_vars, peer_vars, TypeInv, TypeOK,
         ListenerOpenAfterStop
<1>3. CASE \/ Start \/ StartFails \/ StopCalled \/ CloseListener \/ SweepEnds
           \/ JoinAccept \/ JoinClients
  <2>1. /\ swept' = 0
        /\ active' \in {active, <<>>}
        /\ server' # "close"
    BY <1>1, <1>3 DEF Start, StartFails, StopCalled, CloseListener, SweepEnds,
                      JoinAccept, JoinClients, main_vars
  <2>2. active' \in Seq(Fds)
    <3>1. <<>> \in Seq(Fds)
      OBVIOUS
    <3> QED
      BY <1>1, <2>1, <3>1
  <2>3. swept' \in 0 .. Len(active')
    BY <2>1, <2>2
  <2>4. Sweep'
    BY <2>1 DEF Sweep
  <2> QED
    BY <1>2, <2>2, <2>3, <2>4
<1>4. CASE SweepShutdown
  BY <1>1, <1>2, <1>4 DEF SweepShutdown, Sweep
<1>5. CASE SweepClose
  BY <1>1, <1>2, <1>5 DEF SweepClose, Sweep
<1> QED
  BY <1>3, <1>4, <1>5

LEMMA TypeStep ==
    Inv /\ Inv' /\ TypeInv /\ [Next]_vars => TypeInv'
<1> SUFFICES ASSUME Inv, Inv', TypeInv, [Next]_vars
             PROVE  TypeInv'
  OBVIOUS
<1>0. /\ client' \in [Conns -> {"none", "check", "recv", "handler", "send",
                                "close", "remove", "done"}]
      /\ sock' \in [Conns -> Seq(Fds)]
      /\ owner' \in [Fds -> Conns \cup {Free, Foreign}]
      /\ accepted' \in (Conns \X Fds) \cup {<<>>}
      /\ backlog' \in Seq(Conns)
      /\ threads' \subseteq Conns
      /\ peer' \in [Conns -> {"away", "open", "broken", "closed"}]
  BY DEF Inv, Types, Serving
<1>1. CASE \/ Start \/ StartFails \/ StopCalled \/ CloseListener \/ SweepShutdown
           \/ SweepClose \/ SweepEnds \/ JoinAccept \/ JoinClients
  <2>1. /\ server' \in {"new", "started", "failed", "close listener", "shutdown",
                        "close", "join accept", "join clients", "stopped"}
        /\ running' \in BOOLEAN /\ listening' \in BOOLEAN
        /\ active' \in Seq(Fds)
        /\ swept' \in 0 .. Len(active')
        /\ shut' \subseteq Conns
        /\ accept' \in {"none", "check", "accept", "register", "done"}
        /\ inbox' = inbox
        /\ Sweep'
    BY <1>1, MainTypes
  <2> QED
    BY <1>0, <2>1 DEF TypeInv, TypeOK
<1>2. CASE \/ AcceptCheck \/ Accept \/ AcceptFails
           \/ \E f \in Fds : ForeignOpen(f)
           \/ \E c \in Conns : \/ Connect(c) \/ PeerSend(c) \/ PeerClose(c)
                               \/ ClientCheck(c) \/ Recv(c) \/ RecvFails(c)
                               \/ HandlerReturns(c) \/ Send(c) \/ SendFails(c)
                               \/ CallFails(c) \/ Close(c)
  <2>1. UNCHANGED <<server, running, listening, swept, active, shut>>
    BY <1>2 DEF AcceptCheck, Accept, AcceptFails, ForeignOpen, Connect, PeerSend, PeerClose,
                ClientCheck, Recv, RecvFails, HandlerReturns, Send, SendFails, CallFails,
                Close, Goto, main_vars
  <2>2. accept' \in {"none", "check", "accept", "register", "done"}
    BY <1>2 DEF AcceptCheck, Accept, AcceptFails, ForeignOpen, Connect, PeerSend, PeerClose,
                ClientCheck, Recv, RecvFails, HandlerReturns, Send, SendFails, CallFails,
                Close, Goto, main_vars, TypeInv, TypeOK
  <2>3. inbox' \in [Conns -> 0 .. MaxMessages]
    <3>1. inbox \in [Conns -> 0 .. MaxMessages] /\ MaxMessages \in Nat
      BY BoundsAssumption DEF TypeInv, TypeOK, BoundsAssumption
    <3>2. ASSUME NEW b \in Conns, inbox[b] < MaxMessages
          PROVE  [inbox EXCEPT ![b] = @ + 1] \in [Conns -> 0 .. MaxMessages]
      BY <3>1, <3>2
    <3>3. ASSUME NEW b \in Conns, inbox[b] > 0
          PROVE  [inbox EXCEPT ![b] = @ - 1] \in [Conns -> 0 .. MaxMessages]
      BY <3>1, <3>3
    <3> QED
      BY <1>2, <3>1, <3>2, <3>3
      DEF AcceptCheck, Accept, AcceptFails, ForeignOpen, Connect, PeerSend, PeerClose,
          ClientCheck, Recv, RecvFails, HandlerReturns, Send, SendFails, CallFails,
           Close, peer_vars
  <2> QED
    BY <1>0, <2>1, <2>2, <2>3 DEF TypeInv, TypeOK, Sweep
<1>3. CASE Register \/ \E c \in Conns : RemoveActive(c)
  <2>1. /\ UNCHANGED <<server, running, listening, swept, shut, inbox>>
        /\ server \notin {"shutdown", "close"}
        /\ accept' \in {accept, "check"}
    BY <1>3 DEF Register, RemoveActive, main_vars, peer_vars, clients_mutex_free
  <2>2. active \in Seq(Fds) /\ swept = 0
    BY <2>1 DEF TypeInv, TypeOK, Sweep
  <2>3. active' \in Seq(Fds)
    <3>1. CASE Register
      <4>1. accepted \in Conns \X Fds
        BY <3>1 DEF Register, Inv, Passing
      <4> QED
        BY <2>2, <3>1, <4>1 DEF Register
    <3>2. ASSUME NEW c \in Conns, RemoveActive(c)
          PROVE  active' \in Seq(Fds)
      BY <2>2, <3>2, WithoutKeeps DEF RemoveActive, KeptOf
    <3> QED
      BY <1>3, <3>1, <3>2
  <2>4. swept' \in 0 .. Len(active')
    BY <2>1, <2>2, <2>3
  <2>5. accept' \in {"none", "check", "accept", "register", "done"}
    BY <2>1 DEF TypeInv, TypeOK
  <2>6. Sweep'
    BY <2>1, <2>2 DEF Sweep
  <2> QED
    BY <1>0, <2>1, <2>3, <2>4, <2>5, <2>6 DEF TypeInv, TypeOK
<1>4. CASE UNCHANGED vars
  BY <1>0, <1>4 DEF vars, main_vars, peer_vars, TypeInv, TypeOK, Sweep
<1> QED
  BY <1>1, <1>2, <1>3, <1>4
  DEF Next, AcceptThread, ClientThread, Stopping, Environment

LEMMA TypeHolds == Steps => []TypeOK
<1>1. Steps => []TypeInv
  BY TypeInit, TypeStep, Invariant, PTL DEF Steps
<1> QED
  BY <1>1, PTL DEF TypeInv

(***************************************************************************)
(* Every variable keeps its type; of the sweep this says that stop() never *)
(* indexes active_client_sockets_ beyond its end.                          *)
(***************************************************************************)
THEOREM TypeCorrect == Spec => []TypeOK
  BY TypeHolds, PTL DEF Spec, Steps

-----------------------------------------------------------------------------
(***************************************************************************)
(* active_client_sockets_ holds numbers of threads that are not done: a    *)
(* thread removes its number, every copy of it, in the step it ends in.    *)
(***************************************************************************)
ThreadsRun == \A c \in threads : client[c] # "none"

ActiveInv == ActiveHasThread /\ ThreadsRun

\* The witness of an entry stays one when its thread neither ends nor starts.
LEMMA WitnessStays ==
    ASSUME ActiveInv, Inv,
           UNCHANGED <<active, threads, sock>>,
           \A c \in Conns : client[c] \notin {"none", "done"} => client'[c] \notin {"none", "done"},
           \A c \in Conns : client[c] = "done" => client'[c] = "done"
    PROVE  ActiveInv'
<1>1. threads \in SUBSET Conns
  BY DEF Inv, Types
<1>2. \A c \in threads : client'[c] # "none"
  BY <1>1 DEF ActiveInv, ThreadsRun
<1>3. ASSUME NEW i \in 1 .. Len(active)
      PROVE  \E c \in threads : sock[c] = <<active[i]>> /\ client'[c] # "done"
  <2>1. PICK c \in threads : sock[c] = <<active[i]>> /\ client[c] # "done"
    BY DEF ActiveInv, ActiveHasThread
  <2>2. client'[c] # "done"
    BY <1>1, <2>1 DEF ActiveInv, ThreadsRun
  <2> QED
    BY <2>1, <2>2
<1> QED
  BY <1>2, <1>3 DEF ActiveInv, ActiveHasThread, ThreadsRun

LEMMA ActiveStep ==
    Inv /\ TypeOK /\ ActiveInv /\ [Next]_vars => ActiveInv'
<1> SUFFICES ASSUME Inv, TypeOK, ActiveInv, [Next]_vars
             PROVE  ActiveInv'
  OBVIOUS
<1>0. threads \in SUBSET Conns /\ active \in Seq(Fds)
  BY DEF Inv, Types, TypeOK
<1>1. CASE \/ UNCHANGED vars
           \/ Start \/ StartFails \/ StopCalled \/ CloseListener \/ SweepShutdown
           \/ SweepClose \/ JoinAccept
           \/ AcceptCheck \/ Accept \/ AcceptFails
           \/ \E f \in Fds : ForeignOpen(f)
           \/ \E c \in Conns : Connect(c) \/ PeerSend(c) \/ PeerClose(c)
  <2>1. UNCHANGED <<active, threads, client, sock>>
    BY <1>1 DEF vars, Start, StartFails, StopCalled, CloseListener, SweepShutdown,
                SweepClose, JoinAccept, AcceptCheck, Accept, AcceptFails, ForeignOpen,
                Connect, PeerSend, PeerClose
  <2> QED
    BY <2>1, WitnessStays
<1>2. ASSUME NEW c \in Conns,
             \/ ClientCheck(c) \/ Recv(c) \/ RecvFails(c) \/ HandlerReturns(c)
             \/ Send(c) \/ SendFails(c) \/ CallFails(c) \/ Close(c)
      PROVE  ActiveInv'
  <2>1. PICK pc \in Serving \cup {"remove"} : client' = [client EXCEPT ![c] = pc]
    BY <1>2 DEF ClientCheck, Recv, RecvFails, HandlerReturns, Send, SendFails, CallFails,
                Close, Goto, Serving
  <2>2. UNCHANGED <<active, threads, sock>> /\ client[c] \in Serving
    BY <1>2 DEF ClientCheck, Recv, RecvFails, HandlerReturns, Send, SendFails, CallFails,
                Close, Goto, Serving
  <2>3. \A b \in Conns : client'[b] = IF b = c THEN pc ELSE client[b]
    BY <2>1 DEF Inv, Types
  <2>4. pc \notin {"none", "done"} /\ client[c] \notin {"none", "done"}
    BY <2>2 DEF Serving
  <2> QED
    BY <2>2, <2>3, <2>4, WitnessStays
<1>3. CASE Register
  <2>1. PICK c \in Conns, f \in Fds : accepted = <<c, f>>
    BY <1>3 DEF Register, Inv, Passing
  <2>2. /\ threads' = threads \cup {c}
        /\ active' = Append(active, f)
        /\ client[c] = "none"
        /\ \A b \in Conns : client'[b] = IF b = c THEN "check" ELSE client[b]
        /\ \A b \in Conns : sock'[b] = IF b = c THEN <<f>> ELSE sock[b]
    BY <1>3, <2>1 DEF Register, Inv, Passing, Types
  <2>3. \A b \in threads : b # c /\ b \in Conns
    BY <1>0, <2>2 DEF ActiveInv, ThreadsRun
  <2>4. ThreadsRun'
    BY <2>2, <2>3 DEF ActiveInv, ThreadsRun
  <2>5. /\ 1 .. Len(active') = (1 .. Len(active)) \cup {Len(active) + 1}
        /\ \A i \in 1 .. Len(active) : active'[i] = active[i]
        /\ active'[Len(active) + 1] = f
    BY <1>0, <2>2
  <2>6. ASSUME NEW i \in 1 .. Len(active')
        PROVE  \E b \in threads' : sock'[b] = <<active'[i]>> /\ client'[b] # "done"
    <3>1. CASE i = Len(active) + 1
      BY <2>2, <2>5, <3>1
    <3>2. CASE i \in 1 .. Len(active)
      <4>1. PICK b \in threads : sock[b] = <<active[i]>> /\ client[b] # "done"
        BY <3>2 DEF ActiveInv, ActiveHasThread
      <4> QED
        BY <2>2, <2>3, <2>5, <3>2, <4>1
    <3> QED
      BY <2>5, <3>1, <3>2
  <2>7. ActiveHasThread'
    BY <2>6 DEF ActiveHasThread
  <2> QED
    BY <2>4, <2>7 DEF ActiveInv
<1>4. ASSUME NEW c \in Conns, RemoveActive(c)
      PROVE  ActiveInv'
  <2>1. /\ active' = Without(sock[c][1])
        /\ UNCHANGED <<threads, sock>>
        /\ \A b \in Conns : client'[b] = IF b = c THEN "done" ELSE client[b]
    BY <1>4 DEF RemoveActive, Inv, Types
  <2>2. KeptOf(active', sock[c][1])
    BY <1>0, <2>1, WithoutKeeps
  <2>3. ThreadsRun'
    BY <1>0, <2>1 DEF ActiveInv, ThreadsRun
  <2>4. ASSUME NEW i \in 1 .. Len(active')
        PROVE  \E b \in threads : sock[b] = <<active'[i]>> /\ client'[b] # "done"
    <3>1. PICK j \in 1 .. Len(active) : active'[i] = active[j] /\ active'[i] # sock[c][1]
      BY <2>2 DEF KeptOf
    <3>2. PICK b \in threads : sock[b] = <<active[j]>> /\ client[b] # "done"
      BY DEF ActiveInv, ActiveHasThread
    <3>3. b # c
      BY <3>1, <3>2
    <3> QED
      BY <1>0, <2>1, <3>1, <3>2, <3>3
  <2>5. ActiveHasThread'
    BY <2>1, <2>4 DEF ActiveHasThread
  <2> QED
    BY <2>3, <2>5 DEF ActiveInv
<1>5. CASE SweepEnds
  <2>1. active' = <<>> /\ UNCHANGED <<threads, client>>
    BY <1>5 DEF SweepEnds
  <2> QED
    BY <2>1 DEF ActiveInv, ActiveHasThread, ThreadsRun
<1>6. CASE JoinClients
  <2>1. threads' = {} /\ UNCHANGED active /\ \A c \in threads : client[c] = "done"
    BY <1>6 DEF JoinClients, ClientsJoined
  <2>2. ~ \E i \in 1 .. Len(active) : TRUE
    BY <2>1 DEF ActiveInv, ActiveHasThread
  <2> QED
    BY <2>1, <2>2 DEF ActiveInv, ActiveHasThread, ThreadsRun
<1> QED
  BY <1>1, <1>2, <1>3, <1>4, <1>5, <1>6
  DEF Next, AcceptThread, ClientThread, Stopping, Environment

LEMMA ActiveInvHolds == Steps => []ActiveInv
<1>1. Init => ActiveInv
  BY DEF Init, ActiveInv, ActiveHasThread, ThreadsRun
<1> QED
  BY <1>1, ActiveStep, Invariant, TypeHolds, PTL DEF Steps

LEMMA ActiveHasThreadHolds == Steps => []ActiveHasThread
  BY ActiveInvHolds, PTL DEF ActiveInv

(***************************************************************************)
(* No connection that has ended leaves its number in                       *)
(* active_client_sockets_, however threads end and numbers are reused.     *)
(***************************************************************************)
THEOREM ActiveHasThreadCorrect == Spec => []ActiveHasThread
  BY ActiveHasThreadHolds, PTL DEF Spec, Steps

-----------------------------------------------------------------------------
(***************************************************************************)
(* What a number can come to name while its thread still serves: stop()    *)
(* frees it, and only the rest of REAPER is given it afterwards, because   *)
(* accept() has returned for the last time before stop() frees the first.  *)
(***************************************************************************)
Naming ==
    /\ listening => Unswept
    /\ accept = "register" => owner[accepted[2]] \in {accepted[1], Free, Foreign}
    /\ \A c \in Conns : client[c] \in Serving => Named(c) \in {c, Free, Foreign}

\* A step after which every descriptor names what it did, or nothing of a
\* connection, and nobody has come to hold one.
LEMMA NamingStays ==
    ASSUME Naming, Inv,
           UNCHANGED sock,
           listening' => Unswept',
           accept' = "register" => accept = "register" /\ accepted' = accepted,
           \A c \in Conns : client'[c] \in Serving => client[c] \in Serving,
           \A f \in Fds : owner'[f] \in {owner[f], Free, Foreign}
    PROVE  Naming'
<1>1. ASSUME accept = "register"
      PROVE  owner'[accepted[2]] \in {accepted[1], Free, Foreign}
  <2>1. accepted[2] \in Fds
    BY <1>1 DEF Inv, Passing
  <2> QED
    BY <1>1, <2>1 DEF Naming
<1>2. ASSUME NEW c \in Conns, client[c] \in Serving
      PROVE  owner'[sock[c][1]] \in {c, Free, Foreign}
  <2>1. sock[c][1] \in Fds
    BY <1>2, SockOf DEF Serving
  <2> QED
    BY <1>2, <2>1 DEF Naming, Named
<1> QED
  BY <1>1, <1>2 DEF Naming, Named

LEMMA NamingStep ==
    Inv /\ Naming /\ [Next]_vars => Naming'
<1> SUFFICES ASSUME Inv, Naming, [Next]_vars
             PROVE  Naming'
  OBVIOUS
<1>1. CASE \/ UNCHANGED vars
           \/ Start \/ StartFails \/ StopCalled \/ CloseListener \/ SweepShutdown
           \/ SweepEnds \/ JoinAccept \/ JoinClients
           \/ AcceptCheck \/ AcceptFails
           \/ \E c \in Conns : Connect(c) \/ PeerSend(c) \/ PeerClose(c)
  <2>1. UNCHANGED <<client, sock, owner, accepted>>
    BY <1>1 DEF vars, Start, StartFails, StopCalled, CloseListener, SweepShutdown,
                SweepEnds, JoinAccept, JoinClients, AcceptCheck, AcceptFails,
                Connect, PeerSend, PeerClose
  <2>2. accept' = "register" => accept = "register"
    BY <1>1 DEF vars, Start, StartFails, StopCalled, CloseListener, SweepShutdown,
                SweepEnds, JoinAccept, JoinClients, AcceptCheck, AcceptFails,
                Connect, PeerSend, PeerClose
  <2>3. listening' => Unswept'
    BY <1>1 DEF vars, main_vars, Start, StartFails, StopCalled, CloseListener,
                SweepShutdown, SweepEnds, JoinAccept, JoinClients, AcceptCheck, AcceptFails,
                Connect, PeerSend, PeerClose, ListenerOpenAfterStop, Naming, Unswept,
                Unstopped
  <2>4. \A f \in Fds : owner'[f] \in {owner[f], Free, Foreign}
    BY <2>1
  <2>5. \A c \in Conns : client'[c] \in Serving => client[c] \in Serving
    BY <2>1
  <2> QED
    BY <2>1, <2>2, <2>3, <2>4, <2>5, NamingStays
<1>2. CASE SweepClose \/ \E f \in Fds : ForeignOpen(f)
  <2>1. /\ UNCHANGED <<client, sock, accept, accepted, listening>>
        /\ server' = server \/ server = "close"
    BY <1>2 DEF SweepClose, ForeignOpen, main_vars
  <2>2. PICK f, o : owner' = [owner EXCEPT ![f] = o] /\ o \in {Free, Foreign}
    BY <1>2 DEF SweepClose, ForeignOpen
  <2>3. \A g \in Fds : owner'[g] \in {owner[g], Free, Foreign}
    BY <2>2 DEF Inv, Types
  <2>4. listening' => Unswept'
    BY <2>1 DEF Naming, Unswept, Unstopped
  <2> QED
    BY <2>1, <2>3, <2>4, NamingStays
<1>3. ASSUME NEW c \in Conns,
             \/ ClientCheck(c) \/ Recv(c) \/ RecvFails(c) \/ HandlerReturns(c)
             \/ Send(c) \/ SendFails(c) \/ CallFails(c) \/ Close(c) \/ RemoveActive(c)
      PROVE  Naming'
  <2>1. /\ UNCHANGED <<server, listening, accept, accepted, sock>>
        /\ owner' \in {owner, [owner EXCEPT ![sock[c][1]] = Free]}
        /\ client[c] \in Serving \/ client'[c] \notin Serving
        /\ \E pc : client' = [client EXCEPT ![c] = pc]
    BY <1>3 DEF ClientCheck, Recv, RecvFails, HandlerReturns, Send, SendFails, CallFails,
                Close, RemoveActive, Goto, Serving, main_vars, Inv, Types
  <2>2. \A b \in Conns : client'[b] \in Serving => client[b] \in Serving
    BY <2>1 DEF Inv, Types
  <2>3. \A f \in Fds : owner'[f] \in {owner[f], Free, Foreign}
    BY <2>1 DEF Inv, Types
  <2>4. listening' => Unswept'
    BY <2>1 DEF Naming, Unswept, Unstopped
  <2> QED
    BY <2>1, <2>2, <2>3, <2>4, NamingStays
<1>4. CASE Accept
  <2>1. /\ listening /\ accept = "accept" /\ UNCHANGED <<server, listening, client, sock>>
        /\ Inv'
    BY <1>4, InvStep DEF Accept, main_vars
  <2>2. Unswept'
    BY <2>1 DEF Naming, Unswept, Unstopped
  <2>3. Owning'
    BY <2>1 DEF Inv
  <2> QED
    BY <2>2, <2>3 DEF Naming, Owning
<1>5. CASE Register
  <2>1. PICK c \in Conns, f \in Fds : accepted = <<c, f>>
    BY <1>5 DEF Register, Inv, Passing
  <2>2. /\ UNCHANGED <<server, listening, owner>>
        /\ accept = "register" /\ accept' = "check"
        /\ \A b \in Conns : client'[b] = IF b = c THEN "check" ELSE client[b]
        /\ \A b \in Conns : sock'[b] = IF b = c THEN <<f>> ELSE sock[b]
    BY <1>5, <2>1 DEF Register, main_vars, Inv, Types
  <2>3. owner[f] \in {c, Free, Foreign}
    BY <2>1, <2>2 DEF Naming
  <2>4. ASSUME NEW b \in Conns, client'[b] \in Serving
        PROVE  owner'[sock'[b][1]] \in {b, Free, Foreign}
    <3>1. CASE b = c
      BY <2>2, <2>3, <3>1
    <3>2. CASE b # c
      BY <2>2, <2>4, <3>2 DEF Naming, Named
    <3> QED
      BY <3>1, <3>2
  <2>5. listening' => Unswept'
    BY <2>2 DEF Naming, Unswept, Unstopped
  <2> QED
    BY <2>2, <2>4, <2>5 DEF Naming, Named
<1> QED
  BY <1>1, <1>2, <1>3, <1>4, <1>5
  DEF Next, AcceptThread, ClientThread, Stopping, Environment

LEMMA NamingHolds == Steps => []Naming
<1>1. Init => Naming
  BY DEF Init, Naming, Unswept, Unstopped, Serving
<1> QED
  BY <1>1, NamingStep, Invariant, PTL DEF Steps

LEMMA NeverAnothersHolds == Steps => []NeverAnothers
<1>1. Naming => NeverAnothers
  BY OwnersAssumption DEF Naming, NeverAnothers, Serving, OwnersAssumption
<1> QED
  BY <1>1, NamingHolds, PTL

(***************************************************************************)
(* At no time, stop() included, does a thread that serves a connection     *)
(* hold a number that names the connection of another.                     *)
(***************************************************************************)
THEOREM NeverAnothersCorrect == Spec => []NeverAnothers
  BY NeverAnothersHolds, PTL DEF Spec, Steps

-----------------------------------------------------------------------------
(***************************************************************************)
(* What stop() can wait for.  A thread it joins goes on if an action of    *)
(* the thread has its guard and nobody else has to act for it: accept()    *)
(* fails once the listening socket is closed; recv() and send() fail on a  *)
(* connection that was shut down and on a number that names nothing, and   *)
(* they return when the peer is gone.                                      *)
(***************************************************************************)
AcceptGoesOn ==
    \/ accept = "check"
    \/ accept = "accept" /\ ~listening
    \/ accept = "register" /\ clients_mutex_free

ClientGoesOn(c) ==
    /\ ~AwaitsOther(c)
    /\ \/ client[c] \in {"check", "handler", "send", "close"}
       \/ client[c] = "recv" /\ \/ c \in shut \/ Named(c) = Free
                                \/ peer[c] = "closed"

\* The ways to hang of StopHangsOnlyAsKnown, for one thread: it needs the mutex
\* that stop() holds; it sends to or receives from a peer that is there, on a
\* connection that was not shut down; or it does so with another part of REAPER.
HangsAsKnown(c) ==
    \/ client[c] = "remove"
    \/ /\ client[c] \in {"recv", "send"}
       /\ \/ Named(c) = c /\ c \notin shut /\ peer[c] # "closed"
          \/ Named(c) = Foreign

(***************************************************************************)
(* The safety in StopHangsOnlyAsKnown, for any number of connections and   *)
(* descriptors: a thread that stop() waits for can go on, or it waits for  *)
(* the mutex, in recv() or send() on a connection the sweep has missed, or *)
(* in recv() or send() on a descriptor that is another part's of REAPER.   *)
(***************************************************************************)
THEOREM StopWaitsOnlyAsKnown ==
    Spec => [](/\ server = "join accept" => accept \in {"none", "done"} \/ AcceptGoesOn
               /\ server = "join clients" =>
                     \A c \in threads :
                        client[c] = "done" \/ ClientGoesOn(c) \/ HangsAsKnown(c))
<1> DEFINE Waits ==
        /\ server = "join accept" => accept \in {"none", "done"} \/ AcceptGoesOn
        /\ server = "join clients" =>
              \A c \in threads :
                 client[c] = "done" \/ ClientGoesOn(c) \/ HangsAsKnown(c)
<1>1. ASSUME TypeOK, Naming, ThreadsRun
      PROVE  Waits
  <2>1. server = "join accept" => accept \in {"none", "done"} \/ AcceptGoesOn
    BY <1>1 DEF TypeOK, Naming, AcceptGoesOn, clients_mutex_free, Unswept, Unstopped
  <2>2. ASSUME NEW c \in threads
        PROVE  client[c] = "done" \/ ClientGoesOn(c) \/ HangsAsKnown(c)
    <3>1. /\ client[c] \in {"check", "recv", "handler", "send", "close", "remove", "done"}
          /\ client[c] \in Serving => Named(c) \in {c, Free, Foreign}
          /\ c \in Conns /\ peer[c] \in {"away", "open", "broken", "closed"}
      BY <1>1 DEF TypeOK, Naming, ThreadsRun
    <3> QED
      BY <3>1, OwnersAssumption
         DEF OwnersAssumption, Serving, ClientGoesOn, HangsAsKnown, AwaitsOther
  <2> QED
    BY <2>1, <2>2
<1>2. Steps => []ActiveInv
  BY ActiveInvHolds
<1>3. ActiveInv => ThreadsRun
  BY DEF ActiveInv
<1> HIDE DEF Waits
<1>4. Spec => []Waits
  BY <1>1, <1>2, <1>3, TypeHolds, NamingHolds, PTL DEF Spec, Steps
<1> QED
  BY <1>4 DEF Waits
=============================================================================

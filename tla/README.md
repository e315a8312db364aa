# ReaServe: models, checks and proofs

ReaServe is a REAPER plugin in C++ that lets programs edit a REAPER project by
JSON-RPC over TCP. This directory holds TLA+ models of it, TLC runs on small
instances, and TLAPS proofs of its safety for all sizes. Paths below are
relative to the repository (`src/src/main.cpp` is `main.cpp` here).

## 1. The system

### Parts, state and operations

| Part | State | Operations | Module |
|---|---|---|---|
| JSON-RPC (`json_rpc.cpp`) | none | `parse_request`, `make_result`, `make_error` | `JsonRpc` |
| Command queue (`command_queue.cpp`) | the queue, a promise per command | `push`, `try_pop` | `CommandPipeline` |
| Registry (`command_registry.cpp`) | the names and handlers | `has_command`, `dispatch` | `CommandPipeline` |
| Plugin entry (`main.cpp`) | `g_queue`, `g_server`, the timer's registration | `handle_request`, `timer_callback`, load, unload | `CommandPipeline`, `Plugin`; loading in `Session` |
| TCP server (`tcp_server.cpp`) | `running_`, `listen_sock_`, `active_client_sockets_`, `client_threads_`, a mutex | `start`, `stop`, `accept_loop`, `client_loop` | `TcpServer` |
| Framing (`tcp_server.cpp`, namespace `framing`) | what of a frame has been sent and received | `encode`, `recv_exact`, `read_message`, `write_message` | `Framing` |
| Lua commands (`commands/lua.cpp`) | a counter, ExtState keys, temporary files, ReaScript actions | `lua.execute`, `lua.execute_and_read` | `LuaScripts` |
| Editing commands (`commands/tracks.cpp`, `items.cpp`, `fx.cpp`, `midi.cpp`, `markers.cpp`, `routing.cpp`, `envelope.cpp`) and undo blocks (`undo.cpp`) | REAPER's project, its undo history | the methods that change something | `ProjectCommands`, `Handlers` |
| Commands that read (those of the same files, `project.cpp`, `ping.cpp`) and transport (`transport.cpp`) | none of the plugin's | the calls each makes of REAPER | `Handlers` |
| REAPER API table (`reaper_api.cpp`) | a pointer per function, null if REAPER lacks it | `load`, the calls | `Session` |
| Configuration (`config.cpp`) | the file `reaserve.ini` | `load_config` | `Session` |

### How they interact

    peer --bytes--> Framing --payload--> client thread (TcpServer)
                                             |  handle_request
                                             v
                                     g_queue, promise      (CommandPipeline)
                                             |  timer_callback, 5 per callback
                                             v
                              REAPER's main thread: registry -> command
                                             |              (ProjectCommands,
                                             |               LuaScripts)
    peer <--bytes-- Framing <--reply-- future, or 10 s over

There is one accept thread and one thread per connection. A client thread reads
a frame, calls `handle_request`, which parses it, pushes a command and waits at
most ten seconds for its future, and writes the response. REAPER's main thread
calls `timer_callback` some thirty times a second; it also loads the plugin
(`start()`), and unloads it: it unregisters the timer, calls `stop()`, which
joins all threads, and drains the queue. All commands run on the main thread.

### What is hard here

* A wait may end at any point of the command's life: queued, in the callback's
  hands, or answered a moment ago. The command itself is never withdrawn.
* The end of the plugin: the order of timer, threads and queue, with requests in
  flight.
* Descriptors are numbers that the kernel hands out again. The server keeps them
  in two places, and closes them in two threads.
* `recv()` waits while a peer is silent and `send()` while it does not read; each
  of them may also fail while the peer is still there.
* A mutex is held while threads are joined that take it.
* Lua scripts open windows, in which REAPER goes on calling the timer, so that
  callbacks nest in the middle of each other; they defer themselves, and speak
  after their command is over.
* Commands throw in the middle of their work; clients name objects by indices
  that edits shift, and that are REAPER's choice among items or points of one time.
* Any of eighty optional functions of REAPER may be missing. Handlers test some
  at their start, some at the call, and some by testing another one.
* The configuration is read by a parser that passes over what it does not
  understand, and outlives the process.

The properties that make each part correct are in section 3; `PROJECT.json` lists
every hazard at its line, with the properties that would catch it.

## 2. The modules

**JsonRpc** has the error codes, `parse_request` with its refusals in their order
(no JSON, no object, version, method), and the two kinds of response. A payload is
a record of what these tests look at; texts and parameters are left out. Of text
with a number too large for a double `json::parse` throws an exception that
`parse_request` does not catch (`ParseThrows`).

**RpcService** is the abstract specification: calls begin once and in order; one may
begin while another runs, and then ends before that one goes on; each has one reply
for its client, which is a refusal, an answer after its execution, or an expiry
before it. At the end calls are dismissed.

**CommandPipeline** is the path of a request from a client thread through the
queue to the main thread and back. `Refuse`, `Push`, `Escape`, `FutureReady`,
`WaitTimeout` are `handle_request`; `TimerFires`, `TryPop`, `Dispatch`, `DispatchEscapes`,
`SetValue`, `TickEnds` are `timer_callback`; `UnregisterTimer`, `ServerStopped`,
`Drain`, `DrainEnds` are `ReaperPluginEntry(NULL)`. Each `try_pop`, dispatch and
`set_value` is a step of its own, because client threads run between them. While a
registered command is dispatched it may have a window open, in which `TimerFires`
again: `taken` has the `i` of each callback in progress and `hand` the `cmd` of each
that has one, innermost last. `pushed` and `popped` are history. A command returns a
result or throws; what it does is other modules' matter. `Escape`, an exception on a
client thread, and `DispatchEscapes`, one out of the callback, end the process
(`main = "crashed"`), and nothing moves any more. The refinement to
`RpcService` maps `pushed` to the calls, `popped` to those that have begun, `hand` to
the running ones, and each response code to its kind of reply.

**TcpServer** has the accept thread, the client threads, `start()` and `stop()`,
over a kernel that maps descriptor numbers to what they name. Steps are the
system calls and the critical sections; `clients_mutex_` appears as the stages of
`stop()` that hold it across steps. The peers and "other parts of REAPER", which
open descriptors too, are the environment. A call of a thread goes through (`Recv`,
`Send`); fails because the connection is down, was shut down or is closed
(`RecvFails`, `SendFails`); fails while the peer is there, for a length that is
refused or an error (`CallFails`, after which the peer is `"broken"`); or waits: for
another part of REAPER on a number that has become its own, or in `send()` for a peer
that does not read (`AwaitsOther`). A thread in `recv()` waits for its peer as well.

**Plugin** composes `TcpServer` and `CommandPipeline`: `handler_` is
`handle_request`, one main thread does everything of both, and `stop()` returning
is what the drain waits for. `CommandPipeline` alone may call the drain as soon as
nobody waits; that the server keeps this assumption is `ImplementsPipeline`.

**Framing** is one direction of a connection, byte by byte, with `send()` and
`recv()` taking any part of what they are offered. Base and number of digits of a
length are constants (256 and 4 in the code); `Place` has what each digit counts for.

**LuaScripts** has the two Lua commands on a main thread that may call other
commands while a script has a window open. A frame is a command in progress.
`Call` is a command up to the point where its script runs, with the failures of
the file and of its registration; `Output`, `Fail`, `Defer` and `DeferredOutput`
are what the script may do; the four `Returns` are the rest of the command with
its clean-up.

**ProjectCommands** gives each editing command as the plans it may come to: the
request, the project after each call to REAPER, whether it ends in an exception,
whether success is reported, what index or count the reply tells, and whether there
is what the reply is about. The main thread carries a plan out inside an `UndoBlock`.
Tracks, items, points, effects and sends are named by index, markers and regions by
number. Items and points are in the order of their times, and those of one time in
any: an item may be moved, split or made at a time where others are, and a point
inserted there, and then each place among them is a plan of its own (`Places`). A
note may be passed over or refused, an index be negative, and REAPER refuse a send or
a point. Where `fx.add` puts an effect is for REAPER, which reports the place; with a
position it may also find the effect and add none. REAPER may give a marker another
number than it was asked for, and does as it likes with a track at a negative index.

A client that edits alone keeps book of the project: `books` are the projects that
are possible for all it knows, which is what it has asked for and the replies. After
each reply it reckons with the outcome of every plan of the same request and the same
reply. When the reply leaves the outcome open (`Unclear`, which looks only at what the
client knows) it lists the project before it goes on. `hollow` remembers a success on
nothing, or somewhere else than the reply says.

**Handlers** has every one of the registered commands as the calls it makes of
REAPER's functions: those that are tested before the command starts (`needs`), and
then the calls in their order. `absent` says what the code does when the function
is not there: nothing was tested and a null pointer is called, the call is left
out, or an exception is thrown. What an exception unwinds is `Unwound`: only the
destructor of a begun `UndoBlock`.

**Session** runs the handlers in REAPER's sessions with the plugin. `Load`,
`Require`, `Resolve`, `RegisterTimer`, `LoadConfig`, `StartServer` and
`StartServerFails` are `ReaperPluginEntry` with what it calls; `CallCommand`,
`CallFunction`, `LeaveOut`, `ThrowException`, `PassOver`, `Return` are a command,
call by call; `NullCall` is the end of the process at a null pointer. The file
survives from one session to the next, and the user may edit it (`EditFile`). Its
lines are what the conversions make of them: the number `stoi` reads and the
address `inet_pton` reads, one of `Addresses`, or none.

The three modules that deal with commands look at different things:
`ProjectCommands` at what the calls do, `Session` at which calls are made,
`LuaScripts` at what scripts share. A missing function is a refusal before the
block in `ProjectCommands` (`Refused`) or an exception in it.

The definitions named `Faulty...` are the slips that the properties are tested
with: `PROJECT.json` names, for each property of each run that passes, a
definition and the faulty form with which TLC finds the property violated. They
are used nowhere else.

`map` in `PROJECT.json` gives the lines each definition is translated from.

## 3. The runs

Names are those of `PROJECT.json`; `tlc -config X.cfg M` repeats one.

### pipeline (MCCommandPipeline, Pipeline.cfg)

Two clients of two requests each, one registered name, batches of two, up to two
callbacks in progress; documents are refused, known, unknown without an id, or end
the process. It shows

* `InOrderOnce`: each command pushed is popped or queued, once, in order;
* `HeldUntilAnswered`: the commands popped that have no answer are those in the
  hands of the callbacks in progress, one each: a nested callback neither answers
  nor forgets the command of the one below;
* `RepliesMatch`: a reply is about its own request. A late answer never becomes
  the reply to a later request of the connection;
* `UnansweredIsAwaitedOrTimedOut`: a command without an answer is awaited, or
  its client was told of the time-out;
* `SetOnce`: no promise is set twice (`set_value` would throw outside the `try`);
* `CatchesUp`: with a bounded number of requests the pipeline comes to rest over and
  over: waits end, also during unloading, and the main thread works off the queue,
  the commands nobody waits for included;
* `ImplementsRpcService`: the pipeline implements the abstract service.

Bounds: two requests per client are needed for a late answer to meet a later
request; two clients for commands to overtake each other; a batch of two is
filled by the two clients, and with the commands they have given up on up to four
are queued, so that callbacks end for either reason. Two callbacks in progress are
one within the other, before, between and after the commands of both.

### server (MCTcpServer, Server.cfg)

Two connections over two descriptor numbers, of which another part of REAPER may
take one, one request in flight each; peers send, are silent, do not read, break or
leave. `OwnConnectionOnly`: until `stop()`, a thread
works on its own connection, though numbers are reused. `NeverAnothers`: not even
`stop()`, which closes numbers under the threads that use them, makes a thread work
on the connection of another. `ActiveHasThread`:
finished connections leave no number for `stop()` to close. `StopQuiesces`: when
`stop()` has returned, no thread is alive and no connection open, on which the
destruction of the server relies. `DisconnectIsReaped`, `ConnectionIsServed`: over and
over, all peers that have disconnected or whose connection has broken are let go, and
all that have connected have a thread. `StopHangsOnlyAsKnown`: `stop()` returns, or it
hangs in one of three ways. It waits for a thread that waits for the mutex which
`stop()` holds (`JoinCycle`); for one in `recv()` or `send()` on a connection the sweep
has missed, whose peer is there but silent, or does not read (`JoinsLiveConnection`);
or for one in `recv()` or `send()` on a number that is another part's of REAPER by now
(`JoinsForeign`). No other step of it, and no other state of a thread, blocks it.

Two connections are what it takes for a number to pass from one to the other, and
two numbers what it takes for one to pass to a foreign owner while another is in
use; the numbers also run out, as `accept()` failing requires.

### plugin (MCPlugin, Plugin.cfg)

Server and pipeline composed, two connections on one descriptor number, two requests
between them (`MaxSent`), which may be on one connection; they are refused, unknown,
or end the process. `ImplementsPipeline`: every step of the composition is a step of
`CommandPipeline` or leaves it alone, so what that module assumes of the server
holds. `NothingLeftBehind`: after the drain every command has an answer and no
thread is left. `RequestsAreAnswered`: over and over, each connection whose peer stays
has been sent a reply to all its peer has sent, and its thread is ready for the next
request; but for a thread in `send()` whose peer does not read, which holds up no
other connection. A thread that ended after its first reply would violate it.

The instance is the smallest with two client threads in turn and in unloading, and a
second request on a connection; the parts have their larger instances above. The
registry is empty, as what a command does changes nothing here: a request that
reaches the main thread is answered as not found. The connections are
interchangeable, and an action constraint has the first one made be `k1`; the runs of
the composition lose only the same behaviours with the names exchanged.

### lua (MCLuaScripts, Lua.cfg)

Three scripts, two of them in progress at a time, all of which may defer
themselves. `TypeOK` bounds the counter of keys by the calls. `RepliesAreOwn`: a
reply holds the words of its own script, also when they are a number too large for a
double, and the reply an error about it.
`ExtStateIsCleared`: only deferred scripts leave something in ExtState.
`FilesAreRemoved`: files and actions go on every path, but for the file `mkstemp`
made and `ofstream` could not open. A third script meets what the nested two
have left.

### framing (MCFraming, Framing.cfg)

Three messages: empty, short, at the limit or one above it; bytes of two values,
lengths of three digits. `DeliveredInStep`: delivered messages are the ones
written, whole, in order, and none after one refused. `AllArrive`, `RefusalEnds`:
acceptable messages arrive; one that is not ends the conversation. Payload bytes
that read as lengths are among the messages, so a reader out of step is seen.

### project (MCProjectCommands, Project.cfg)

Three commands of any kind on a project of one track, with an item, a point, an effect
and a send to itself, and of a marker; tracks may be added up to three, and there are
three times and two marker numbers.

* `FailuresChangeNothing`: only `midi.insert_notes` and `routing.add_send` fail with
  part of their work done.
* `UndoIsUpToDate`: undo blocks are closed and cover every change, exceptions included.
* `BooksAreRight`: after each reply only one project is possible for the client, and
  it is REAPER's, so that it may go on naming objects by index or number. It has to
  list the project first after those two failures; after an item or point was put at a
  time where there was one; when only some of its notes were inserted; when REAPER
  chose a marker's number, as the one wanted was taken or none was given; when `fx.add`
  was given a position; and after a `track.add` at a negative index.
* `SuccessIsOfSomething`: success on something that is not there, or not where the
  reply says, is reported only by `fx.enable` and `fx.disable`; by a `track.add` outside
  the tracks; and by `envelope.add_point`, whose index is that of before the points were
  sorted. Every other command finds the object first or passes REAPER's refusal on.

Three commands are enough to make something, change it, and find it at a shifted
index. The item and the point have a time that another may come before, behind or to
the same; two marker numbers let a number be wanted that is taken, or be REAPER's to
choose.

### session (MCSession, Session.cfg)

Two sessions, in one of these REAPERs: with all functions and no file yet; without
exactly one function, for each of the functions; with the six required functions
only, whose user tries out thirteen files and none; of another version.

* `NullCallsOnlyAsKnown`: no null pointer is called, while loading or in any
  command, but in two commands: `project.get_state` takes `GetTrack` for granted
  when `CountTracks` is there, and `lua.execute_and_read` takes `GetExtState` and
  `DeleteExtState` for granted when `HasExtState` is there.
* `BlocksAreEnded`: a command ends the undo block it begins, whichever of its
  later tests, conversions or lookups throws.
* `LossesOnlyAsKnown`: four commands report success although they have left out
  what was asked for, as its function is missing; all others refuse.
* `ListensAsConfigured`: the server listens at the port and address of the last
  lines that give one. Ports that are none are taken modulo 2^16, while the console
  names the number of the file; an address that is none stands for all of them.
* `RestartKeeps`: without edits the next session has the same configuration,
  though the first may have written the file, failed to, or left it empty.

One function at a time reaches each test that stands for another function's; the
REAPER without any optional one reaches the tests at a command's start. The files
have each kind of line, alone and after another of its key, ports at both ends of
the 16 bits and beyond them. Two sessions are what a restart is.

### Fairness

* Threads are scheduled: weak fairness of the accept thread, of each client
  thread, of `stop()` and of the drain, each as one action.
* `wait_for` has a limit, so that a waiting thread always has a step: either the
  future is ready or the time-out happens.
* REAPER calls the timer while it is registered: weak fairness of the callback. A
  command returns, though the timer is called over and over in its window: strong
  fairness of its end. A command that never returns (a script in an endless loop,
  a window nobody closes) is outside of this.
* A client thread is not assumed to go on where it waits for somebody else
  (`AwaitsOther`): in `recv()` or `send()` on a descriptor of another part of REAPER,
  and in `send()` to a peer that need not read. In `recv()` on its own connection it
  has no step before the peer has sent something or is gone.
* Nothing is assumed of peers: that they send, read or leave, or that calls on
  their connections fail. Nor does REAPER ever have to unload the plugin. In
  `CommandPipeline` nothing makes `stop()` return; there waits end by their limit.

`CHECK_DEADLOCK FALSE` is in every configuration because the system does stop:
after unloading, after a hang of `stop()`, when the reader has failed, or at the
bound on requests, scripts, messages, commands or sessions.

## 4. Where code and documents disagree

Each is a run that expects a violation of what the documents say.

| Run | Said | Done |
|---|---|---|
| `server_deadlock` | `main.cpp:84` "order matters to avoid deadlock" | `stop()` joins the client threads holding `clients_mutex_`, which they take before they end (`tcp_server.cpp:117`, `:166`). One open connection suffices. |
| `server_missed` | `tcp_server.cpp:103` "Shutdown all active client sockets" | A thread closes its number and then removes all entries of it; the entry of a connection that was given the number in between goes too, and `stop()` waits for a thread in `recv()`. |
| `server_foreign` | `tcp_server.cpp:103` "active client sockets" | `stop()` and the client thread both close the number; in between another part of REAPER may own it. |
| `plugin_drain` | `CHANGELOG.md:24` "in-flight futures resolve instead of blocking indefinitely" | The drain comes after the join of the threads that wait: they wait out their ten seconds. |
| `pipeline_escape` | `reaper-plugin-bridge.md:684` "catch C++ exceptions in timer callback" | The `catch` block serialises the exception's text, which throws when it is not UTF-8, as the text of a Lua error may be. |

A request that ends the process contradicts no document, and has no run of its own: a
number that overflows makes `json::parse` throw `out_of_range`, which is no
`parse_error` (`json_rpc.cpp:11`), and nothing on the client thread catches it. The
runs `pipeline` and `plugin` have it as the step `Escape`. In
`lua.execute_and_read`, which catches the same exception only (`lua.cpp:157`), the
dispatcher turns it into an error reply.

Two more were met while reading, and have no run because the disagreement is a
single line: `PROTOCOL.md:96` gives `-32603` for a Lua error, which `lua.cpp`
answers with -32000; `reaper-plugin-bridge.md:685` wants function pointers checked
at load, which is done for the six required ones only. What follows from the
latter is in `NullCallsOnlyAsKnown` and `LossesOnlyAsKnown`.

A `stop()` that hangs otherwise than by the first two, or by a thread left receiving
from or sending to a foreign descriptor, would violate `StopHangsOnlyAsKnown`.

## 5. The proofs

All of this is for every value of the constants that the named assumptions of the
modules allow; TLC evaluates these in the runs of the MC modules. Every safety
invariant and every action property of the runs of section 3 that pass has its
theorem, and so have both refinements. `theorems` in `PROJECT.json` lists them.

| Module | Proves about | From |
|---|---|---|
| `CommandPipelineProofs` | `CommandPipeline`, `RpcService` | `DocumentsAssumption`, `MaxRequestsAssumption`, `TickBatchAssumption` |
| `TcpServerProofs` | `TcpServer` | `OwnersAssumption`, `BoundsAssumption` |
| `PluginProofs` | `Plugin` | `PartsAssumption`, which are the assumptions of the two parts |
| `FramingProofs` | `Framing` | `FramingAssumption` |
| `LuaScriptsProofs` | `LuaScripts` | `LuaBoundsAssumption` |
| `ProjectCommandsProofs` | `ProjectCommands` | `StartAssumption`, `ProjectBoundsAssumption` |
| `SessionProofs` | `Session`, `Handlers` | `InstallationsAssumption`, `AddressesAssumption`, `PortsAssumption` |
| `FoldLemmas` | folds over sequences | nothing |

### Folds

What the models compute by `FoldLeft` (a length from its digits, the configuration
from its lines, the descriptors or sends that are left) is recursion over a
sequence. The library's induction theorems take an operator as a parameter, which
the provers cannot instantiate; `FoldLemmas` has what is needed without one.
`NatSetInduction` is induction as a fact about sets: a set of naturals with 0 in it,
and with k + 1 whenever it has k, has them all; it follows from the well-foundedness
of `<`. From it follow `RecursionExists` and `FoldExists`: the recursive function by
which `FoldLeft` is defined exists, so a fold may be unfolded one element at a time.
Each use names the step of its fold as a function, obtains the values of all
prefixes, and goes through them by `NatSetInduction`.

### The pipeline

* `TypeCorrect`: `Spec => []TypeOK`. `TypeOK` is not inductive: `Dispatch` and
  `SetValue` use `Last(hand)`, and a new request must be within `MaxRequests`.
  `TypeInv` adds `Control`: each callback in progress has a command in hand but for
  the innermost between two commands (`Callbacks`), there is room for it in its
  batch, there is a response when it is about to be set, and a thread that waits is
  at a request within the bound.
* `OrderCorrect`: `Spec => []InOrderOnce`. With the types the invariant is
  inductive: `Push` extends both sides, `TryPop` and `Drain` move one command across
  the border of the concatenation (lemma `MoveHead`), and no other action touches the
  three sequences.

`Inv` strengthens both: it says which promise, wait and command belong together.
`Issued`: a client's request is pushed once at most, and not before its turn.
`AwaitsOwn`: a waiting thread waits for the command of its present request, and not
once the drain has begun. `Held`: the callbacks in progress hold commands that were
popped, all different. `PromisesOfAnswered`: the promises with a value are those of
the commands popped and no longer in hand. `PromisesFit`, `ResponseFits`: what is or
will be in a promise has the id of its command and a code the main thread gives. As
every property of the pipeline looks at the same variables, the actions are sorted by
what they do to them (a push, a pop, a reply, an answer, nothing: lemmas `...Acts`),
and preservation is proved for each sort. The theorems are

* `SetOnceCorrect`: `Spec => SetOnce`. `SetValue` answers a command in hand and the
  drain a queued one, so `PromisesOfAnswered` says that its promise is empty.
* `HeldCorrect`: `Spec => []HeldUntilAnswered`, for any depth of nested callbacks. It
  is `Held` and `PromisesOfAnswered`, by place in `popped`.
* `UnansweredCorrect`: `Spec => []UnansweredIsAwaitedOrTimedOut`. A thread whose
  future is ready cannot be waiting for a command without an answer.
* `RepliesCorrect`: `Spec => []RepliesMatch`. A reply copied from a promise has
  been set, so a promise without a value that gets one later is the source of no
  reply.
* `RefinesRpcService`: `Spec => ImplementsRpcService`. Pushes are `Submit`, replies
  `Refuse`, `Answer` or `Expire` by their codes, `TryPop` is `Begin`, `SetValue` is
  `End`, `Drain` is `Dismiss`, and all other steps stutter. A future is ready exactly
  when the call has been executed (`ExecutedCalls`, from `Held` and `Issued`). That
  the drain also answers with the time-out's code does not confuse the kinds, because
  nobody waits by then.

Each is proved from `Steps`, which is `Spec` without its fairness.

### The server

`Inv` follows a connection on its way from the peer to the backlog, to the accept
thread and to its own thread (`Passing`): it is with one of them at a time. `Held`: a
descriptor that names a connection is the accept thread's or that of the
connection's thread, which has not closed it. `Joining`: the accept thread has ended
when `stop()` joins the client threads, so that no thread is added to those it
joins. `Owning`: until `stop()`, a number held names its connection; it is here that
the reuse of numbers matters, as the close of one thread must not hit the number of
another.

* `OwnConnectionOnlyCorrect` and `StopQuiescesCorrect`: from `Inv` alone.
* `NeverAnothersCorrect`: `Spec => []NeverAnothers`, also while `stop()` closes
  numbers under the threads that use them. `Naming`: such a number is the thread's
  own connection's, free, or another part's of REAPER, because `accept()` has returned
  for the last time before `stop()` frees the first.
* `TypeCorrect`: `Spec => []TypeOK`. It needs `Sweep`: `stop()` stays within `active`
  between its steps, which nobody changes while it holds the mutex. `RemoveActive`
  needs the fold: what is left are entries of `active`, and none is the number removed
  (`WithoutKeeps`).
* `ActiveHasThreadCorrect`: `Spec => []ActiveHasThread`, from `ActiveInv`, which adds
  that the threads registered have begun, and the same lemma: a thread removes its
  number, each copy of it, in the step it ends in, and an entry that stays has
  another number and so another thread, which stays too (`WitnessStays`).
* `StopWaitsOnlyAsKnown`: the safety in `StopHangsOnlyAsKnown`. Each thread that
  `stop()` waits for has an action whose guard holds and for which nobody else has to
  act, or is in one of the three known ways to hang (`HangsAsKnown`); the guards are
  spelled out (`AcceptGoesOn`, `ClientGoesOn`), as `ENABLED` is out of the prover's
  reach. A thread in `send()` counts as able to go on only where `send()` cannot wait:
  on a connection that was shut down or whose peer is gone, and on a number that names
  nothing. It follows from `Naming`: a number a thread uses is its own connection's,
  free, or another part's of REAPER.

### The plugin

`Coupling` holds the two parts together. `Joint`: a thread that waits in
`handle_request` is at "handler" in the server, at a request within the bound, and the
main thread does not come to the drain before `stop()` has returned. `Joining` and
`Passing`: by then no thread is left, and no connection gets one later; a thread that
starts is its connection's first and so not in `handle_request`.

* `ImplementsPipelineCorrect`: `Spec => ImplementsPipeline`. Each step is one of
  `CommandPipeline` or none; of `ServerStopped`, that nobody waits is `Coupling`.
* `NothingLeftBehindCorrect`: `Spec => []NothingLeftBehind`, from `Tidy`: a command
  pushed has its answer, or is in a callback's hands, or queued (`Kept`); there is no
  callback when the timer is unregistered and no command when the drain is over
  (`Ends`).
* `PluginRefinesRpcService`, `PluginAnswersRequests`, `PluginServesOwnConnections`:
  the plugin has what is proved of its parts. They are instances of the theorems above,
  since the plugin's steps are steps of the parts (`PipelineSteps`, `ServerSteps`) and
  its constants meet their assumptions. Thus the abstract service, matching replies,
  and threads that serve their own connections are properties of the composed system,
  with one main thread and unloading as `main.cpp` orders it, and not only of parts
  that assume each other.

### Framing

* `HeaderDecodes`: for every base, any number of digits and each length below
  `Base^Digits`, decoding the header that `encode` writes gives the length. `Place[k]`
  is the value of a place; the proof is by induction over the digits read, of which
  the first k make up the length divided by `Place[Digits - k]`.
* `TypeCorrect`: `Spec => []TypeOK`; no message longer than the limit is made room for.
* `DeliveredInStepCorrect`: `Spec => []DeliveredInStep`, whatever the pieces in which
  `send()` and `recv()` take the bytes. `InStep`: there is a `stream`, which gives for
  each i the frames of the messages after the i-th, such that what is in the reader's
  buffer, on the wire, and in the frame still being sent is together the stream of
  what is not delivered, less the header if that has been read. So a payload is never
  taken for a header.

### The Lua commands

For any number of scripts and any depth of nesting:

* `TypeCorrect`: `Spec => []TypeOK`; inductive, since the counter never
  overtakes the calls;
* `RepliesAreOwnCorrect`, `ExtStateIsClearedCorrect`, `FilesAreRemovedCorrect`:
  `Spec => []RepliesAreOwn` and so on.

None of the three is inductive. `Inv` adds whose each key is: commands in progress
have keys of their own, and a deferred script has that of its own command
(`Apart`); so under the key of a command in progress there is what its script has
said and nothing else (`Own`), although deferred scripts write under theirs at any
time; nothing is ever kept for the commands without a key (`Clear`).
`ExtStateIsCleared` and `FilesAreRemoved` are in it by position in `frames`
(`Cleared`, `Removed`). Preservation is proved per action; the four ways for a
command to end share `ReturnEnds`.

### The editing commands

For every project, set of times and set of numbers, and any number of commands.

* `UndoCoversEveryChange`: `Spec => []UndoIsUpToDate`. `UndoInv` says where a
  block is open, and that outside of one the undo point is the project.
* `FailuresAreClean`: `Spec => []FailuresChangeNothing`, `SuccessIsHonest`:
  `Spec => []SuccessIsOfSomething`, and `BooksCorrect`: `Spec => []BooksAreRight`, from
  `ProjectInv` together. Every plan for a project is `Proper` (`PlansAreProper`, with a
  lemma per command): it has changed something only if it succeeds or is of the two
  methods that may fail half-way; success on nothing is of the known methods; and what
  it comes to, if the reply is clear, is `Reading`, a function of the project, the
  request and the index or count the reply tells, and of nothing else. This is where
  ties matter: a time that nothing else has leaves one place (`OnePlace`). So all plans
  the client cannot tell from the one carried out come to the same project
  (`OneFinal`). `InProgress` follows a plan: what its calls so far have made of the
  project is at their place in it.
* `TypeCorrect`: `Spec => []TypeOK`. It rests on the same invariant, as a command edits
  what its index names: every plan for a project of `GoodProject` comes to such
  projects. That the items and points stay in the order of their times is `PutInOrder`
  and `RemoveInOrder`, with ties in whatever order they are.

`StartAssumption` says of the first project that it is one, with items and points in
the order of their times, which may be equal.

### The sessions

For every set of REAPERs, whatever functions they lack, and all files.

`Sound(h)` is what is true of each of the handlers, shown by one lemma per source
file: a function called without a test at the call was tested before, but in the two
known commands (`Tested`); what a client asks for is under no test, but in the four
known ones (`Heeded`); there is one undo block at most, and its end is the last step
(`Bracketed`); `lua.execute_and_read` uses ExtState after it has tested whether it
can test (`AfterTest`).

* `NullCallsOnlyAsKnownCorrect`, `BlocksAreEndedCorrect`, `LossesOnlyAsKnownCorrect`:
  from `Commands`. The entry resolves its six functions in order, so that what is
  resolved is the first k of them (`Resolving`); a command in progress was found when
  what it needs was there; the rest of its steps are still fit for it, and will end the
  block that it has begun, by whatever of them it leaves (`InHandler`, `Runs`,
  `WillEnd`).
* `ListensAsConfiguredCorrect`: `Spec => []ListensAsConfigured`. `load_config` is a
  fold over the lines; of the first k of them it has the last port and the last
  address (`LoadedHasLast`, by induction over k). `FromFile` says that the
  configuration, the socket and the console have what was read.
* `RestartKeepsCorrect`: `Spec => RestartKeeps`. The file that a session writes when it
  finds none, empty or not, reads as the defaults it goes on with (`DefaultsAgree`).
* `TypeCorrect`: `Spec => []TypeOK`; with the two invariants above there is little
  left to say (`Typed`).

### Checked by TLC only

Everything under fairness, since the prover does not do liveness: `CatchesUp`,
`ConnectionIsServed`, `DisconnectIsReaped`, `StopHangsOnlyAsKnown`,
`RequestsAreAnswered`, `AllArrive`, `RefusalEnds`. TLC also found the strengthened
invariants of this section to hold, on the instances of section 3, before they were
proved.

## 6. What is not modelled, and why

* REAPERs that lack several optional functions, but not all of them: a handler
  that goes wrong only then would be one that tests two functions for each other.
* Windows: the server is modelled over POSIX descriptors.
* `SIGPIPE` on a connection that was reset: its disposition is REAPER's.
* The race on `listen_sock_` between `stop()` and `accept()`: `accept()` on the
  stale number is modelled as failing.
* Unloading while a command has its window open: REAPER unloads its plugins when no
  callback is in progress.
* The values that commands only hand through: a track's volume, an effect's
  parameters, a note's pitch, the contents of the replies of reading commands; the
  value of the position argument of `fx.add`, whose meaning is REAPER's.
* What a peer has half sent: a thread waits in `recv()` for a whole request in
  `TcpServer`, and the bytes are `Framing`'s matter.
* Truncated temporary files: the text of a script is not modelled. A configuration
  file that could not be written in full is modelled as an empty one.
* Two clients editing at a time: indices are then stale by the design of the
  protocol; `BooksAreRight` is about a client on its own.
* The vendored headers (`reaper_plugin.h`, `WDL`): REAPER's interface, modelled by
  its use.

## 7. The plan

Order of the modules, most important first, with the state of each:

1. `JsonRpc`, `RpcService`, `CommandPipeline`: done, nested callbacks included.
2. `TcpServer` and `Plugin`: done.
3. `LuaScripts`, `Framing`, `ProjectCommands`: done, markers included.
4. `Handlers` and `Session`: done.
5. Proofs: every safety invariant, every action property and both refinements done,
   what is proved of the pipeline and the server carried over to the plugin, and the
   safety in `StopHangsOnlyAsKnown`. Open: the same for the other liveness properties,
   that whoever is waited for has a step to take; and that the two directions of a
   connection, each as in `Framing`, carry the requests and replies of `Plugin`.

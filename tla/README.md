# Verification of the C++ web servers of C-_Study

The repository holds three versions of a small HTTP server: `My_WebServer`
(one process), `My_WebServer_v1` (a master with prefork workers) and
`My_WebServer_v2` (an experiment on Boost.Asio). This directory models all three:
the edge-triggered event loop, the connections, the request handling, the life
cycle of the processes and their shared listening socket, the rotating logger, and
version 2's blocking callback. TLC checks small instances, TLAPS proves the
invariants marked below for every instance.

## 1. Inventory

| part | state | operations | talks to |
|---|---|---|---|
| `EpollReactor` | `callbacks_` (descriptor -> closure), `epoll_fd_`, `running_` (v1) | `add_fd`, `modify_fd`, `remove_fd`, `run`, `stop` | kernel (epoll), calls the closures |
| `TcpConnection` | `fd_`, `input_buffer_`, `output_buffer_`, `writing_`, `keep_alive_`, `read_cb_` | `start`, `send`, `handle_event`, `do_read`, `do_write`, `handle_close` | owned by its closure in `callbacks_`; calls `HTTPConnection` through `read_cb_` |
| `TcpAcceptor` | `listen_fd_`, `new_conn_cb_` | `handle_accept` | kernel (accept4); creates connections |
| `HTTPConnection` | `method_`, `uri_`, `version_`, `headers_`, `keep_alive_` | `handle_input`, `parse_request`, `prepare_response`, `handle_get/head/post`, `send_response` | calls `TcpConnection::send`, `set_keep_alive` |
| `ProcessMaster`, `worker_process` (v1) | `master_keep_running`, `workers`, `g_reactor`, signal handlers and masks | `create_workers`, `monitor_workers`, `signal_handler`, `worker_signal_handler` | fork, kill, waitpid; stops the worker's reactor |
| `Logger` | `log_file_`, `current_lines_`, `current_date_`, `file_index_`, `mutex_` | `init`, `log`, `check_file`, `rotate_file` | called by everything; inherited by the workers |
| v2 `EpollReactor`, `TcpAcceptor` | the listening socket | constructor, `run`, `handle_accept` | kernel; calls the new-connection callback |
| v2 `main`, `HttpConnection` | `active_connections`, `socket_`, `req_`, `res_` | the callback, `read_request`, `handle_request`, `resolve_path`, `send_response` | Asio's blocking calls; two owners of a descriptor when the callback fails |

What is hard about it:

- *edge triggers*: an event is reported once; a handler that leaves input, output
  or backlog behind must be sure of another edge;
- *descriptor numbers are reused*, also between two events of one batch;
- *a handler can destroy the object it runs in*: the closure in `callbacks_` holds
  the last reference, and `handle_close` erases it;
- *bytes have no message boundaries*: requests arrive in pieces, or several at once;
- *signals* arrive between any two instructions, and sleeping calls (`epoll_wait`,
  the blocking `accept4` of version 1, `sigsuspend`, `waitpid`) decide whether they
  are noticed;
- *one blocking call holds up everything* behind it: `accept4` in version 1,
  `http::read` and `http::write` in version 2;
- *a wake-up of the shared listening socket reaches several workers*, any of which
  may die, sleep or run out of descriptors before it accepts;
- *processes share* the listening socket and, after fork, the log file, while each
  keeps counters of its own.

`PROJECT.json` lists the hazards line by line with the properties that watch them.

## 2. Modules

| module | models | notes |
|---|---|---|
| `HTTPConnection` | `HTTP_Connection.cpp` | operators only: what is decided on an input buffer and on `headers_` |
| `EpollReactor` | `Epoll_Reactor.cpp`, the kernel and the clients | state, shared actions, properties; no `Next` |
| `SingleServer` | `My_WebServer` | extends `EpollReactor`: its acceptor, `do_write` and loop |
| `WorkerServer` | a worker of `My_WebServer_v1` | extends `EpollReactor`: blocking shared accept, write loop, `running_`, SIGTERM |
| `HttpService` | what a client may rely on | abstract; `ImplementsService` is the refinement |
| `WorkerPlaces` | where a worker is in its loop | operators: its own steps, what wakes it, where SIGTERM leaves it |
| `WorkerLife` | a worker in the eyes of its master | abstract, on `WorkerPlaces`; `WorkerServer` implements it (`ImplementsLife`) |
| `ProcessMaster` | `master_worker.cpp` | the master, and workers that take the steps of `WorkerPlaces` |
| `Prefork` | `My_WebServer_v1` as a whole | extends `ProcessMaster` with the listening socket, its backlog and its edges |
| `AsioServer` | `My_WebServer_v2` | one thread; implements `HttpService` too |
| `SharedLogger` | `Logger.cpp` | one action per step another process can get between |
| `MC*` | | constants of the TLC runs |
| `EpollReactorProofs`, `OwnershipProofs`, `DeliveryProofs` | | one lemma per action of `EpollReactor` and per invariant: types; who owns a descriptor; edges, pieces, numbers, decisions, closing and the service |
| `SingleServerProofs`, `WorkerServerProofs` | | the two servers' own actions, and the theorems |
| `PreforkProofs` | | `ProcessMaster` and `Prefork` |
| `SharedLoggerProofs`, `AsioServerProofs` | | the logger, version 2 |

The layers of version 1 meet in `WorkerPlaces`. `WorkerServer` has every system call of one
worker and leaves the other workers to chance (`TakenByOther`); it is proved to
implement `WorkerLife`. `ProcessMaster` has the master and any number of workers that do
what `WorkerLife` does, woken at any time. `Prefork` decides who is woken: each worker
has an edge of the listening socket or not, and accepts while somebody waits.
`PreforkImplementsMaster` proves that this only restricts `ProcessMaster`.

**How state corresponds.** The variables of `EpollReactor` that end in an
underscore, and `headers_`, are the members of the same name, indexed by connection.
`TcpConnection::keep_alive_` and `HTTPConnection::keep_alive_` are always assigned
together and are one variable. `writing_` is left out: `send` is only called from
`do_read`, when it is false. `callbacks_[f]` is the connection the closure of `f` captured,
`life` whether the object exists. `fdt`, `epi`, `ready`, `inq`, `sndq`, `backlog` are
the kernel's descriptor table, epoll interest list, ready list, socket queues and
accept queue. `batch` is what `epoll_wait` returned and the `for` loop of `run` has not
reached; the order of a batch is any order. `cur` and `evs` are the object in
`handle_event` and the bits left to test. `resp`, `asked`, `rcvd`, `missed` and `requested` are histories.

**Grain.** One action is one handler up to its return (`DoRead`, a branch of
`do_write`, one turn of the accept loop). Clients, signals and other workers step
between them. `read` until EAGAIN is one action: bytes that arrive during it are
either read or make a new edge, as bytes that arrive before or after. The loop of
`run` is split finer in `WorkerServer`, where a signal can come between the
test of `running_` and the sleep, or between a turn of the accept loop and the sleep in
`accept4` (`at = "accept"` and `at = "blocked"`): it ends the sleeps and is lost before them;
`accept4` looks at the backlog before it looks at signals. `ProcessMaster` splits the master's loop the same way:
the mask is what keeps a signal from falling between the test and `sigsuspend`.
The first `write` of a handler always takes something, because only the thread itself
fills the buffer of a socket that polled writable; EAGAIN follows a partial write.

**Data.** A request is at most two segments (`head` and `tail`, or `head` and `end` if the cut
is inside `"\r\n\r\n"`); only its method, kind of target, version and `Connection` value are
kept. A lone `end` has no blank line: it is dropped without an answer. Any other buffer that
starts in the middle of a request has no request line: `HandleGarbled` leaves open whether
`parse_request` fails (400) or takes a header line for one, which is forbidden (403) with `..` in
it and not allowed (405) otherwise. A reply is `Pieces` pieces.

**Undefined behaviour.** After `handle_close` inside `do_read` or `do_write` the object is gone.
`RunOnDestroyed` lets the build do either of what it does in practice: fault, or find the old
contents, run the callback and ignore the calls on descriptor -1 (the log committed in
`My_WebServer/logging` shows handlers running with fd=-1). `"Accept error: " + errno`
reads past a literal for large errnos; only the text of a log line depends on it.

**The kernel**, modelled from how the code uses it: `epoll_ctl` ADD and MOD poll the
socket; closing a descriptor removes it from the epoll set; accept4 returns the
lowest free descriptor, and reserves it before it looks at the backlog, so that EMFILE comes
with an empty backlog too; a reset polls readable, writable and HUP; a reset after a FIN
makes `write` raise SIGPIPE; closing with unread input resets the connection and may
lose what the client has not taken. The time `close` may block with SO_LINGER is not
modelled, nor are epoll_wait's errors other than EINTR.

The listening socket of version 1 is registered with EPOLLET and without EPOLLEXCLUSIVE in
the epoll instance of each worker, so a new connection wakes all of them (`Notified`), and
EPOLL_CTL_ADD reports what was there before (`StartWatching`). An edge with nothing left
behind it lets `epoll_wait` sleep on. Workers asleep in `accept4` are woken one at a time;
`AcceptWakes` lets any of them be the one.

**Version 2.** Descriptors are accepted with SOCK_NONBLOCK, and `assign` does not make the
Asio socket non-blocking, so `http::read`, `http::write` wait with `poll` and the thread
with them: in `AsioServer` a callback step is enabled when the call can go on. What is read is
chosen when the request is whole (`req_`); nothing depends on it before. What
`resolve_path` throws is `ResolveError`, and what its `catch (...)` makes of it `ResolveThrows`. Sends carry
MSG_NOSIGNAL, so a reset is an exception and not a signal. Only a refused request, an early
end of the stream or a reset make the calls throw; then the callback closes the
descriptor, while the socket in `active_connections` keeps its number. `modify_fd` and `remove_fd`
are never called. `MainReturns`: `io_context` is destroyed before `active_connections`, so with
connections left the end of `main` is undefined behaviour and may fault.

**Versions 0 and 1.** Actions in `EpollReactor` are the code common to both and are mapped
to the file of one of them; where a definition has a neighbour for the same handler,
the two are mapped to the two versions.

Definitions marked `mutant` are faulty variants of the definition that follows
them. No specification uses them; substituting one for its neighbour shows that a
property notices the fault.

## 3. Properties and runs

Passing runs:

| run | instance | shows |
|---|---|---|
| `single_stream` | 1 connection, 3 requests of HTTP/1.0 and 1.1, 2 pieces, buffer of 2, split, pipeline, FIN, RST | `StreamIntact`, `LastHeaderDecides`, `ClosesAfterFlush`, `ImplementsService`, `TypeOK` |
| `single_pair` | 2 connections, 3 descriptors, 1 request each, all client moves, failing accept4 and epoll_ctl, a handler that throws | `Ownership`, `WatchesWhatItOwes`, `NoLostEdge`, `HangupIsRead`, `SleepsOnlyWhenIdle` |
| `single_live` | 2 connections, 3 descriptors, whole requests, FIN, RST, fairness | `ConnectionsAccepted`, `RequestsAnswered`, `RepliesDelivered`, `DepartedReleased`, `NonKeepAliveCloses` |
| `worker` | 2 connections, 2 descriptors, 2 requests, 2 pieces, buffer of 1, FIN, RST, failing accept4 and epoll_ctl, out of descriptors, SIGTERM, fairness | `WorkerTypeOK`, `StreamIntact`, `WatchesWhatItOwes`, `NoLostEdge`, `ClosesAfterFlush` for version 1, `ImplementsService`, `ImplementsLife`, `RepliedUnlessAsleep` |
| `prefork` | 2 workers, 2 connections, crashes, failing fork, workers out of descriptors, fairness | `ReapsAll`, `DeliveredEnds`, `EveryWorkerKnows`, `MasterActsOnSignal`, `ShutdownUnlessMissed`, `BacklogServed`, `PreforkTypeOK` |
| `asio` | 2 connections, 3 descriptors, 2 pieces, buffer of 1, every call failing, fairness | `DescriptorsHeld`, `ImplementsService`, `ServedInTurn`, `AnswersDelivered`, `TypeOK` |
| `logger_shared` | 3 processes, files left by an earlier run | `TypeOK`, `SharedBound`, `OpenHasRoom`, `OldFilesUntouched` |

`Ownership` is checked on the instance that reuses descriptors most (`single_pair`) and proved for both
servers.

Two connections are enough for what one connection's close can do to another's events.
Version 0 and 2 get one descriptor more than connections, for `accept4` takes one before it
finds the backlog empty, and running out ends them; a worker survives that and gets two.
Requests in two segments are left to `single_stream`, `single_pair` and `finding_split`: the reading of a buffer is
the same in both versions, and the theorems about the worker have them.
Reuse and the lowest-free rule happen with either; two pieces with a
buffer of one or two give writes that do not fit, fit in part and fit exactly; three
requests let what the first leaves behind reach the second and the third. Two
workers are enough for one to take what another was woken for, and to die with the
edge; two connections let one wait while the other is served.
`MaxRequests`, `Pieces`, `SndCap`, `MaxEvents`, `MaxIndex`, `LastDay` are the bounds;
each is a constant named where it is declared. Deadlock is not checked: clients have a
bounded number of requests, and the processes end.

Runs that find a violation of something a comment, a chart or a header says:

| run | the statement | what the code does |
|---|---|---|
| `finding_destroyed` | `HandlersOnLiveObjects` | a handler goes on in the object it destroyed |
| `finding_split` | `WellFormedNotRefused` | a request in two segments is answered 400 |
| `finding_starved` | `RequestsAnswered` | the worker sleeps in accept4 with a request waiting |
| `finding_shutdown` | `ShutdownCompletes` | a worker misses its SIGTERM, the master waits for ever |
| `finding_forbidden` | `ForbiddenIs403` | `catch (...)` hides the `403 Forbidden` that `handle_get` looks for: 404 |

`RequestsAnswered` holds for version 0 (`single_live`) and fails for version 1, whose
accept blocks (`finding_starved`). What the models also show, without a run of its own:
`headers_` outlives its request (`LastHeaderDecides`), so an HTTP/1.0 request after one
that asked for keep-alive is kept alive; a second request in one buffer, and a lone end of a blank line, are dropped
unanswered; a pipelined request sets `keep_alive_` again before a closing
reply was written, so `NonKeepAliveCloses` needs clients that wait; a failing `fork`
leaves the workers already created running; a worker that dies is only reaped at the
shutdown; a worker out of descriptors forgets who waits until the next arrival; the
logger keeps the date of `init` for its life (the calendar is not modelled), so lines go to that day's files; in
version 2 an answered connection keeps its descriptor for good, and a client that never
finishes its request stops the server; several processes in one log file exceed `max_lines_`, up to `SharedBound`.

**Fairness.** `LiveSpec` of both servers: weak fairness of the thread's steps as a whole (the
kernel schedules it and it only blocks where the model has no step) and of each client
reading what it was sent. Clients owe no request, no FIN and no connection; SIGTERM
and other workers owe nothing. `ProcessMaster`: weak fairness of the master, of each
worker and of signal delivery; nothing obliges clients to wake a worker. `Prefork`: the same,
for the steps a worker can take without a client. `AsioServer`: weak fairness of the
thread, and, as an assumption on the clients that the code does not back with a
timeout, that each of them asks, finishes its request and reads what it is sent.

## 4. Proofs

Every safety property that a passing run checks is proved for every value of the
constants, and so are the refinements.

| module | theorem | statement |
|---|---|---|
| `SingleServerProofs` | `SingleTypeCorrect` | `Spec => []TypeOK` |
| | `SingleOwnership` | `Spec => []Ownership` |
| | `SingleKeepsEdges` | `Spec => [](WatchesWhatItOwes /\ NoLostEdge /\ HangupIsRead)` |
| | `SingleSleepsOnlyWhenIdle` | `Spec => []SleepsOnlyWhenIdle` |
| | `SingleStreamIntact` | `Spec => []StreamIntact` |
| | `SingleClosesAfterFlush` | `Spec => ClosesAfterFlush` (an action property) |
| | `SingleImplementsService` | `Spec => ImplementsService` (`HttpService!Spec`) |
| | `SingleLastHeader` | `Spec => []LastHeaderDecides` |
| | `SingleClosesAsSaid` | `Spec => []NonKeepAliveCloses`, if clients do not pipeline |
| `WorkerServerProofs` | `WorkerOwnership` | `Spec => [](WorkerTypeOK /\ Ownership)` |
| | `WorkerKeepsEdges` | `Spec => [](WatchesWhatItOwes /\ NoLostEdge)` |
| | `WorkerStreamIntact`, `WorkerClosesAfterFlush`, `WorkerImplementsService`, `WorkerLastHeader`, `WorkerClosesAsSaid` | as for the single process |
| | `WorkerImplementsLife` | `Spec => ImplementsLife` (`WorkerLife!Spec`) |
| `PreforkProofs` | `ShutdownSafe` | `Spec => [](TypeOK /\ DeliveredEnds /\ ReapsAll)` of `ProcessMaster` |
| | `PreforkImplementsMaster` | `PreforkSpec => Spec` of `ProcessMaster` |
| | `PreforkTypeCorrect` | `PreforkSpec => []PreforkTypeOK` |
| | `PreforkSafe` | `PreforkSpec => [](DeliveredEnds /\ ReapsAll /\ EveryWorkerKnows)` |
| `SharedLoggerProofs` | `LoggerSafe` | `Spec => [](TypeOK /\ SharedBound /\ OpenHasRoom /\ OldFilesUntouched)` |
| `AsioServerProofs` | `AsioDescriptors` | `Spec => [](TypeOK /\ DescriptorsHeld)` |
| | `AsioImplementsService` | `Spec => ImplementsService` |

They assume what the modules assume of their constants: `EpollReactor` and `AsioServer`
(descriptors are numbers and the listening one is not among them; the model values differ;
requests are request records; bounds are positive), `ProcessMaster` (there is a worker),
`SharedLogger` (finitely many processes, positive bounds, earlier files are files). The one
hypothesis beyond these is `"pipeline" \notin PeerMoves` in the two `ClosesAsSaid` theorems:
it is needed, for a pipelined request may set `keep_alive_` again before the reply that closes is
flushed; `single_live` is an instance that satisfies it.

**Types and ownership.** *Ownership* is inductive relative to the types. Its centre is
`Coherent`: the kernel's table, the callback map and the objects name each other. An accept
keeps it only if the connection is new (`BacklogFresh`), a dispatch only if the event's
descriptor is open (`EventsHaveOwners`), and `epoll_wait` establishes that only because a closed
descriptor leaves the ready list (`RegisteredOpen`). `OwnershipProofs` has a lemma for each
action; the two servers add their own actions and the case split.

**Edges.** `WatchesWhatItOwes` and `NoLostEdge` are inductive over Ownership, which says that what
is noticed on a descriptor is noticed for the right connection. `HangupIsRead` is not: that
a reset is still there to be read when its event is dispatched must be remembered from
the batch on (`HupRead`). The frame lemmas state that a step disturbs one descriptor.
`BacklogNoticed` says the same of the listening socket of version 0, whose accept loop ends only
with an empty backlog; with `NoLostEdge` it gives `SleepsOnlyWhenIdle`. Version 1 has no such
theorem: its accept loop ends at any error, and what was left waits for the next arrival.

**Streams.** What was received, what the socket holds and `output_buffer_` are one run of consecutive
pieces, which ends with the last piece of the last reply while the connection is open and not
reset (`StreamParts`); a connection without an object has none (`Unserved`). `StreamIntact` follows,
and with it `ClosesAfterFlush`: a close leaves no piece behind.

**Numbers, and the refinement of `HttpService`.** The last answered request is a completed one,
what waits in the socket is younger than it and completed, and `input_buffer_` is empty between
two events (`Numbers`). So what `do_read` answers is a request asked and not yet
answered, in order. Every action then maps to `Answer`, `Deliver`, `Ask`, `End` of the service or to
a stutter (lemmas `*Serves`), given Streams for the order of the deliveries.

**Decisions.** `LastHeaderDecides` speaks of the whole history of replies. `Decided` adds what
`headers_` holds now: the last header of the replies so far, as long as all were found
(status 200); `MergedHeaders` extends it by one reply. The last header of a history is a
`CHOOSE` in the property, and `Says` states it without one.

**Farewells.** If clients wait, a request in the socket is the last one asked, and a connection
with a closing reply has answered the last one asked (`LastWords`). So nothing can be read that
would set `keep_alive_` again, and `do_write` keeps the connection only if no reply closes.

**Worker.** `WorkerImplementsLife` needs that nothing of a batch is left when the loop sleeps in
`epoll_wait`, and no event of the listening socket when it calls `accept4` or sleeps there (`Rests`).

**Shutdown** adds `InTurn`, what the kill and waitpid loops have done so far, to the three
conjuncts of the theorem; `DeliveredEnds` is inductive because it names the step between a
delivered signal and the end of the worker. **Prefork**: each step is one of `ProcessMaster`'s or
leaves its variables alone (a turn of the accept loop stays in place `serving`, which
needs the types), so `Shutdown` is invariant there too. `EveryWorkerKnows` is inductive with it: a
worker gives its edge up only for a place in the accept loop, leaves that loop asleep only
when nobody waits, and by an error only into `broke`.

**Logger.** `SharedBound` counts lines over all processes and is not inductive. `Charged` charges each
line of a file to a process and a value its `current_lines_` has had there (`Slots`): a
process past the file has used up all of them, one at the file those up to its count. Each
line uses a slot that was free, and there are `max_lines_ + 1` per process.

**Version 2.** `AsioInv` adds to `DescriptorsHeld` that the kernel's table and `socket_` name each
other for the connections in use (`Held`), that what waits in the backlog is new (`Waiting`), what
is served has asked (`Served`), and that pieces received, in the socket and still to be written
are at most one reply's (`Replied`). The refinement maps each call of the callback to a step of the service.

Model-checked only: the liveness properties (`ConnectionsAccepted`, `RequestsAnswered`,
`RepliesDelivered`, `DepartedReleased`, `RepliedUnlessAsleep`,
`MasterActsOnSignal`, `ShutdownUnlessMissed`, `BacklogServed`, `ServedInTurn`, `AnswersDelivered`), because
the prover supports neither fairness with ENABLED nor the induction they need, and the
five findings, which are counterexamples. The inductive invariants were checked by TLC on the instances
of the runs before they were proved.

## 5. Not modelled, and the plan

Not modelled: the set-up calls of versions 0 and 1; header and body text, MIME types and
file contents; what a logger failure does to the event loop; SIGINT in a worker before it is
ignored; the output of signal handlers; the time `close` may block; epoll errors
other than those named.

Left to prove: the action properties behind the liveness ones (what a step may not undo once
it is promised: a signal pending, an edge reported, a request read), and the operators of
`HTTPConnection` against a definition that does not follow the code's order of tests.

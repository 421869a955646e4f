----------------------------- MODULE AsioServer -----------------------------
(***************************************************************************)
(* My_WebServer_v2: the acceptor of an edge-triggered EpollReactor hands   *)
(* each connection to a callback that reads the request, writes the reply  *)
(* and shuts the sending side down with Boost.Asio's blocking calls, all   *)
(* in the server's only thread.  active_connections keeps every connection *)
(* that was ever served.                                                   *)
(*                                                                         *)
(* A client asks once.  What it asks is chosen when the server has read    *)
(* the whole request, because nothing depends on it before.                *)
(***************************************************************************)
EXTENDS Integers, Sequences

CONSTANTS
    Conns,      \* the connections clients open
    NoConn,
    Fds,        \* descriptor numbers accept4 may return
    Requests,   \* the requests clients send
    NoRequest,
    Pieces,     \* bound: pieces a reply is cut into
    SndCap,     \* bound: pieces a socket's send buffer holds
    Faults      \* which of "setup", "accept", "assign" calls may fail

Methods == {"GET", "POST", "OTHER"}
Targets == {"file", "missing", "dotdot", "index", "directory"}

ASSUME AsioDataAssumption ==
    /\ Fds \subseteq Nat
    /\ NoConn \notin Conns
    /\ Requests \subseteq [method : Methods, target : Targets]
    /\ NoRequest \notin Requests
ASSUME AsioBoundAssumption == Pieces \in Nat \ {0} /\ SndCap \in Nat \ {0}

VARIABLES
    \* the clients
    peer,               \* "idle", "up", "fin" (shut its side), "rst"
    sent,               \* "none", "part", "whole", "bad": of its request
    rcvd,               \* pieces received
    \* the kernel
    listener,           \* how far the listening socket is
    backlog,            \* connections waiting for accept4
    edge,               \* the listening socket is on epoll's ready list
    fdt,                \* the process's descriptor table
    sndq,               \* pieces in the server socket's send buffer
    \* the server
    active_connections,
    socket_,            \* the descriptor a connection's socket_ was assigned
    life,               \* "none", "open", "answered", "closed"
    req_,               \* the request http::read parsed
    status,             \* of res_, 0 before there is one
    owed,               \* pieces of the reply still to write
    cur,                \* the connection in the callback
    at,                 \* where the thread is
    proc                \* how the process is doing

clientVars == <<peer, sent, rcvd>>
kernelVars == <<listener, backlog, edge, fdt, sndq>>
connVars   == <<active_connections, socket_, life, req_, status>>
threadVars == <<owed, cur, at, proc>>
vars == <<clientVars, kernelVars, connVars, threadVars>>

NoFd == -1
Stages == {"none", "socket", "options", "bound", "listening", "watched"}

TypeOK ==
    /\ peer \in [Conns -> {"idle", "up", "fin", "rst"}]
    /\ sent \in [Conns -> {"none", "part", "whole", "bad"}]
    /\ rcvd \in [Conns -> 0..Pieces]
    /\ listener \in Stages
    /\ backlog \in Seq(Conns)
    /\ edge \in BOOLEAN
    /\ fdt \in [Fds -> Conns \cup {NoConn}]
    /\ sndq \in [Conns -> 0..SndCap]
    /\ active_connections \subseteq Conns
    /\ socket_ \in [Conns -> Fds \cup {NoFd}]
    /\ life \in [Conns -> {"none", "open", "answered", "closed"}]
    /\ req_ \in [Conns -> Requests \cup {NoRequest}]
    /\ status \in [Conns -> {0, 200, 403, 404, 405}]
    /\ owed \in 0..Pieces
    /\ cur \in Conns \cup {NoConn}
    /\ at \in {"setup", "wait", "accept", "read", "write"}
    /\ proc \in {"running", "failed", "segv"}

Init ==
    /\ peer = [c \in Conns |-> "idle"]
    /\ sent = [c \in Conns |-> "none"]
    /\ rcvd = [c \in Conns |-> 0]
    /\ listener = "none"
    /\ backlog = <<>>
    /\ edge = FALSE
    /\ fdt = [f \in Fds |-> NoConn]
    /\ sndq = [c \in Conns |-> 0]
    /\ active_connections = {}
    /\ socket_ = [c \in Conns |-> NoFd]
    /\ life = [c \in Conns |-> "none"]
    /\ req_ = [c \in Conns |-> NoRequest]
    /\ status = [c \in Conns |-> 0]
    /\ owed = 0
    /\ cur = NoConn
    /\ at = "setup"
    /\ proc = "running"
-----------------------------------------------------------------------------
(***************************************************************************)
(* The clients and the kernel's side of their connections (external).      *)
(***************************************************************************)
Connect(c) ==
    /\ proc = "running" /\ peer[c] = "idle"
    /\ listener \in {"listening", "watched"}
    /\ peer' = [peer EXCEPT ![c] = "up"]
    /\ backlog' = Append(backlog, c)
    /\ edge' = (listener = "watched")
    /\ UNCHANGED <<sent, rcvd, listener, fdt, sndq, connVars, threadVars>>

MaySend(c) == proc = "running" /\ peer[c] = "up" /\ life[c] # "closed"

Sends(c, from, to) ==
    /\ MaySend(c) /\ sent[c] = from
    /\ sent' = [sent EXCEPT ![c] = to]
    /\ UNCHANGED <<peer, rcvd, kernelVars, connVars, threadVars>>

\* "bad": the parser refuses it, or the body is over its limit.
Ask(c)    == Sends(c, "none", "part") \/ Sends(c, "none", "bad")
Finish(c) == Sends(c, "part", "whole") \/ Sends(c, "part", "bad")

Leaves(c, p) ==
    /\ peer' = [peer EXCEPT ![c] = p]
    /\ sndq' = [sndq EXCEPT ![c] = IF p = "rst" THEN 0 ELSE @]
    /\ UNCHANGED <<sent, rcvd, listener, backlog, edge, fdt, connVars, threadVars>>

Fin(c) == MaySend(c) /\ Leaves(c, "fin")
Rst(c) == proc = "running" /\ peer[c] \in {"up", "fin"} /\ Leaves(c, "rst")

Receive(c) ==
    /\ proc = "running" /\ sndq[c] > 0
    /\ rcvd' = [rcvd EXCEPT ![c] = @ + 1]
    /\ sndq' = [sndq EXCEPT ![c] = @ - 1]
    /\ UNCHANGED <<peer, sent, listener, backlog, edge, fdt, connVars, threadVars>>

Clients ==
    \E c \in Conns :
        \/ Connect(c)
        \/ Ask(c)
        \/ Finish(c)
        \/ Fin(c)
        \/ Rst(c)
        \/ Receive(c)
-----------------------------------------------------------------------------
(***************************************************************************)
(* The end of the process: main catches and returns 1, and io_context,     *)
(* constructed after active_connections, is destroyed before it.  A socket *)
(* that is still in active_connections is then destroyed through a service *)
(* that no longer exists: undefined behaviour.                             *)
(***************************************************************************)
MainReturns ==
    proc' \in IF active_connections = {} THEN {"failed"} ELSE {"failed", "segv"}

(***************************************************************************)
(* TcpAcceptor::TcpAcceptor, one system call a step.                       *)
(***************************************************************************)
NextStage == [none |-> "socket", socket |-> "options", options |-> "bound",
              bound |-> "listening", listening |-> "watched"]

NotPolled == FALSE                                                  \* mutant

\* EPOLL_CTL_ADD polls the socket: what connected since listen is reported.
PolledOnAdd == backlog # <<>>

SetUp ==
    /\ at = "setup" /\ proc = "running"
    /\ listener' = NextStage[listener]
    /\ IF listener = "listening"
       THEN edge' = PolledOnAdd /\ at' = "wait"
       ELSE UNCHANGED <<edge, at>>
    /\ UNCHANGED <<backlog, fdt, sndq, clientVars, connVars, owed, cur, proc>>

\* Every failing call closes the socket before it throws, but for add_fd.
SetUpFails ==
    /\ at = "setup" /\ proc = "running" /\ "setup" \in Faults
    /\ listener' = IF listener = "listening" THEN listener ELSE "none"
    /\ MainReturns
    /\ UNCHANGED <<backlog, edge, fdt, sndq, clientVars, connVars, owed, cur, at>>
-----------------------------------------------------------------------------
(***************************************************************************)
(* EpollReactor::run; the listening socket is all it watches.              *)
(***************************************************************************)
EpollWait ==
    /\ at = "wait" /\ proc = "running" /\ edge
    /\ edge' = FALSE
    /\ at' = IF backlog = <<>> THEN "wait" ELSE "accept"
    /\ UNCHANGED <<listener, backlog, fdt, sndq, clientVars, connVars, owed, cur, proc>>

(***************************************************************************)
(* TcpAcceptor::handle_accept and the new-connection callback.             *)
(***************************************************************************)
FreeFds == {f \in Fds : fdt[f] = NoConn}

Accepting == at = "accept" /\ proc = "running"

\* accept4 and assign succeed; active_connections takes the connection.
Accept ==
    /\ Accepting
    /\ \E c \in Conns, f \in FreeFds :
        /\ backlog # <<>> /\ c = Head(backlog)
        /\ \A g \in FreeFds : f <= g
        /\ fdt' = [fdt EXCEPT ![f] = c]
        /\ socket_' = [socket_ EXCEPT ![c] = f]
        /\ life' = [life EXCEPT ![c] = "open"]
        /\ active_connections' = active_connections \cup {c}
        /\ cur' = c
    /\ backlog' = Tail(backlog)
    /\ at' = "read"
    /\ UNCHANGED <<listener, edge, sndq, clientVars, req_, status, owed, proc>>

\* assign throws: the callback closes the descriptor accept4 returned.
AssignFails ==
    /\ Accepting /\ "assign" \in Faults /\ FreeFds # {} /\ backlog # <<>>
    /\ life' = [life EXCEPT ![Head(backlog)] = "closed"]
    /\ backlog' = Tail(backlog)
    /\ UNCHANGED <<listener, edge, fdt, sndq, clientVars, active_connections, socket_, req_, status>>
    /\ UNCHANGED threadVars

AcceptAgain ==
    /\ Accepting /\ backlog = <<>> /\ FreeFds # {}
    /\ at' = "wait"
    /\ UNCHANGED <<clientVars, kernelVars, connVars, owed, cur, proc>>

\* Any other error leaves run and main.  Out of descriptors accept4 fails whether or
\* not anybody waits.
AcceptThrows ==
    /\ Accepting
    /\ FreeFds = {} \/ "accept" \in Faults
    /\ MainReturns
    /\ UNCHANGED <<clientVars, kernelVars, connVars, owed, cur, at>>
-----------------------------------------------------------------------------
(***************************************************************************)
(* HttpConnection.                                                         *)
(***************************************************************************)
ResolveError(target) ==
    CASE target = "missing"   -> "404 Not Found"
      [] target = "dotdot"    -> "403 Forbidden"
      [] target = "directory" -> "404 No index"
      [] OTHER                -> "none"

\* catch (...) replaces whatever resolve_path threw.
ResolveThrows(target) ==
    IF ResolveError(target) = "none" THEN "none" ELSE "Invalid path resolution"

GetStatus(target) ==
    CASE ResolveThrows(target) = "none"          -> 200
      [] ResolveThrows(target) = "403 Forbidden" -> 403
      [] OTHER                                   -> 404

\* handle_request; its 500 needs an exception that no handler lets out.
Status(req) ==
    CASE req.method = "GET"   -> GetStatus(req.target)
      [] req.method = "POST"  -> 200
      [] req.method = "OTHER" -> 405

InCallback(place, c) == at = place /\ proc = "running" /\ cur = c /\ c # NoConn

\* http::read returns: the whole request is there, whatever came after it.
ReadRequest(c) ==
    /\ InCallback("read", c) /\ sent[c] = "whole"
    /\ \E r \in Requests : /\ req_' = [req_ EXCEPT ![c] = r]
                           /\ status' = [status EXCEPT ![c] = Status(r)]
    /\ owed' = Pieces
    /\ at' = "write"
    /\ UNCHANGED <<clientVars, kernelVars, active_connections, socket_, life, cur, proc>>

NotClosed(c) == fdt                                                 \* mutant

\* The callback's catch: close(fd).  The socket in active_connections keeps
\* the number.
Closed(c) == [fdt EXCEPT ![socket_[c]] = NoConn]

CallbackCatches(c) ==
    /\ fdt' = Closed(c)
    /\ life' = [life EXCEPT ![c] = "closed"]
    /\ owed' = 0
    /\ cur' = NoConn
    /\ at' = "accept"
    /\ UNCHANGED <<listener, backlog, edge, sndq, active_connections, socket_, req_, status>>
    /\ UNCHANGED <<clientVars, proc>>

\* http::read throws: the request is refused, or the client went away before
\* it was whole.
ReadThrows(c) ==
    /\ InCallback("read", c)
    /\ sent[c] = "bad" \/ (sent[c] # "whole" /\ peer[c] \in {"fin", "rst"})
    /\ CallbackCatches(c)

WrittenAgain == owed                                                \* mutant

LeftToWrite == owed - 1

\* http::write: one piece the send buffer has room for.
Write(c) ==
    /\ InCallback("write", c) /\ peer[c] # "rst"
    /\ owed > 0 /\ sndq[c] < SndCap
    /\ sndq' = [sndq EXCEPT ![c] = @ + 1]
    /\ owed' = LeftToWrite
    /\ UNCHANGED <<clientVars, listener, backlog, edge, fdt, connVars, cur, at, proc>>

\* http::write or shutdown throws on a reset connection; Asio sends with
\* MSG_NOSIGNAL, so there is no SIGPIPE.
WriteThrows(c) ==
    /\ InCallback("write", c) /\ peer[c] = "rst"
    /\ CallbackCatches(c)

WriteStarted == TRUE                                                \* mutant

WriteFinished == owed = 0

\* shutdown_send succeeds and the callback returns: nothing closes the
\* descriptor any more.
ShutdownSend(c) ==
    /\ InCallback("write", c) /\ peer[c] # "rst" /\ WriteFinished
    /\ life' = [life EXCEPT ![c] = "answered"]
    /\ owed' = 0
    /\ cur' = NoConn
    /\ at' = "accept"
    /\ UNCHANGED <<clientVars, kernelVars, active_connections, socket_, req_, status, proc>>

Callback(c) ==
    \/ ReadRequest(c)
    \/ ReadThrows(c)
    \/ Write(c)
    \/ WriteThrows(c)
    \/ ShutdownSend(c)

Server ==
    \/ SetUp
    \/ SetUpFails
    \/ EpollWait
    \/ Accept
    \/ AssignFails
    \/ AcceptAgain
    \/ AcceptThrows
    \/ \E c \in Conns : Callback(c)

Next == Clients \/ Server

Spec == Init /\ [][Next]_vars

\* The thread runs whenever a call lets it.  The server has no timeouts, so
\* that clients finish what they began and read what they are sent is an
\* assumption on them.
LiveSpec ==
    /\ Spec
    /\ WF_vars(Server)
    /\ \A c \in Conns : WF_vars(Ask(c)) /\ WF_vars(Finish(c)) /\ WF_vars(Receive(c))
-----------------------------------------------------------------------------
Open(c) == \E f \in Fds : fdt[f] = c

\* Who holds a descriptor: the connection in the callback, and every connection
\* ever answered, for good (send_response, main).  A failed one is released
\* exactly once: its number may name another connection while active_connections
\* still holds the stale socket, but the two are never both in use.
DescriptorsHeld ==
    proc = "running" =>
        /\ \A c \in Conns : Open(c) <=> c = cur \/ life[c] = "answered"
        /\ \A c \in active_connections : Open(c) => fdt[socket_[c]] = c
        /\ \A c, d \in active_connections :
              c # d /\ socket_[c] = socket_[d] => life[c] = "closed" \/ life[d] = "closed"

\* The server implements the service too: one answer per connection, its pieces
\* delivered once each, nothing answered after the descriptor was closed
\* (read_request, send_response).
Service == INSTANCE HttpService
    WITH PiecesPerAnswer <- Pieces,
         sent      <- [c \in Conns |-> IF sent[c] = "none" THEN 0 ELSE 1],
         answered  <- [c \in Conns |-> IF status[c] = 0 THEN <<>> ELSE <<1>>],
         delivered <- [c \in Conns |-> [i \in 1..rcvd[c] |-> i]],
         ended     <- [c \in Conns |-> life[c] = "closed"]

ImplementsService == Service!Spec

\* If every client finishes its request and reads its answer, each of them gets
\* its turn, one that connected between listen and add_fd included, and those
\* that waited while the thread sat in another's http::read (handle_accept,
\* read_request).
ServedInTurn ==
    \A c \in Conns :
        peer[c] # "idle" ~> life[c] \in {"answered", "closed"} \/ proc # "running"

\* A reply that was begun reaches its client whole before shutdown_send, unless
\* the client resets the connection (send_response).
AnswersDelivered ==
    \A c \in Conns :
        status[c] # 0 ~> rcvd[c] = Pieces \/ peer[c] = "rst" \/ proc # "running"

\* "403 Forbidden": a GET of an existing file by a path with ".." in it is answered
\* 403, as handle_get means to do with what resolve_path throws for it.
ForbiddenIs403 ==
    \A c \in Conns :
        status[c] # 0 /\ req_[c].method = "GET" /\ ResolveError(req_[c].target) = "403 Forbidden"
            => status[c] = 403
=============================================================================

---------------------------- MODULE EpollReactor ----------------------------
(***************************************************************************)
(* The parts of Epoll_Reactor.cpp and HTTP_Connection.cpp that the single  *)
(* process server (My_WebServer) and a worker of the prefork server        *)
(* (My_WebServer_v1) have in common, with the kernel and the clients they  *)
(* run against: the descriptor table, an edge-triggered epoll instance,    *)
(* EpollReactor's callback map and the TcpConnection objects it owns.      *)
(*                                                                         *)
(* The module has no next-state relation.  SingleServer and WorkerServer   *)
(* add the acceptor, do_write and the loop of their version.               *)
(***************************************************************************)
EXTENDS HTTPConnection, Integers, FiniteSets

CONSTANTS
    Conns,       \* the connections clients open; also the TcpConnection objects
    NoConn,
    Fds,         \* descriptor numbers accept4 may return
    Listen,      \* the descriptor of the listening socket
    Requests,    \* the requests clients send
    NoRequest,
    MaxRequests, \* bound: requests a client sends on one connection
    Pieces,      \* bound: pieces a reply is cut into
    SndCap,      \* bound: pieces a socket's send buffer holds
    MaxEvents,   \* max_events of EpollReactor::run
    PeerMoves,   \* which of "split", "pipeline", "fin", "rst" clients do
    Faults       \* which of "accept", "add" system calls may fail

ASSUME FdAssumption == Fds \subseteq Nat /\ Listen \in Nat \ Fds
ASSUME ConnAssumption == NoConn \notin Conns
ASSUME RequestAssumption ==
    Requests \subseteq RequestRecords /\ NoRequest \notin Requests
ASSUME BoundAssumption ==
    /\ MaxRequests \in Nat
    /\ Pieces \in Nat \ {0} /\ SndCap \in Nat \ {0} /\ MaxEvents \in Nat \ {0}

VARIABLES
    \* the clients
    peer,           \* "idle", "up", "fin" (shut its side), "rst", "fin_rst",
                    \* "elsewhere" (another worker serves it)
    asked,          \* requests begun on the connection
    asking,         \* the request of which only the head was sent
    rcvd,           \* pieces received, in order
    \* the kernel
    backlog,        \* connections waiting for accept4
    inq, sndq,      \* the server socket's receive queue and send buffer
    fdt,            \* the process's descriptor table
    epi,            \* events each descriptor is registered for, {} if it is not
    ready,          \* the epoll instance's ready list
    \* EpollReactor, TcpConnection and HTTPConnection
    callbacks_,     \* the connection captured by the callback of a descriptor
    life,           \* "none", "live", "destroyed"
    fd_, input_buffer_, output_buffer_,
    keep_alive_,    \* TcpConnection's and HTTPConnection's, always set together
    headers_,       \* headers_["Connection"]
    resp,           \* history: the replies produced
    \* EpollReactor::run
    batch,          \* events returned by epoll_wait and not yet dispatched
    cur, evs,       \* the connection in handle_event and the events left to test
    at,             \* where the thread is
    proc            \* how the process is doing

peerVars == <<peer, asked, asking, rcvd>>
sockVars == <<backlog, inq, sndq>>
pollVars == <<fdt, epi, ready>>
connVars == <<callbacks_, life, fd_>>
httpVars == <<input_buffer_, output_buffer_, keep_alive_, headers_, resp>>
loopVars == <<batch, cur, evs, at, proc>>

NoFd    == -1
Watched == Fds \cup {Listen}
Events  == {"IN", "OUT", "HUP"}
Reset   == {"rst", "fin_rst"}
Outcomes == {"running", "stopped", "threw", "segv", "sigpipe"}
Tokens  == [id : Nat, part : {"head", "tail", "end"}, req : Requests]
Replies == [id : Nat, req : Requests, status : Statuses, close : BOOLEAN]

PeerTypes ==
    /\ peer \in [Conns -> {"idle", "up", "fin", "elsewhere"} \cup Reset]
    /\ asked \in [Conns -> Nat]
    /\ asking \in [Conns -> Requests \cup {NoRequest}]
    /\ rcvd \in [Conns -> Seq(Nat)]

SockTypes ==
    /\ backlog \in Seq(Conns)
    /\ inq \in [Conns -> Seq(Tokens)]
    /\ sndq \in [Conns -> Seq(Nat)]

PollTypes ==
    /\ fdt \in [Fds -> Conns \cup {NoConn}]
    /\ epi \in [Fds -> SUBSET {"IN", "OUT"}]
    /\ ready \subseteq Watched

ConnTypes ==
    /\ callbacks_ \in [Fds -> Conns \cup {NoConn}]
    /\ life \in [Conns -> {"none", "live", "destroyed"}]
    /\ fd_ \in [Conns -> Fds \cup {NoFd}]

HttpTypes ==
    /\ input_buffer_ \in [Conns -> Seq(Tokens)]
    /\ output_buffer_ \in [Conns -> Seq(Nat)]
    /\ keep_alive_ \in [Conns -> BOOLEAN]
    /\ headers_ \in [Conns -> ConnectionValues]
    /\ resp \in [Conns -> Seq(Replies)]

LoopTypes ==
    /\ batch \in [Watched -> SUBSET Events]
    /\ cur \in Conns \cup {NoConn}
    /\ evs \subseteq Events
    /\ at \in {"loop", "tested", "wait", "event", "accept", "blocked", "destroyed"}
    /\ proc \in Outcomes

TypeOK ==
    PeerTypes /\ SockTypes /\ PollTypes /\ ConnTypes /\ HttpTypes /\ LoopTypes

\* The acceptor is constructed and registered, no client has connected.
Init ==
    /\ peer = [c \in Conns |-> "idle"]
    /\ asked = [c \in Conns |-> 0]
    /\ asking = [c \in Conns |-> NoRequest]
    /\ rcvd = [c \in Conns |-> <<>>]
    /\ backlog = <<>>
    /\ inq = [c \in Conns |-> <<>>]
    /\ sndq = [c \in Conns |-> <<>>]
    /\ fdt = [f \in Fds |-> NoConn]
    /\ epi = [f \in Fds |-> {}]
    /\ ready = {}
    /\ callbacks_ = [f \in Fds |-> NoConn]
    /\ life = [c \in Conns |-> "none"]
    /\ fd_ = [c \in Conns |-> NoFd]
    /\ input_buffer_ = [c \in Conns |-> <<>>]
    /\ output_buffer_ = [c \in Conns |-> <<>>]
    /\ keep_alive_ = [c \in Conns |-> FALSE]
    /\ headers_ = [c \in Conns |-> "absent"]
    /\ resp = [c \in Conns |-> <<>>]
    /\ batch = [f \in Watched |-> {}]
    /\ cur = NoConn
    /\ evs = {}
    /\ at = "loop"
    /\ proc = "running"
-----------------------------------------------------------------------------
(***************************************************************************)
(* The kernel's side of a connection (external).                           *)
(***************************************************************************)
\* What poll reports for a socket with this input, send buffer and peer.
Polled(in, out, p) ==
    {e \in Events : \/ e = "IN"  /\ (in # <<>> \/ p # "up")
                    \/ e = "OUT" /\ (Len(out) < SndCap \/ p \in Reset)
                    \/ e = "HUP" /\ p \in Reset}

\* Edge trigger: a wake-up queues the descriptors registered for the event.
Wake(c, e) == ready \cup {f \in Fds : fdt[f] = c /\ e \in epi[f]}

\* What epoll_wait reports for a descriptor on the ready list.
Reported(f) ==
    IF f = Listen
    THEN IF backlog = <<>> THEN {} ELSE {"IN"}
    ELSE LET c == fdt[f]
         IN  Polled(inq[c], sndq[c], peer[c]) \cap (epi[f] \cup {"HUP"})

AtServer(c) == peer[c] # "idle" /\ life[c] # "destroyed"

Connect(c) ==
    /\ proc = "running" /\ peer[c] = "idle"
    /\ peer' = [peer EXCEPT ![c] = "up"]
    /\ backlog' = Append(backlog, c)
    /\ ready' = ready \cup {Listen}
    /\ UNCHANGED <<asked, asking, rcvd, inq, sndq, fdt, epi>>
    /\ UNCHANGED <<connVars, httpVars, loopVars>>

\* A client that does not pipeline has read the answer to all it asked.
MayAsk(c) ==
    /\ proc = "running" /\ peer[c] = "up" /\ AtServer(c)
    /\ asked[c] < MaxRequests /\ asking[c] = NoRequest
    /\ \/ "pipeline" \in PeerMoves
       \/ asked[c] = 0
       \/ /\ resp[c] # <<>>
          /\ resp[c][Len(resp[c])].id = asked[c]
          /\ Len(rcvd[c]) = Pieces * Len(resp[c])

Arrives(c, tokens) ==
    /\ inq' = [inq EXCEPT ![c] = @ \o tokens]
    /\ ready' = Wake(c, "IN")
    /\ UNCHANGED <<peer, rcvd, backlog, sndq, fdt, epi>>
    /\ UNCHANGED <<connVars, httpVars, loopVars>>

Token(id, part, r) == [id |-> id, part |-> part, req |-> r]

SendRequest(c, r) ==
    /\ MayAsk(c)
    /\ asked' = [asked EXCEPT ![c] = @ + 1]
    /\ Arrives(c, <<Token(asked[c] + 1, "head", r), Token(asked[c] + 1, "tail", r)>>)
    /\ UNCHANGED asking

SendHead(c, r) ==
    /\ "split" \in PeerMoves
    /\ MayAsk(c)
    /\ asked' = [asked EXCEPT ![c] = @ + 1]
    /\ asking' = [asking EXCEPT ![c] = r]
    /\ Arrives(c, <<Token(asked[c] + 1, "head", r)>>)

SendTail(c) ==
    /\ proc = "running" /\ peer[c] = "up" /\ AtServer(c) /\ asking[c] # NoRequest
    /\ asking' = [asking EXCEPT ![c] = NoRequest]
    /\ \E part \in {"tail", "end"} : Arrives(c, <<Token(asked[c], part, asking[c])>>)
    /\ UNCHANGED asked

Fin(c) ==
    /\ proc = "running" /\ "fin" \in PeerMoves /\ peer[c] = "up" /\ AtServer(c)
    /\ peer' = [peer EXCEPT ![c] = "fin"]
    /\ ready' = Wake(c, "IN")
    /\ UNCHANGED <<asked, asking, rcvd, sockVars, fdt, epi>>
    /\ UNCHANGED <<connVars, httpVars, loopVars>>

\* A reset discards what the server has not sent yet.
Rst(c) ==
    /\ proc = "running" /\ "rst" \in PeerMoves
    /\ peer[c] \in {"up", "fin"} /\ AtServer(c)
    /\ peer' = [peer EXCEPT ![c] = IF @ = "up" THEN "rst" ELSE "fin_rst"]
    /\ sndq' = [sndq EXCEPT ![c] = <<>>]
    /\ ready' = Wake(c, "IN")
    /\ UNCHANGED <<asked, asking, rcvd, backlog, inq, fdt, epi>>
    /\ UNCHANGED <<connVars, httpVars, loopVars>>

\* The client reads one piece; a full send buffer becomes writable again.
Receive(c) ==
    /\ proc = "running" /\ sndq[c] # <<>>
    /\ rcvd' = [rcvd EXCEPT ![c] = Append(@, Head(sndq[c]))]
    /\ sndq' = [sndq EXCEPT ![c] = Tail(@)]
    /\ ready' = IF Len(sndq[c]) = SndCap THEN Wake(c, "OUT") ELSE ready
    /\ UNCHANGED <<peer, asked, asking, backlog, inq, fdt, epi>>
    /\ UNCHANGED <<connVars, httpVars, loopVars>>

Clients ==
    \E c \in Conns :
        \/ Connect(c)
        \/ \E r \in Requests : SendRequest(c, r) \/ SendHead(c, r)
        \/ SendTail(c)
        \/ Fin(c)
        \/ Rst(c)
        \/ Receive(c)
-----------------------------------------------------------------------------
(***************************************************************************)
(* EpollReactor: the callback map and the epoll interest list.             *)
(***************************************************************************)
Registered(f) == f \in Fds /\ epi[f] # {}

\* unordered_map::emplace keeps an entry that is already there.
Emplaced(f, c) ==
    IF callbacks_[f] = NoConn THEN [callbacks_ EXCEPT ![f] = c] ELSE callbacks_

\* epoll_ctl fails on a descriptor that is not registered.
CtlOutcome(f) == IF f \in Fds /\ epi[f] = {} THEN "threw" ELSE proc

\* The ready list after EPOLL_CTL_ADD or EPOLL_CTL_MOD, which poll the socket.
Repolled(f, interest, polled) ==
    IF polled \cap (interest \cup {"HUP"}) # {} THEN ready \cup {f} ELSE ready

\* modify_fd: a descriptor of -1 is only warned about.
ModifyFd(f, interest, polled) ==
    /\ epi' = IF Registered(f) THEN [epi EXCEPT ![f] = interest] ELSE epi
    /\ ready' = IF Registered(f) THEN Repolled(f, interest, polled) ELSE ready
    /\ proc' = CtlOutcome(f)

KeptCallbacks(f) == callbacks_                                      \* mutant

Erased(f) == [callbacks_ EXCEPT ![f] = NoConn]

\* epoll_wait: at most MaxEvents descriptors leave the ready list.  The call
\* returns only when one of them still has something to report.
EpollWait(from) ==
    /\ at = from /\ proc = "running"
    /\ \A f \in Watched : batch[f] = {}
    /\ \E picked \in SUBSET ready :
        /\ picked # {} /\ Cardinality(picked) <= MaxEvents
        /\ picked = ready \/ Cardinality(picked) = MaxEvents
        /\ batch' = [f \in Watched |-> IF f \in picked THEN Reported(f) ELSE {}]
        /\ ready' = ready \ picked
        /\ at' = IF \E f \in picked : Reported(f) # {} THEN "loop" ELSE from
    /\ UNCHANGED <<fdt, epi, cur, evs, proc>>
    /\ UNCHANGED <<peerVars, sockVars, connVars, httpVars>>

\* The body of run's for loop for a connection's descriptor.
Dispatch(f) ==
    /\ at = "loop" /\ proc = "running" /\ f \in Fds /\ batch[f] # {}
    /\ batch' = [batch EXCEPT ![f] = {}]
    /\ cur' = callbacks_[f]
    /\ evs' = IF callbacks_[f] = NoConn THEN {} ELSE batch[f]
    /\ at' = IF callbacks_[f] = NoConn THEN "loop" ELSE "event"
    /\ UNCHANGED <<proc, peerVars, sockVars, pollVars, connVars, httpVars>>

DispatchAcceptor ==
    /\ at = "loop" /\ proc = "running" /\ batch[Listen] # {}
    /\ batch' = [batch EXCEPT ![Listen] = {}]
    /\ at' = "accept"
    /\ UNCHANGED <<cur, evs, proc, peerVars, sockVars, pollVars, connVars, httpVars>>
-----------------------------------------------------------------------------
(***************************************************************************)
(* TcpAcceptor::handle_accept: one connection taken from the backlog, with *)
(* the TcpConnection the new-connection callback creates and starts.       *)
(***************************************************************************)
FreeFds == {f \in Fds : fdt[f] = NoConn}

\* The kernel hands out the lowest free descriptor.
LowestFree(f) == f \in FreeFds /\ \A g \in FreeFds : f <= g

NewConnection(c, f, registered) ==
    /\ backlog # <<>> /\ c = Head(backlog)
    /\ LowestFree(f)
    /\ backlog' = Tail(backlog)
    /\ fdt' = [fdt EXCEPT ![f] = c]
    /\ life' = [life EXCEPT ![c] = "live"]
    /\ fd_' = [fd_ EXCEPT ![c] = f]
    /\ callbacks_' = Emplaced(f, c)
    /\ IF registered
       THEN /\ epi' = [epi EXCEPT ![f] = {"IN"}]
            /\ ready' = Repolled(f, {"IN"}, Polled(inq[c], sndq[c], peer[c]))
       ELSE UNCHANGED <<epi, ready>>

AcceptOnce == "loop"                                                \* mutant

\* while (true).
AcceptMore == "accept"

Accept ==
    /\ at \in {"accept", "blocked"} /\ proc = "running"
    /\ \E c \in Conns, f \in Fds : NewConnection(c, f, TRUE)
    /\ at' = AcceptMore
    /\ UNCHANGED <<batch, cur, evs, proc, peerVars, inq, sndq, httpVars>>
-----------------------------------------------------------------------------
(***************************************************************************)
(* TcpConnection::handle_event.  It tests EPOLLIN, EPOLLOUT and            *)
(* EPOLLERR | EPOLLHUP in this order.  A reset socket polls readable, so   *)
(* do_read has closed the connection before the third test is reached      *)
(* (HangupIsRead): the third call has no action of its own.                *)
(***************************************************************************)
Handling(c, e) ==
    /\ at = "event" /\ proc = "running" /\ cur = c /\ e \in evs
    /\ e = "OUT" => "IN" \notin evs

\* The handler of one event returns with the object still there.
Handled(e) ==
    /\ evs' = evs \ {e}
    /\ at' = IF evs = {e} THEN "loop" ELSE "event"
    /\ cur' = IF evs = {e} THEN NoConn ELSE cur
    /\ UNCHANGED batch

\* Closing a socket frees its receive queue (external).
Released(c) == [inq EXCEPT ![c] = <<>>]

\* handle_close.  Erasing the callback drops the last reference to the object:
\* it is destroyed while handle_event, and the closure it runs in, still
\* execute.
HandleClose(c) ==
    LET f == fd_[c]
    IN  /\ f \in Fds
        /\ callbacks_' = Erased(f)
        /\ life' = [life EXCEPT ![c] =
                        IF \E g \in Fds : callbacks_'[g] = c THEN @ ELSE "destroyed"]
        /\ fd_' = [fd_ EXCEPT ![c] = NoFd]
        /\ epi' = [epi EXCEPT ![f] = {}]
        /\ ready' = ready \ {f}
        /\ fdt' = [fdt EXCEPT ![f] = NoConn]
        /\ evs' = {}
        /\ at' = "destroyed"
        /\ proc' = CtlOutcome(f)
        /\ UNCHANGED <<batch, cur, backlog, peerVars>>

\* The rest of the handler runs on the destroyed object.  Either it faults or
\* it still finds the old contents: then the read callback handles what was
\* read, the calls on descriptor -1 are ignored, and the loop goes on.
RunOnDestroyed ==
    /\ at = "destroyed" /\ proc = "running"
    /\ LET buf == input_buffer_[cur]
           throws == \E i \in DOMAIN buf : /\ FirstHeaderEnd(buf, i)
                                           /\ WholeRequest(buf, i)
                                           /\ HandlerThrows(buf[i].req)
       IN  proc' \in {"segv", IF throws THEN "threw" ELSE "running"}
    /\ input_buffer_' = [input_buffer_ EXCEPT ![cur] = <<>>]
    /\ at' = "loop"
    /\ cur' = NoConn
    /\ UNCHANGED <<batch, evs, peerVars, sockVars, pollVars, connVars>>
    /\ UNCHANGED <<output_buffer_, keep_alive_, headers_, resp>>
-----------------------------------------------------------------------------
(***************************************************************************)
(* HTTPConnection::handle_input on what do_read collected.                 *)
(***************************************************************************)
NextPieces(c) == [j \in 1..Pieces |-> Pieces * Len(resp[c]) + j]

WriteOnly == {"OUT"}                                                \* mutant
ReadOnly  == {"IN"}                                                 \* mutant

WhileWriting == {"IN", "OUT"}

\* TcpConnection::send.  writing_ is false: only do_write sets it, and do_write
\* calls no handler.
Send(c, reply) ==
    /\ resp' = [resp EXCEPT ![c] = Append(@, reply)]
    /\ output_buffer_' = [output_buffer_ EXCEPT ![c] = @ \o NextPieces(c)]
    /\ ModifyFd(fd_[c], WhileWriting, Polled(inq'[c], sndq[c], peer[c]))

HandleIncomplete(c, buf) ==
    /\ IncompleteHeaders(buf)
    /\ UNCHANGED <<output_buffer_, keep_alive_, headers_, resp, epi, ready, proc>>

\* The beginning of this request was cleared with an earlier buffer, or the end of
\* the one before is still in front of it: there is no request line.  parse_request
\* fails, or, in the rest of a request, takes what comes first for one: then a ".."
\* in it is forbidden, and the keys of the lines that follow are stored,
\* "Connection" among them if it was not in the head.
HandleGarbled(c, buf, i) ==
    /\ FirstHeaderEnd(buf, i) /\ ~WholeRequest(buf, i)
    /\ \/ /\ UNCHANGED headers_
          /\ Send(c, Reply(buf[i], 400, TRUE))
       \/ /\ i = 1
          /\ \/ UNCHANGED headers_
             \/ headers_' = [headers_ EXCEPT ![c] = MergedHeaders(@, buf[i].req)]
          /\ \E status \in {403, 405} : Send(c, Reply(buf[i], status, TRUE))
    /\ keep_alive_' = [keep_alive_ EXCEPT ![c] = FALSE]

HandleWhole(c, buf, i) ==
    /\ FirstHeaderEnd(buf, i) /\ WholeRequest(buf, i)
    /\ LET req    == buf[i].req
           stored == MergedHeaders(headers_[c], req)
       IN  /\ headers_' = [headers_ EXCEPT ![c] = stored]
           /\ keep_alive_' = [keep_alive_ EXCEPT ![c] = KeepAliveAfter(stored, req)]
           /\ IF HandlerThrows(req)
              THEN /\ proc' = "threw"
                   /\ UNCHANGED <<output_buffer_, resp, epi, ready>>
              ELSE Send(c, ReplyTo(buf, i, stored))

HandleInput(c, buf) ==
    \/ HandleIncomplete(c, buf)
    \/ \E i \in DOMAIN buf : HandleGarbled(c, buf, i) \/ HandleWhole(c, buf, i)

KeptInput(c) == [input_buffer_ EXCEPT ![c] = @ \o inq[c]]           \* mutant

\* do_read clears whatever the callback left in the buffer.
ClearedInput(c) == [input_buffer_ EXCEPT ![c] = <<>>]

OneRead(c) == [inq EXCEPT ![c] = SubSeq(@, 2, Len(@))]              \* mutant

\* The loop reads until the socket has nothing more.
Drained(c) == [inq EXCEPT ![c] = <<>>]

\* What it took from the socket.
Collected(c) == SubSeq(inq[c], 1, Len(inq[c]) - Len(Drained(c)[c]))

AnyMinusOne(c) == TRUE                                              \* mutant

ErrorEnds(c) == peer[c] \in Reset                                   \* mutant

\* read ends with 0 or with an error other than EAGAIN.
ReadEnds(c) == peer[c] # "up"

\* do_read when read ends with EAGAIN.
DoRead(c) ==
    /\ Handling(c, "IN") /\ ~ReadEnds(c)
    /\ inq' = Drained(c)
    /\ HandleInput(c, input_buffer_[c] \o Collected(c))
    /\ input_buffer_' = ClearedInput(c)
    /\ Handled("IN")
    /\ UNCHANGED <<peerVars, backlog, sndq, fdt, connVars>>

\* Otherwise the connection is closed first and the callback runs afterwards
\* (RunOnDestroyed).
DoReadEnd(c) ==
    /\ Handling(c, "IN") /\ ReadEnds(c)
    /\ inq' = Released(c)
    /\ input_buffer_' = [input_buffer_ EXCEPT ![c] = @ \o Collected(c)]
    /\ HandleClose(c)
    /\ UNCHANGED <<sndq, output_buffer_, keep_alive_, headers_, resp>>
-----------------------------------------------------------------------------
(***************************************************************************)
(* TcpConnection::do_write, the outcomes both versions share.              *)
(***************************************************************************)
Room(c) == SndCap - Len(sndq[c])

\* What the socket holds once everything is written.
Flushed(c) == sndq[c] \o output_buffer_[c]

\* Everything is written.  A keep-alive connection stops watching EPOLLOUT,
\* another one is closed.
WriteAll(c) ==
    /\ Handling(c, "OUT") /\ peer[c] \notin Reset
    /\ output_buffer_[c] # <<>> /\ Len(output_buffer_[c]) <= Room(c)
    /\ output_buffer_' = [output_buffer_ EXCEPT ![c] = <<>>]
    /\ UNCHANGED <<input_buffer_, keep_alive_, headers_, resp>>

StillWriting == {"IN", "OUT"}                                       \* mutant

AfterFlush == {"IN"}

WriteAllKeep(c) ==
    /\ keep_alive_[c]
    /\ WriteAll(c)
    /\ sndq' = [sndq EXCEPT ![c] = Flushed(c)]
    /\ ModifyFd(fd_[c], AfterFlush, Polled(inq[c], sndq'[c], peer[c]))
    /\ Handled("OUT")
    /\ UNCHANGED <<peerVars, backlog, inq, fdt, connVars>>

\* The kernel answers a close with a reset when input is left unread: what the
\* client has not taken yet may be lost.
WriteAllClose(c) ==
    /\ ~keep_alive_[c]
    /\ WriteAll(c)
    /\ \E kept \in 0..Len(Flushed(c)) :
        /\ inq[c] = <<>> => kept = Len(Flushed(c))
        /\ sndq' = [sndq EXCEPT ![c] = SubSeq(Flushed(c), 1, kept)]
    /\ HandleClose(c)
    /\ inq' = Released(c)

ErasedOneMore(c) ==                                                 \* mutant
    SubSeq(output_buffer_[c], Room(c) + 2, Len(output_buffer_[c]))

\* The kernel takes what fits.
Unwritten(c) == SubSeq(output_buffer_[c], Room(c) + 1, Len(output_buffer_[c]))

WriteSome(c) ==
    /\ Handling(c, "OUT") /\ peer[c] \notin Reset
    /\ 0 < Room(c) /\ Room(c) < Len(output_buffer_[c])
    /\ sndq' = [sndq EXCEPT ![c] = @ \o SubSeq(output_buffer_[c], 1, Room(c))]
    /\ output_buffer_' = [output_buffer_ EXCEPT ![c] = Unwritten(c)]
    /\ Handled("OUT")
    /\ UNCHANGED <<peerVars, backlog, inq, fdt, connVars, input_buffer_, keep_alive_, headers_, resp>>

\* write fails on a reset connection.
WriteReset(c) ==
    /\ Handling(c, "OUT") /\ peer[c] = "rst"
    /\ HandleClose(c)
    /\ inq' = Released(c)
    /\ UNCHANGED <<sndq, httpVars>>

\* A reset that follows a FIN reports EPIPE, and SIGPIPE is not ignored.
WriteBroken(c) ==
    /\ Handling(c, "OUT") /\ peer[c] = "fin_rst"
    /\ proc' = "sigpipe"
    /\ UNCHANGED <<batch, cur, evs, at, peerVars, sockVars, pollVars, connVars, httpVars>>
-----------------------------------------------------------------------------
(***************************************************************************)
(* Correctness, for both versions.                                         *)
(***************************************************************************)
\* The descriptor table, the callback map and the objects name each other: a
\* callback belongs to the connection that has the descriptor open, also after
\* the kernel handed the number out again (add_fd, remove_fd, handle_close).
Coherent ==
    /\ \A f \in Fds : callbacks_[f] = fdt[f]
    /\ \A f \in Fds : fdt[f] # NoConn => life[fdt[f]] = "live" /\ fd_[fdt[f]] = f
    /\ \A c \in Conns : fd_[c] \in Fds => fdt[fd_[c]] = c
    /\ \A c \in Conns : life[c] = "live" => fd_[c] \in Fds

\* A connection waits in the backlog once, and nothing was created for it yet.
BacklogFresh ==
    /\ \A i \in DOMAIN backlog :
          life[backlog[i]] = "none" /\ peer[backlog[i]] # "idle"
    /\ \A i, j \in DOMAIN backlog : backlog[i] = backlog[j] => i = j
    /\ \A c \in Conns : peer[c] = "idle" => life[c] = "none"

\* Only open descriptors are registered, and only registered ones are ready.
RegisteredOpen ==
    /\ \A f \in Fds : epi[f] # {} => fdt[f] # NoConn
    /\ \A f \in ready \ {Listen} : epi[f] # {}

\* An event waiting in the batch, or being handled, is one of a connection that
\* is still open under that descriptor: closing one connection in the middle of
\* a batch never redirects the events of another (run, remove_fd).
EventsHaveOwners ==
    /\ \A f \in Fds : batch[f] # {} => fdt[f] # NoConn
    /\ at = "event" => /\ evs # {} /\ life[cur] = "live"
                       /\ fd_[cur] \in Fds /\ batch[fd_[cur]] = {}

\* All of it: who owns a descriptor is the same question in the kernel's table, in
\* the map, in the objects and in the events in flight, whichever system call
\* fails (add_fd, remove_fd, handle_accept, handle_close).
Ownership == Coherent /\ BacklogFresh /\ RegisteredOpen /\ EventsHaveOwners

\* While the process runs, EPOLLOUT is watched exactly while there is output, and
\* an open connection is missing from the epoll set only if its add_fd failed: then
\* it was never served, so epoll_ctl never fails in modify_fd or remove_fd (add_fd,
\* send, do_write).
WatchesWhatItOwes ==
    proc = "running" => \A f \in Fds : fdt[f] # NoConn =>
        LET c == fdt[f]
        IN  IF Registered(f)
            THEN epi[f] = IF output_buffer_[c] = <<>> THEN {"IN"} ELSE {"IN", "OUT"}
            ELSE "add" \in Faults /\ resp[c] = <<>>

\* Where an edge-triggered event of a descriptor is not lost: on the ready list,
\* in the batch, or about to be tested by handle_event.
Noticed(f, e) ==
    \/ f \in ready
    \/ e \in batch[f]
    \/ at = "event" /\ fd_[cur] = f /\ e \in evs

\* No edge is lost: unread input, and output the socket has room for, always
\* have an event on its way (do_read drains, do_write leaves the rest to the
\* next EPOLLOUT).
NoLostEdge ==
    \A f \in Fds : Registered(f) =>
        LET c == fdt[f]
        IN  /\ inq[c] # <<>> \/ peer[c] # "up" => Noticed(f, "IN")
            /\ output_buffer_[c] # <<>> /\ Room(c) > 0 => Noticed(f, "OUT")

\* handle_event never has to test EPOLLHUP alone: do_read sees the reset first.
HangupIsRead == at = "event" /\ "HUP" \in evs => "IN" \in evs

\* The bytes a client received, those in the kernel and those in output_buffer_
\* are the replies in the order they were produced: nothing is lost, repeated or
\* reordered by partial writes (do_write).  Only a destroyed connection, or a
\* reset, may cut the stream short, and what was received stays a prefix of it.
StreamIntact ==
    \A c \in Conns :
        LET stream == [i \in 1..(Pieces * Len(resp[c])) |-> i]
            seen   == rcvd[c] \o sndq[c] \o output_buffer_[c]
        IN  /\ rcvd[c] = SubSeq(stream, 1, Len(rcvd[c]))
            /\ life[c] # "destroyed" /\ peer[c] \notin Reset => seen = stream

\* Both servers implement the service: no request is answered twice or after a
\* later one, and what a client receives are the pieces of the answers in order
\* (do_read, handle_input, send, do_write).
Service == INSTANCE HttpService
    WITH PiecesPerAnswer <- Pieces,
         sent            <- asked,
         answered        <- [c \in Conns |-> [k \in DOMAIN resp[c] |-> resp[c][k].id]],
         delivered       <- rcvd,
         ended           <- [c \in Conns |-> life[c] = "destroyed"]

ImplementsService == Service!Spec

\* The server closes a connection only when its peer went away or when a reply
\* that ends it has been handed to the kernel in full (do_write, do_read).
ClosesAfterFlush ==
    [][\A c \in Conns :
        life[c] = "live" /\ life'[c] = "destroyed" /\ peer[c] = "up"
            => ~keep_alive_[c] /\ resp[c] # <<>> /\ output_buffer_'[c] = <<>>]_<<life, output_buffer_>>

\* A connection that connected is eventually accepted (handle_accept).
ConnectionsAccepted ==
    \A c \in Conns :
        peer[c] = "up" /\ life[c] = "none" ~> life[c] # "none" \/ proc # "running"

\* A client that sends whole requests one at a time gets each of them answered
\* (do_read, handle_input), unless the connection ends first.
RequestsAnswered ==
    \A c \in Conns : \A n \in 1..MaxRequests :
        asked[c] = n ~> \/ \E k \in DOMAIN resp[c] : resp[c][k].id = n
                        \/ life[c] = "destroyed" \/ peer[c] # "up"
                        \/ proc # "running"

\* Every reply produced reaches a client that keeps its connection open, through
\* any number of partial writes (send, do_write).
RepliesDelivered ==
    \A c \in Conns : \A n \in 1..MaxRequests :
        Len(resp[c]) >= n ~> \/ Len(rcvd[c]) >= Pieces * n
                             \/ peer[c] # "up" \/ proc # "running"

\* A connection one of whose replies said "Connection: close" is closed with the
\* step that empties its output buffer (do_write, set_keep_alive).
NonKeepAliveCloses ==
    \A c \in Conns :
        life[c] = "live" /\ output_buffer_[c] = <<>> =>
            \A k \in DOMAIN resp[c] : ~resp[c][k].close

\* The "Connection" header a reply is decided by: the last one parsed.
LastHeader(c, k) ==
    LET said == {j \in 1..k : resp[c][j].req.connection # "absent"}
    IN  IF said = {} THEN "absent"
        ELSE resp[c][CHOOSE j \in said : \A i \in said : i <= j].req.connection

\* headers_ is never cleared: a reply says "close" as the last Connection header
\* on this connection asked for, which may be one of an earlier request, and as
\* the version of its own request only if there was none (parse_request).  A
\* client that splits a request may have its header lost or misread.
LastHeaderDecides ==
    \A c \in Conns : \A k \in DOMAIN resp[c] :
        (\A j \in 1..k : resp[c][j].status = 200) =>
            resp[c][k].close = IF LastHeader(c, k) = "absent"
                               THEN resp[c][k].req.version = "1.0"
                               ELSE LastHeader(c, k) = "close"

\* A client that went away never keeps its descriptor (do_read, handle_close).
DepartedReleased ==
    \A c \in Conns :
        life[c] = "live" /\ peer[c] # "up" ~> life[c] = "destroyed" \/ proc # "running"

\* What handle_input's comment is afraid of ("the root of a core dump"): no
\* handler runs on a connection that has been destroyed (do_read after
\* handle_close).
HandlersOnLiveObjects == cur # NoConn => life[cur] = "live"

\* "Check whether the headers are complete": a well-formed request is never
\* refused as a bad one (handle_input, do_read).
WellFormedNotRefused ==
    \A c \in Conns : \A k \in DOMAIN resp[c] : resp[c][k].status # 400
=============================================================================

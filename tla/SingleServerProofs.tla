------------------------- MODULE SingleServerProofs -------------------------
(***************************************************************************)
(* What holds of SingleServer for every number of connections, descriptors *)
(* and events, every size of the buffers and every set of requests.        *)
(***************************************************************************)
EXTENDS SingleServer, DeliveryProofs

LEMMA DoWriteType ==
    ASSUME TypeOK, NEW c \in Conns, DoWrite(c)
    PROVE  TypeOK'
<1>1. CASE WriteAllKeep(c) \/ WriteAllClose(c)
  BY <1>1, WriteAllKeepType, WriteAllCloseType
<1>2. CASE WritePart(c)
  <2>1. PollTypes' /\ proc' \in Outcomes
    BY <1>2 DEF WritePart, WriteSome, TypeOK, PollTypes, LoopTypes
  <2>. QED
    BY <1>2, <2>1, WriteSomeType DEF WritePart
<1>3. CASE WriteReset(c) \/ WriteBroken(c)
  BY <1>3, WriteResetType, WriteBrokenType
<1>. QED
  BY <1>1, <1>2, <1>3 DEF DoWrite

\* The acceptor's ways out (handle_accept).
LEMMA AcceptEndsType ==
    ASSUME TypeOK, AcceptAgain \/ AcceptThrows \/ AcceptUnregistered
    PROVE  TypeOK'
<1>1. CASE AcceptAgain
  <2>1. LoopTypes'
    BY <1>1 DEF AcceptAgain, TypeOK, LoopTypes
  <2>. QED
    BY <1>1, <2>1, SameTypes DEF AcceptAgain, TypeOK
<1>2. CASE AcceptThrows
  <2>1. LoopTypes'
    BY <1>2 DEF AcceptThrows, TypeOK, LoopTypes, Outcomes
  <2>. QED
    BY <1>2, <2>1, SameTypes DEF AcceptThrows, TypeOK
<1>3. CASE AcceptUnregistered
  BY <1>3, NewConnectionType, SameTypes DEF AcceptUnregistered, TypeOK
<1>. QED
  BY <1>1, <1>2, <1>3

\* Every variable keeps its type, whatever the clients do and whichever calls fail.
THEOREM SingleTypeCorrect == Spec => []TypeOK
<1>1. TypeOK /\ [Next]_vars => TypeOK'
  <2>. SUFFICES ASSUME TypeOK, [Next]_vars PROVE TypeOK'
    OBVIOUS
  <2>1. CASE Clients
    BY <2>1, ClientsType
  <2>2. CASE EpollWait("loop") \/ DispatchAcceptor \/ \E f \in Fds : Dispatch(f)
    <3>1. CASE DispatchAcceptor
      <4>1. LoopTypes'
        BY <3>1 DEF DispatchAcceptor, TypeOK, LoopTypes, Watched
      <4>. QED
        BY <3>1, <4>1, SameTypes DEF DispatchAcceptor, TypeOK
    <3>. QED
      BY <2>2, <3>1, EpollWaitType, DispatchType
  <2>3. CASE Accept \/ AcceptAgain \/ AcceptThrows \/ AcceptUnregistered
    BY <2>3, AcceptType, AcceptEndsType
  <2>4. CASE RunOnDestroyed
    BY <2>4, RunOnDestroyedType
  <2>5. CASE \E c \in Conns : DoRead(c) \/ DoReadEnd(c) \/ DoWrite(c)
    BY <2>5, DoReadType, DoReadEndType, DoWriteType
  <2>6. CASE UNCHANGED vars
    BY <2>6, SameTypes DEF vars, TypeOK
  <2>. QED
    BY <2>1, <2>2, <2>3, <2>4, <2>5, <2>6 DEF Next, Server
<1>. QED
  BY InitType, <1>1, PTL DEF Spec
-----------------------------------------------------------------------------
LEMMA DoWriteOwners ==
    ASSUME TypeOK, Ownership, NEW c \in Conns, DoWrite(c)
    PROVE  Ownership'
<1>1. CASE WriteAllClose(c) \/ WriteReset(c)
  BY <1>1, CloseOwners
<1>2. CASE WritePart(c)
  <2>1. RegisteredOpen'
    BY <1>2, SameOwners DEF WritePart, WriteSome
  <2>. QED
    BY <1>2, <2>1, WriteSomeOwners DEF WritePart
<1>3. CASE WriteAllKeep(c) \/ WriteBroken(c)
  BY <1>3, WriteAllKeepOwners, WriteBrokenOwners
<1>. QED
  BY <1>1, <1>2, <1>3 DEF DoWrite

LEMMA AcceptEndsOwners ==
    ASSUME TypeOK, Ownership, AcceptAgain \/ AcceptThrows \/ AcceptUnregistered
    PROVE  Ownership'
<1>1. CASE AcceptAgain \/ AcceptThrows
  <2>1. Coherent' /\ BacklogFresh' /\ RegisteredOpen'
    BY <1>1, SameOwners DEF AcceptAgain, AcceptThrows, connVars, sockVars, peerVars, pollVars
  <2>2. EventsHaveOwners'
    BY <1>1 DEF AcceptAgain, AcceptThrows, Ownership, EventsHaveOwners, connVars, pollVars
  <2>. QED
    BY <2>1, <2>2 DEF Ownership
<1>2. CASE AcceptUnregistered
  <2>1. at = "accept" /\ UNCHANGED <<at, batch, peer>>
    BY <1>2 DEF AcceptUnregistered, loopVars, peerVars
  <2>. QED
    BY <1>2, <2>1, NewConnectionOwners DEF AcceptUnregistered
<1>. QED
  BY <1>1, <1>2

\* A descriptor belongs to one connection, and the kernel's table, the callback map,
\* the objects and the events in flight agree on which, at every step of the loop
\* (add_fd, remove_fd, handle_accept, handle_close): an event is never dispatched
\* to the wrong connection.  Ownership is inductive relative to TypeOK.
THEOREM SingleOwnership == Spec => []Ownership
<1>1. TypeOK /\ Ownership /\ [Next]_vars => Ownership'
  <2>. SUFFICES ASSUME TypeOK, Ownership, [Next]_vars PROVE Ownership'
    OBVIOUS
  <2>1. CASE Clients
    BY <2>1, ClientsOwners
  <2>2. CASE EpollWait("loop") \/ DispatchAcceptor \/ \E f \in Fds : Dispatch(f)
    BY <2>2, EpollWaitOwners, DispatchOwners, DispatchAcceptorOwners
  <2>3. CASE Accept \/ AcceptAgain \/ AcceptThrows \/ AcceptUnregistered
    BY <2>3, AcceptOwners, AcceptEndsOwners
  <2>4. CASE RunOnDestroyed
    BY <2>4, RunOnDestroyedOwners
  <2>5. CASE \E c \in Conns : DoRead(c) \/ DoReadEnd(c) \/ DoWrite(c)
    BY <2>5, DoReadOwners, CloseOwners, DoWriteOwners
  <2>6. CASE UNCHANGED vars
    BY <2>6, SameOwners DEF vars, Ownership, connVars, sockVars, peerVars, pollVars, loopVars
  <2>. QED
    BY <2>1, <2>2, <2>3, <2>4, <2>5, <2>6 DEF Next, Server
<1>. QED
  BY InitOwners, SingleTypeCorrect, <1>1, PTL DEF Spec
-----------------------------------------------------------------------------
\* The acceptor's ways out.
LEMMA AcceptEndsDelivery ==
    ASSUME TypeOK, Ownership, Edges, Streams, AcceptAgain \/ AcceptThrows \/ AcceptUnregistered
    PROVE  Edges' /\ Streams'
<1>1. CASE AcceptAgain \/ AcceptThrows
  <2>1. Edges'
    BY <1>1, ThreadEdges
    DEF AcceptAgain, AcceptThrows, peerVars, sockVars, pollVars, connVars, httpVars
  <2>2. Streams'
    BY <1>1, SameStreams
    DEF AcceptAgain, AcceptThrows, peerVars, sockVars, pollVars, connVars, httpVars
  <2>. QED
    BY <2>1, <2>2
<1>2. CASE AcceptUnregistered
  <2>. USE <1>2 DEF AcceptUnregistered, loopVars, peerVars, httpVars
  <2>1. Unserved
    BY DEF Streams
  <2>2. at' # "event"
    OBVIOUS
  <2>3. Edges'
    BY <2>1, <2>2, NewConnectionEdges
  <2>4. Streams'
    BY NewConnectionStreams
  <2>. QED
    BY <2>3, <2>4
<1>. QED
  BY <1>1, <1>2

LEMMA DoWriteDelivery ==
    ASSUME TypeOK, Ownership, Edges, Streams, NEW c \in Conns, DoWrite(c)
    PROVE  Edges' /\ Streams'
<1>1. CASE WriteAllClose(c) \/ WriteReset(c)
  BY <1>1, CloseEdges, CloseStreams
<1>2. CASE WritePart(c)
  BY <1>2, WriteSomeEdges, WriteSomeStreams DEF WritePart
<1>3. CASE WriteAllKeep(c)
  BY <1>3, WriteAllKeepEdges, WriteAllKeepStreams
<1>4. CASE WriteBroken(c)
  BY <1>4, WriteBrokenEdges, LoopStreams
<1>. QED
  BY <1>1, <1>2, <1>3, <1>4 DEF DoWrite

\* Edges and Streams are inductive relative to TypeOK and Ownership.
LEMMA DeliveryStep ==
    TypeOK /\ Ownership /\ Edges /\ Streams /\ [Next]_vars => Edges' /\ Streams'
<1>. SUFFICES ASSUME TypeOK, Ownership, Edges, Streams, [Next]_vars
              PROVE  Edges' /\ Streams'
  OBVIOUS
<1>1. CASE Clients
  BY <1>1, ClientsEdges, ClientsStreams
<1>2. CASE EpollWait("loop") \/ DispatchAcceptor \/ RunOnDestroyed \/ \E f \in Fds : Dispatch(f)
  <2>1. Edges'
    BY <1>2, EpollWaitEdges, DispatchEdges, DispatchAcceptorEdges, RunOnDestroyedEdges
  <2>2. Streams'
    BY <1>2, LoopStreams
  <2>. QED
    BY <2>1, <2>2
<1>3. CASE Accept
  <2>1. Unserved
    BY DEF Streams
  <2>. QED
    BY <1>3, <2>1, AcceptEdges, AcceptStreams
<1>4. CASE AcceptAgain \/ AcceptThrows \/ AcceptUnregistered
  BY <1>4, AcceptEndsDelivery
<1>5. CASE \E c \in Conns : DoRead(c) \/ DoReadEnd(c) \/ DoWrite(c)
  BY <1>5, DoReadEdges, DoReadStreams, CloseEdges, CloseStreams, DoWriteDelivery
<1>6. CASE UNCHANGED vars
  <2>. USE <1>6 DEF vars, peerVars, sockVars, pollVars, connVars, httpVars, loopVars
  <2>1. Edges'
    BY DEF Edges, HupRead, WatchesWhatItOwes, NoLostEdge, Noticed, Registered, Room
  <2>2. Streams'
    BY SameStreams
  <2>. QED
    BY <2>1, <2>2
<1>. QED
  BY <1>1, <1>2, <1>3, <1>4, <1>5, <1>6 DEF Next, Server

\* What the loop is obliged to watch and to notice, and the order of the pieces.
LEMMA SingleDelivery == Spec => [](Edges /\ Streams)
<1>1. Init => Edges /\ Streams
  BY InitEdges, InitStreams
<1>. QED
  BY <1>1, SingleTypeCorrect, SingleOwnership, DeliveryStep, PTL DEF Spec

\* No readable socket and no room for waiting output goes unnoticed by an
\* edge-triggered epoll: as long as the process runs, EPOLLOUT is registered exactly
\* while there is output, an event that is owed is queued, reported or being handled,
\* and a hang-up is read before it would have to be tested for (do_read, do_write,
\* modify_fd, run).
THEOREM SingleKeepsEdges == Spec => [](WatchesWhatItOwes /\ NoLostEdge /\ HangupIsRead)
<1>1. Edges => WatchesWhatItOwes /\ NoLostEdge /\ HangupIsRead
  BY EdgesHangup DEF Edges
<1>. QED
  BY SingleDelivery, <1>1, PTL

\* However writes are cut, what a client receives are the pieces of its replies in
\* order, and nothing of them is missing on a connection that is neither reset nor
\* closed (send, do_write).
THEOREM SingleStreamIntact == Spec => []StreamIntact
  BY SingleTypeCorrect, SingleDelivery, StreamsIntact, PTL

\* The server closes on a client that stays only after a reply that ends the
\* connection, and with every piece handed to the kernel (do_write, handle_close).
THEOREM SingleClosesAfterFlush == Spec => ClosesAfterFlush
<1>1. TypeOK /\ Ownership /\ Streams /\ [Next]_vars => ClosesProperly
  <2>. SUFFICES ASSUME TypeOK, Ownership, Streams, [Next]_vars PROVE ClosesProperly
    OBVIOUS
  <2>1. CASE \E c \in Conns : DoReadEnd(c) \/ WriteAllClose(c) \/ WriteReset(c)
    BY <2>1, CloseProperly
  <2>2. CASE ~\E c \in Conns : DoReadEnd(c) \/ WriteAllClose(c) \/ WriteReset(c)
    <3>1. CASE Accept \/ AcceptUnregistered
      <4>1. \E c \in Conns : life' = [life EXCEPT ![c] = "live"]
        BY <3>1 DEF Accept, AcceptUnregistered, NewConnection
      <4>. QED
        BY <4>1, OtherwiseProperly DEF TypeOK, ConnTypes
    <3>2. CASE ~(Accept \/ AcceptUnregistered)
      <4>1. UNCHANGED life
        BY <2>2, <3>2
        DEF Next, Clients, Server, Connect, SendRequest, SendHead, SendTail, Arrives, Fin, Rst,
            Receive, EpollWait, DispatchAcceptor, AcceptAgain, AcceptThrows, RunOnDestroyed,
            Dispatch, DoRead, DoWrite, WriteAllKeep, WritePart, WriteSome, WriteBroken,
            connVars, vars
      <4>. QED
        BY <4>1, OtherwiseProperly
    <3>. QED
      BY <3>1, <3>2
  <2>. QED
    BY <2>1, <2>2
<1>2. TypeOK /\ Ownership /\ Streams /\ [Next]_vars => [ClosesProperly]_<<life, output_buffer_>>
  BY <1>1
<1>. QED
  BY SingleTypeCorrect, SingleOwnership, SingleDelivery, <1>2, PTL
  DEF Spec, ClosesAfterFlush, ClosesProperly
-----------------------------------------------------------------------------
\* Numbers is inductive relative to TypeOK and Ownership.
LEMMA NumbersStep ==
    TypeOK /\ Ownership /\ Numbers /\ [Next]_vars => Numbers'
<1>. SUFFICES ASSUME TypeOK, Ownership, Numbers, [Next]_vars PROVE Numbers'
  OBVIOUS
<1>1. CASE Clients
  BY <1>1, ClientsNumbers
<1>2. CASE EpollWait("loop") \/ DispatchAcceptor \/ \E f \in Fds : Dispatch(f)
  BY <1>2, LoopNumbers
<1>3. CASE Accept \/ RunOnDestroyed
  BY <1>3, AcceptNumbers, RunOnDestroyedNumbers
<1>4. CASE AcceptAgain \/ AcceptThrows \/ UNCHANGED vars
  BY <1>4, SameNumbers
  DEF AcceptAgain, AcceptThrows, vars, peerVars, sockVars, connVars, httpVars
<1>5. CASE AcceptUnregistered
  BY <1>5, NewConnectionNumbers DEF AcceptUnregistered, peerVars, httpVars
<1>6. ASSUME NEW c \in Conns, DoRead(c) \/ DoReadEnd(c) \/ DoWrite(c) PROVE Numbers'
  BY <1>6, DoReadNumbers, CloseNumbers, LoopNumbers DEF DoWrite, WritePart
<1>. QED
  BY <1>1, <1>2, <1>3, <1>4, <1>5, <1>6 DEF Next, Server

\* The answers are numbered like the requests, in the order asked.
LEMMA SingleNumbers == Spec => []Numbers
  BY SingleTypeCorrect, SingleOwnership, InitNumbers, NumbersStep, PTL DEF Spec

\* Each step is a step of the service, or the service does not see it.
LEMMA ServesStep ==
    TypeOK /\ Ownership /\ Streams /\ Numbers /\ [Next]_vars => [Service!Next]_(Service!vars)
<1>. SUFFICES ASSUME TypeOK, Ownership, Streams, Numbers, [Next]_vars
              PROVE  Service!Next \/ UNCHANGED Service!vars
  OBVIOUS
<1>1. CASE Clients
  BY <1>1, ClientsServes
<1>2. CASE EpollWait("loop") \/ DispatchAcceptor \/ RunOnDestroyed \/ \E f \in Fds : Dispatch(f)
  BY <1>2, LoopServes
<1>3. CASE Accept \/ AcceptUnregistered
  BY <1>3, NewConnectionServes DEF Accept, AcceptUnregistered, peerVars, httpVars
<1>4. CASE AcceptAgain \/ AcceptThrows \/ UNCHANGED vars
  BY <1>4, QuietServes DEF AcceptAgain, AcceptThrows, vars, peerVars, connVars, httpVars
<1>5. ASSUME NEW c \in Conns, DoRead(c) \/ DoReadEnd(c) \/ DoWrite(c)
      PROVE  Service!Next \/ UNCHANGED Service!vars
  BY <1>5, DoReadServes, CloseServes, LoopServes DEF DoWrite, WritePart
<1>. QED
  BY <1>1, <1>2, <1>3, <1>4, <1>5 DEF Next, Server

\* A client is promised by this server what HttpService promises: each request
\* answered at most once and in the order asked, the pieces delivered in order and
\* without a gap, nothing answered once the connection was given up (do_read,
\* send, do_write, handle_close).
THEOREM SingleImplementsService == Spec => ImplementsService
  BY SingleTypeCorrect, SingleOwnership, SingleDelivery, SingleNumbers, InitServes,
     ServesStep, PTL
  DEF Spec, ImplementsService, Service!Spec
-----------------------------------------------------------------------------
LEMMA DecisionsStep ==
    TypeOK /\ TypeOK' /\ Ownership /\ Numbers /\ Decisions /\ [Next]_vars => Decisions'
<1>. SUFFICES ASSUME TypeOK, TypeOK', Ownership, Numbers, Decisions, [Next]_vars
              PROVE  Decisions'
  OBVIOUS
<1>1. CASE \E c \in Conns : DoRead(c)
  BY <1>1, DoReadDecisions
<1>2. CASE Clients
  BY <1>2, SameDecisions
  DEF Clients, Connect, SendRequest, SendHead, SendTail, Arrives, Fin, Rst, Receive, httpVars,
      loopVars
<1>3. CASE \/ EpollWait("loop") \/ DispatchAcceptor \/ RunOnDestroyed
           \/ \E f \in Fds : Dispatch(f)
  BY <1>3, SameDecisions DEF EpollWait, DispatchAcceptor, RunOnDestroyed, Dispatch, httpVars
<1>4. CASE Accept \/ AcceptAgain \/ AcceptThrows \/ AcceptUnregistered \/ UNCHANGED vars
  BY <1>4, SameDecisions
  DEF Accept, AcceptAgain, AcceptThrows, AcceptUnregistered, vars, httpVars, loopVars
<1>5. CASE \E c \in Conns : DoReadEnd(c) \/ DoWrite(c)
  <2>1. UNCHANGED <<resp, headers_>> /\ proc = "running"
    BY <1>5
    DEF DoReadEnd, DoWrite, WriteAllKeep, WriteAllClose, WriteAll, WritePart, WriteSome,
        WriteReset, WriteBroken, Handling, httpVars
  <2>. QED
    BY <2>1, SameDecisions
<1>. QED
  BY <1>1, <1>2, <1>3, <1>4, <1>5 DEF Next, Server

\* Whether a reply closes is decided by the last Connection header seen on the
\* connection, an earlier request's too, and without one by the HTTP version of the
\* request (handle_input, parse_request, prepare_response).
THEOREM SingleLastHeader == Spec => []LastHeaderDecides
<1>1. Spec => []Decisions
  BY SingleTypeCorrect, SingleOwnership, SingleNumbers, InitDecisions, DecisionsStep, PTL
  DEF Spec
<1>. QED
  BY SingleTypeCorrect, <1>1, DecisionsDecide, PTL

LEMMA FarewellsStep ==
    ASSUME "pipeline" \notin PeerMoves
    PROVE  TypeOK /\ Ownership /\ Streams /\ Numbers /\ Farewells /\ [Next]_vars => Farewells'
<1>. SUFFICES ASSUME TypeOK, Ownership, Streams, Numbers, Farewells, [Next]_vars
              PROVE  Farewells'
  OBVIOUS
<1>1. CASE Clients
  BY <1>1, ClientsFarewells
<1>2. CASE \/ EpollWait("loop") \/ DispatchAcceptor \/ RunOnDestroyed
           \/ \E f \in Fds : Dispatch(f)
  BY <1>2, LoopFarewells
<1>3. CASE Accept \/ AcceptUnregistered
  BY <1>3, NewConnectionFarewells DEF Accept, AcceptUnregistered, peerVars, httpVars
<1>4. CASE AcceptAgain \/ AcceptThrows \/ UNCHANGED vars
  BY <1>4, SameFarewells
  DEF AcceptAgain, AcceptThrows, vars, peerVars, sockVars, connVars, httpVars
<1>5. ASSUME NEW c \in Conns, DoRead(c) \/ DoReadEnd(c) \/ DoWrite(c) PROVE Farewells'
  BY <1>5, DoReadFarewells, CloseFarewells, WriteFarewells, LoopFarewells
  DEF DoWrite, WritePart
<1>. QED
  BY <1>1, <1>2, <1>3, <1>4, <1>5 DEF Next, Server

\* If clients wait for a whole reply before they ask again, a connection with a reply
\* that closes stays marked for closing until its output is flushed.  Without the
\* hypothesis a pipelined request may set keep_alive_ again (handle_input, do_write).
THEOREM SingleClosesAsSaid ==
    ASSUME "pipeline" \notin PeerMoves
    PROVE  Spec => []NonKeepAliveCloses
<1>1. Spec => []Farewells
  BY SingleTypeCorrect, SingleOwnership, SingleDelivery, SingleNumbers, InitFarewells,
     FarewellsStep, PTL
  DEF Spec
<1>. QED
  BY <1>1, FarewellsClose, PTL
-----------------------------------------------------------------------------
\* Whoever waits in the backlog is known to the loop: the listening socket is on the
\* ready list, in the batch, or handle_accept has not seen EAGAIN yet.
BacklogNoticed ==
    proc = "running" /\ backlog # <<>> =>
        Listen \in ready \/ batch[Listen] # {} \/ at = "accept"

LEMMA SameBacklog ==
    ASSUME BacklogNoticed, backlog' = backlog, batch'[Listen] = batch[Listen],
           Listen \in ready => Listen \in ready',
           at = "accept" => at' = "accept",
           proc' = "running" => proc = "running"
    PROVE  BacklogNoticed'
  BY DEF BacklogNoticed

\* No handler of a connection touches the listening socket's place in epoll.
LEMMA HandlersBacklog ==
    ASSUME TypeOK, Ownership, BacklogNoticed, NEW c \in Conns,
           DoRead(c) \/ DoReadEnd(c) \/ DoWrite(c)
    PROVE  BacklogNoticed'
<1>1. /\ at = "event" /\ proc = "running" /\ fd_[c] \in Fds /\ Listen # fd_[c]
      /\ UNCHANGED <<backlog, batch>>
  <2>1. \E e : Handling(c, e)
    BY DEF DoRead, DoReadEnd, DoWrite, WriteAllKeep, WriteAllClose, WriteAll, WritePart,
           WriteSome, WriteReset, WriteBroken
  <2>2. UNCHANGED <<backlog, batch>>
    BY DEF DoRead, DoReadEnd, DoWrite, WriteAllKeep, WriteAllClose, WritePart, WriteSome,
           WriteReset, WriteBroken, Handled, HandleClose, sockVars
  <2>. QED
    BY <2>1, <2>2, HandlingOwner, FdAssumption
<1>2. ASSUME NEW interest, NEW polled, ModifyFd(fd_[c], interest, polled)
      PROVE  Listen \in ready => Listen \in ready'
  BY <1>2 DEF ModifyFd, Repolled
<1>3. Listen \in ready => Listen \in ready'
  <2>1. CASE DoRead(c)
    <3>1. PICK buf : HandleInput(c, buf)
      BY <2>1 DEF DoRead
    <3>. QED
      BY <1>2, <3>1, HandleInputEffect DEF Send
  <2>2. CASE WriteAllKeep(c)
    BY <1>2, <2>2 DEF WriteAllKeep
  <2>3. CASE DoReadEnd(c) \/ WriteAllClose(c) \/ WriteReset(c)
    BY <1>1, <2>3 DEF DoReadEnd, WriteAllClose, WriteReset, HandleClose
  <2>4. CASE WritePart(c) \/ WriteBroken(c)
    BY <2>4 DEF WritePart, WriteBroken, pollVars
  <2>. QED
    BY <2>1, <2>2, <2>3, <2>4 DEF DoWrite
<1>. QED
  BY <1>1, <1>3, SameBacklog

LEMMA BacklogStep ==
    TypeOK /\ Ownership /\ BacklogNoticed /\ [Next]_vars => BacklogNoticed'
<1>. SUFFICES ASSUME TypeOK, Ownership, BacklogNoticed, [Next]_vars PROVE BacklogNoticed'
  OBVIOUS
<1>. USE DEF sockVars, pollVars, loopVars
<1>1. CASE Clients
  <2>1. PICK c \in Conns :
            \/ Connect(c)
            \/ \E r \in Requests : SendRequest(c, r) \/ SendHead(c, r)
            \/ SendTail(c) \/ Fin(c) \/ Rst(c) \/ Receive(c)
    BY <1>1 DEF Clients
  <2>2. CASE Connect(c)
    BY <2>2 DEF Connect, BacklogNoticed
  <2>3. CASE ~Connect(c)
    <3>1. ready \subseteq ready' /\ UNCHANGED <<backlog, batch, at, proc>>
      BY <2>1, <2>3 DEF SendRequest, SendHead, SendTail, Arrives, Fin, Rst, Receive, Wake
    <3>. QED
      BY <3>1, SameBacklog
  <2>. QED
    BY <2>2, <2>3
<1>2. CASE EpollWait("loop")
  <2>1. PICK picked \in SUBSET ready :
            /\ batch' = [f \in Watched |-> IF f \in picked THEN Reported(f) ELSE {}]
            /\ ready' = ready \ picked
    BY <1>2 DEF EpollWait
  <2>2. /\ UNCHANGED <<backlog, proc>> /\ at = "loop"
        /\ Listen \in Watched /\ batch[Listen] = {}
    BY <1>2 DEF EpollWait, Watched
  <2>3. CASE Listen \in picked
    <3>1. batch'[Listen] = Reported(Listen)
      BY <2>1, <2>2, <2>3
    <3>. QED
      BY <2>2, <3>1 DEF BacklogNoticed, Reported
  <2>4. CASE Listen \notin picked
    BY <2>1, <2>2, <2>4 DEF BacklogNoticed
  <2>. QED
    BY <2>3, <2>4
<1>3. CASE DispatchAcceptor
  BY <1>3 DEF DispatchAcceptor, BacklogNoticed
<1>4. CASE RunOnDestroyed \/ AcceptThrows \/ UNCHANGED vars
  BY <1>4, SameBacklog DEF RunOnDestroyed, AcceptThrows, vars
<1>5. ASSUME NEW f \in Fds, Dispatch(f) PROVE BacklogNoticed'
  <2>1. batch'[Listen] = batch[Listen]
    BY <1>5, FdAssumption DEF Dispatch, TypeOK, LoopTypes, Watched
  <2>. QED
    BY <1>5, <2>1, SameBacklog DEF Dispatch
<1>6. CASE Accept \/ AcceptUnregistered
  BY <1>6 DEF Accept, AcceptUnregistered, AcceptMore, BacklogNoticed
<1>7. CASE AcceptAgain
  BY <1>7 DEF AcceptAgain, BacklogNoticed
<1>8. CASE \E c \in Conns : DoRead(c) \/ DoReadEnd(c) \/ DoWrite(c)
  BY <1>8, HandlersBacklog
<1>. QED
  BY <1>1, <1>2, <1>3, <1>4, <1>5, <1>6, <1>7, <1>8 DEF Next, Server

\* The thread sleeps in epoll_wait only when no connection waits to be accepted and
\* none has anything to be read or written, for any number of connections and however
\* few events a call of epoll_wait returns (run, handle_accept, do_read, do_write).
THEOREM SingleSleepsOnlyWhenIdle == Spec => []SleepsOnlyWhenIdle
<1>1. Init => BacklogNoticed
  BY DEF Init, BacklogNoticed
<1>2. Spec => []BacklogNoticed
  BY <1>1, SingleTypeCorrect, SingleOwnership, BacklogStep, PTL DEF Spec
<1>3. TypeOK /\ Ownership /\ Edges /\ BacklogNoticed => SleepsOnlyWhenIdle
  <2>. SUFFICES ASSUME TypeOK, Ownership, Edges, BacklogNoticed, Sleeps
                PROVE  /\ backlog = <<>>
                       /\ \A f \in Fds : Registered(f) =>
                             /\ inq[fdt[f]] = <<>> /\ peer[fdt[f]] = "up"
                             /\ \/ output_buffer_[fdt[f]] = <<>>
                                \/ Len(sndq[fdt[f]]) >= SndCap
    BY DEF SleepsOnlyWhenIdle
  <2>1. backlog = <<>>
    BY DEF BacklogNoticed, Sleeps, Watched
  <2>2. ASSUME NEW f \in Fds, Registered(f)
        PROVE  /\ inq[fdt[f]] = <<>> /\ peer[fdt[f]] = "up"
               /\ output_buffer_[fdt[f]] = <<>> \/ Len(sndq[fdt[f]]) >= SndCap
    <3>. DEFINE c == fdt[f]
    <3>1. ~Noticed(f, "IN") /\ ~Noticed(f, "OUT")
      BY DEF Noticed, Sleeps, Watched
    <3>2. inq[c] = <<>> /\ peer[c] = "up" /\ ~(output_buffer_[c] # <<>> /\ Room(c) > 0)
      BY <2>2, <3>1 DEF Edges, NoLostEdge
    <3>3. c \in Conns /\ Len(sndq[c]) \in Nat
      <4>1. c \in Conns
        BY <2>2 DEF Registered, Ownership, RegisteredOpen, TypeOK, PollTypes
      <4>2. sndq[c] \in Seq(Nat)
        BY <4>1 DEF TypeOK, SockTypes
      <4>. QED
        BY <4>1, <4>2, LenProperties
    <3>. QED
      BY <3>2, <3>3, BoundAssumption DEF Room
  <2>. QED
    BY <2>1, <2>2
<1>. QED
  BY <1>2, <1>3, SingleTypeCorrect, SingleOwnership, SingleDelivery, PTL
=============================================================================

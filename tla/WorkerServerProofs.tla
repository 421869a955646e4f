------------------------- MODULE WorkerServerProofs -------------------------
(***************************************************************************)
(* What holds of a worker for every instance of the constants, with the    *)
(* shared listening socket and SIGTERM at any point.                       *)
(***************************************************************************)
EXTENDS WorkerServer, DeliveryProofs

\* The steps of the loop itself, and a signal: only where the thread is changes,
\* and no handler is entered by them.
LEMMA LoopOnly ==
    ASSUME TypeOK, Ownership,
           UNCHANGED <<batch, cur, evs, peerVars, sockVars, pollVars, connVars, httpVars>>,
           at' \in {at, "loop", "tested", "wait", "blocked"}, proc' \in Outcomes
    PROVE  TypeOK' /\ Ownership'
<1>1. LoopTypes'
  BY DEF TypeOK, LoopTypes
<1>2. TypeOK'
  BY <1>1, SameTypes DEF TypeOK
<1>3. Coherent' /\ BacklogFresh' /\ RegisteredOpen'
  BY SameOwners DEF connVars, sockVars, peerVars, pollVars
<1>4. EventsHaveOwners'
  BY DEF Ownership, EventsHaveOwners, connVars, pollVars
<1>. QED
  BY <1>2, <1>3, <1>4 DEF Ownership

LEMMA TakenByOtherKeeps ==
    ASSUME TypeOK, Ownership, TakenByOther
    PROVE  TypeOK' /\ Ownership'
<1>. USE DEF TakenByOther
<1>. backlog \in Seq(Conns) /\ backlog # <<>>
  BY DEF TypeOK, SockTypes
<1>1. /\ Head(backlog) \in Conns /\ backlog' \in Seq(Conns)
      /\ Len(backlog') = Len(backlog) - 1 /\ Len(backlog) \in Nat
      /\ DOMAIN backlog = 1..Len(backlog) /\ DOMAIN backlog' = 1..Len(backlog) - 1
      /\ \A i \in DOMAIN backlog' : i + 1 \in DOMAIN backlog /\ backlog'[i] = backlog[i + 1]
  BY HeadTailProperties, LenProperties
<1>2. TypeOK'
  <2>1. SockTypes' /\ PeerTypes'
    BY <1>1 DEF TypeOK, SockTypes, PeerTypes
  <2>. QED
    BY <2>1, SameTypes DEF TypeOK
<1>3. Coherent' /\ RegisteredOpen' /\ EventsHaveOwners'
  BY SameOwners DEF connVars, pollVars, loopVars
<1>4. BacklogFresh'
  <2>1. \A d \in Conns : peer'[d] = IF d = Head(backlog) THEN "elsewhere" ELSE peer[d]
    BY DEF TypeOK, PeerTypes
  <2>2. \A i \in DOMAIN backlog : backlog[i] \in Conns
    BY ElementOfSeq, <1>1
  <2>3. life' = life
    BY DEF connVars
  <2>4. \A i \in DOMAIN backlog' :
            life'[backlog'[i]] = "none" /\ peer'[backlog'[i]] # "idle"
    BY <1>1, <2>1, <2>2, <2>3 DEF Ownership, BacklogFresh
  <2>5. \A i, j \in DOMAIN backlog' : backlog'[i] = backlog'[j] => i = j
    BY <1>1 DEF Ownership, BacklogFresh
  <2>6. \A d \in Conns : peer'[d] = "idle" => life'[d] = "none"
    BY <2>1, <2>3 DEF Ownership, BacklogFresh
  <2>. QED
    BY <2>4, <2>5, <2>6 DEF BacklogFresh
<1>. QED
  BY <1>2, <1>3, <1>4 DEF Ownership

\* accept4 or epoll_ctl fails.
LEMMA AcceptFailsKeeps ==
    ASSUME TypeOK, Ownership, AcceptBreaks \/ AcceptThrows
    PROVE  TypeOK' /\ Ownership'
<1>1. CASE AcceptBreaks
  <2>1. proc' \in Outcomes
    BY <1>1 DEF AcceptBreaks, TypeOK, LoopTypes
  <2>. QED
    BY <1>1, <2>1, LoopOnly DEF AcceptBreaks
<1>2. CASE AcceptThrows
  <2>1. LoopTypes'
    BY <1>2 DEF AcceptThrows, TypeOK, LoopTypes, Outcomes
  <2>2. TypeOK'
    BY <1>2, <2>1, NewConnectionType, SameTypes DEF AcceptThrows, TypeOK
  <2>3. Ownership'
    BY <1>2, NewConnectionOwners DEF AcceptThrows, peerVars
  <2>. QED
    BY <2>2, <2>3
<1>. QED
  BY <1>1, <1>2

LEMMA DoWriteKeeps ==
    ASSUME TypeOK, Ownership, NEW c \in Conns, DoWrite(c)
    PROVE  TypeOK' /\ Ownership'
<1>1. CASE WriteAllKeep(c) \/ WriteBroken(c)
  BY <1>1, WriteAllKeepType, WriteBrokenType, WriteAllKeepOwners, WriteBrokenOwners
<1>2. CASE WriteAllClose(c) \/ WriteReset(c)
  BY <1>2, WriteAllCloseType, WriteResetType, CloseOwners
<1>3. CASE WritePart(c)
  <2>1. UNCHANGED fdt /\ ModifyFd(fd_[c], WhileWriting, Polled(inq[c], sndq'[c], peer[c]))
    BY <1>3 DEF WritePart, WriteSome
  <2>2. PollTypes' /\ proc' \in Outcomes /\ RegisteredOpen'
    BY <2>1, ModifyFdType, ModifyFdOwners DEF WhileWriting
  <2>. QED
    BY <1>3, <2>2, WriteSomeType, WriteSomeOwners DEF WritePart
<1>. QED
  BY <1>1, <1>2, <1>3 DEF DoWrite

LEMMA ReactorKeeps ==
    ASSUME TypeOK, Ownership, Reactor
    PROVE  TypeOK' /\ Ownership'
<1>1. CASE EpollWait("wait")
  BY <1>1, EpollWaitType, EpollWaitOwners
<1>2. CASE DispatchAcceptor
  <2>1. LoopTypes'
    BY <1>2 DEF DispatchAcceptor, TypeOK, LoopTypes, Watched
  <2>2. TypeOK'
    BY <1>2, <2>1, SameTypes DEF DispatchAcceptor, TypeOK
  <2>. QED
    BY <1>2, <2>2, DispatchAcceptorOwners
<1>3. CASE Accept \/ RunOnDestroyed
  BY <1>3, AcceptType, AcceptOwners, RunOnDestroyedType, RunOnDestroyedOwners
<1>4. CASE \E f \in Fds : Dispatch(f)
  BY <1>4, DispatchType, DispatchOwners
<1>5. CASE \E c \in Conns : DoRead(c) \/ DoReadEnd(c) \/ DoWrite(c)
  BY <1>5, DoReadType, DoReadOwners, DoReadEndType, CloseOwners, DoWriteKeeps
<1>. QED
  BY <1>1, <1>2, <1>3, <1>4, <1>5 DEF Reactor
-----------------------------------------------------------------------------
\* A worker's types and the ownership of its descriptors survive SIGTERM at any
\* point, other workers taking connections first, and a failing accept4 or
\* epoll_ctl (worker_signal_handler, handle_accept, add_fd, handle_close).
THEOREM WorkerOwnership == Spec => [](WorkerTypeOK /\ Ownership)
<1>1. WorkerInit => WorkerTypeOK /\ Ownership
  BY InitType, InitOwners DEF WorkerInit, WorkerTypeOK
<1>2. WorkerTypeOK /\ Ownership /\ [Next]_vars => WorkerTypeOK' /\ Ownership'
  <2>. SUFFICES ASSUME WorkerTypeOK, Ownership, [Next]_vars
                PROVE  WorkerTypeOK' /\ Ownership'
    OBVIOUS
  <2>. TypeOK /\ running_ \in BOOLEAN
    BY DEF WorkerTypeOK
  <2>1. CASE Clients /\ Calm
    BY <2>1, ClientsType, ClientsOwners DEF Calm, WorkerTypeOK
  <2>2. CASE Reactor /\ Calm
    BY <2>2, ReactorKeeps DEF Calm, WorkerTypeOK
  <2>3. CASE TestRunning \/ EnterEpollWait \/ AcceptSleeps
    <3>. USE DEF TestRunning, EnterEpollWait, AcceptSleeps
    <3>1. proc' \in Outcomes
      BY <2>3 DEF TypeOK, LoopTypes, Outcomes
    <3>2. TypeOK' /\ Ownership'
      BY <2>3, <3>1, LoopOnly
    <3>. QED
      BY <2>3, <3>2 DEF Calm, WorkerTypeOK
  <2>4. CASE AcceptBreaks \/ AcceptThrows
    <3>1. TypeOK' /\ Ownership'
      BY <2>4, AcceptFailsKeeps
    <3>. QED
      BY <2>4, <3>1 DEF AcceptBreaks, AcceptThrows, Calm, WorkerTypeOK
  <2>5. CASE Sigterm
    <3>1. proc' \in Outcomes /\ at' \in {at, "loop"}
      BY <2>5 DEF Sigterm, TypeOK, LoopTypes
    <3>2. TypeOK' /\ Ownership'
      BY <2>5, <3>1, LoopOnly DEF Sigterm
    <3>. QED
      BY <2>5, <3>2 DEF Sigterm, WorkerTypeOK
  <2>6. CASE TakenByOther
    BY <2>6, TakenByOtherKeeps DEF TakenByOther, Calm, WorkerTypeOK
  <2>7. CASE UNCHANGED vars
    BY <2>7, SameTypes, SameOwners
    DEF vars, TypeOK, WorkerTypeOK, Ownership, connVars, sockVars, peerVars, pollVars, loopVars
  <2>. QED
    BY <2>1, <2>2, <2>3, <2>4, <2>5, <2>6, <2>7 DEF Next, Worker
<1>. QED
  BY <1>1, <1>2, PTL DEF Spec
-----------------------------------------------------------------------------
\* The loop's own steps and a signal move no piece and touch no registration.
LEMMA LoopDelivery ==
    ASSUME TypeOK, Ownership, Edges, Streams, proc = "running",
           UNCHANGED <<batch, cur, evs, peerVars, sockVars, pollVars, connVars, httpVars>>,
           at = "event" => at' = at, at' = "event" => at = "event"
    PROVE  Edges' /\ Streams'
<1>. USE DEF peerVars, sockVars, pollVars, connVars, httpVars
<1>1. Edges'
  BY ThreadEdges
<1>2. Streams'
  BY SameStreams
<1>. QED
  BY <1>1, <1>2

\* The connection another worker takes has no descriptor here.
LEMMA TakenDelivery ==
    ASSUME TypeOK, Ownership, Edges, Streams, TakenByOther
    PROVE  Edges' /\ Streams'
<1>. USE DEF TakenByOther, pollVars, connVars, httpVars, loopVars
<1>. DEFINE b == Head(backlog)
<1>1. b \in Conns /\ life[b] = "none"
  <2>1. 1 \in DOMAIN backlog /\ backlog[1] = b /\ b \in Conns
    BY HeadTailProperties, LenProperties DEF TypeOK, SockTypes
  <2>. QED
    BY <2>1 DEF Ownership, BacklogFresh
<1>2. \A d \in Conns : d # b => peer'[d] = peer[d]
  BY DEF TypeOK, PeerTypes
<1>3. \A f \in Fds : epi[f] # {} \/ batch[f] # {} => fdt[f] \in Conns /\ fdt[f] # b
  BY <1>1 DEF Ownership, RegisteredOpen, EventsHaveOwners, Coherent, TypeOK, PollTypes
<1>4. at = "event" => cur # b
  BY <1>1 DEF Ownership, EventsHaveOwners
<1>. HIDE DEF b
<1>5. WatchesWhatItOwes'
  BY SameWatches DEF Edges
<1>6. \A f \in Fds : \A e \in {"IN", "OUT"} : Noticed(f, e) => Noticed(f, e)'
  BY DEF Noticed
<1>7. NoLostEdge'
  BY <1>2, <1>3, <1>6, SameEdges DEF Edges
<1>8. HupRead'
  <2>1. \A f \in Fds : "HUP" \in batch[f] => peer'[fdt[f]] = peer[fdt[f]]
    BY <1>2, <1>3
  <2>2. at = "event" => peer'[cur] = peer[cur]
    BY <1>2, <1>4 DEF Edges, HupRead
  <2>. QED
    BY <2>1, <2>2 DEF Edges, HupRead
<1>9. Streams'
  BY <1>1, <1>2, SameStreams
<1>. QED
  BY <1>5, <1>7, <1>8, <1>9 DEF Edges

LEMMA DoWriteDelivery ==
    ASSUME TypeOK, Ownership, Edges, Streams, NEW c \in Conns, DoWrite(c)
    PROVE  Edges' /\ Streams'
<1>1. CASE WriteAllClose(c) \/ WriteReset(c)
  BY <1>1, CloseEdges, CloseStreams
<1>2. CASE WritePart(c)
  BY <1>2, WriteSomeEdges, WriteSomeStreams DEF WritePart
<1>3. CASE WriteAllKeep(c)
  BY <1>3, WriteAllKeepEdges, WriteAllKeepStreams
<1>4. CASE WriteBroken(c)
  BY <1>4, WriteBrokenEdges, LoopStreams
<1>. QED
  BY <1>1, <1>2, <1>3, <1>4 DEF DoWrite

LEMMA ReactorDelivery ==
    ASSUME TypeOK, Ownership, Edges, Streams, Reactor
    PROVE  Edges' /\ Streams'
<1>1. CASE EpollWait("wait") \/ DispatchAcceptor \/ RunOnDestroyed \/ \E f \in Fds : Dispatch(f)
  <2>1. Edges'
    BY <1>1, EpollWaitEdges, DispatchEdges, DispatchAcceptorEdges, RunOnDestroyedEdges
  <2>2. Streams'
    BY <1>1, LoopStreams
  <2>. QED
    BY <2>1, <2>2
<1>2. CASE Accept
  <2>1. Unserved
    BY DEF Streams
  <2>. QED
    BY <1>2, <2>1, AcceptEdges, AcceptStreams
<1>3. CASE \E c \in Conns : DoRead(c) \/ DoReadEnd(c) \/ DoWrite(c)
  BY <1>3, DoReadEdges, DoReadStreams, CloseEdges, CloseStreams, DoWriteDelivery
<1>. QED
  BY <1>1, <1>2, <1>3 DEF Reactor

LEMMA DeliveryStep ==
    TypeOK /\ Ownership /\ Edges /\ Streams /\ [Next]_vars => Edges' /\ Streams'
<1>. SUFFICES ASSUME TypeOK, Ownership, Edges, Streams, [Next]_vars
              PROVE  Edges' /\ Streams'
  OBVIOUS
<1>1. CASE Clients /\ Calm
  BY <1>1, ClientsEdges, ClientsStreams
<1>2. CASE Reactor /\ Calm
  BY <1>2, ReactorDelivery
<1>3. CASE TestRunning \/ EnterEpollWait \/ AcceptSleeps \/ AcceptBreaks \/ Sigterm
  BY <1>3, LoopDelivery
  DEF TestRunning, EnterEpollWait, AcceptSleeps, AcceptBreaks, AcceptFails, Sigterm, Asleep
<1>4. CASE AcceptThrows
  <2>. USE <1>4 DEF AcceptThrows, peerVars, httpVars
  <2>1. Unserved /\ at' # "event"
    BY DEF Streams
  <2>2. Edges'
    BY <2>1, NewConnectionEdges
  <2>3. Streams'
    BY NewConnectionStreams
  <2>. QED
    BY <2>2, <2>3
<1>5. CASE TakenByOther
  BY <1>5, TakenDelivery
<1>6. CASE UNCHANGED vars
  <2>. USE <1>6 DEF vars, peerVars, sockVars, pollVars, connVars, httpVars, loopVars
  <2>1. Edges'
    BY DEF Edges, HupRead, WatchesWhatItOwes, NoLostEdge, Noticed, Registered, Room
  <2>2. Streams'
    BY SameStreams
  <2>. QED
    BY <2>1, <2>2
<1>. QED
  BY <1>1, <1>2, <1>3, <1>4, <1>5, <1>6 DEF Next, Worker

LEMMA WorkerDelivery == Spec => [](Edges /\ Streams)
<1>1. WorkerInit => Edges /\ Streams
  BY InitEdges, InitStreams DEF WorkerInit
<1>2. WorkerTypeOK => TypeOK
  BY DEF WorkerTypeOK
<1>. QED
  BY <1>1, <1>2, WorkerOwnership, DeliveryStep, PTL DEF Spec

\* A worker loses no edge either, though SIGTERM may end epoll_wait or accept4 at any
\* point, and other workers take connections from the backlog it was woken for
\* (do_read, do_write, modify_fd, run, worker_signal_handler).
THEOREM WorkerKeepsEdges == Spec => [](WatchesWhatItOwes /\ NoLostEdge)
<1>1. Edges => WatchesWhatItOwes /\ NoLostEdge
  BY DEF Edges
<1>. QED
  BY WorkerDelivery, <1>1, PTL

\* However do_write's loop is cut by EAGAIN, the pieces of the replies arrive in order
\* (send, do_write).
THEOREM WorkerStreamIntact == Spec => []StreamIntact
<1>1. WorkerTypeOK /\ Streams => StreamIntact
  BY StreamsIntact DEF WorkerTypeOK
<1>. QED
  BY WorkerOwnership, WorkerDelivery, <1>1, PTL

\* A worker closes on a client that stays only after a reply that ends the connection,
\* and with every piece handed to the kernel, whether or not SIGTERM came (do_write,
\* handle_close).
THEOREM WorkerClosesAfterFlush == Spec => ClosesAfterFlush
<1>1. TypeOK /\ Ownership /\ Streams /\ [Next]_vars => ClosesProperly
  <2>. SUFFICES ASSUME TypeOK, Ownership, Streams, [Next]_vars PROVE ClosesProperly
    OBVIOUS
  <2>1. CASE \E c \in Conns : DoReadEnd(c) \/ WriteAllClose(c) \/ WriteReset(c)
    BY <2>1, CloseProperly
  <2>2. CASE ~\E c \in Conns : DoReadEnd(c) \/ WriteAllClose(c) \/ WriteReset(c)
    <3>1. CASE Accept \/ AcceptThrows
      <4>1. \E c \in Conns : life' = [life EXCEPT ![c] = "live"]
        BY <3>1 DEF Accept, AcceptThrows, NewConnection
      <4>. QED
        BY <4>1, OtherwiseProperly DEF TypeOK, ConnTypes
    <3>2. CASE ~(Accept \/ AcceptThrows)
      <4>1. UNCHANGED life
        BY <2>2, <3>2
        DEF Next, Clients, Worker, Reactor, Connect, SendRequest, SendHead, SendTail, Arrives,
            Fin, Rst, Receive, EpollWait, DispatchAcceptor, TestRunning, EnterEpollWait,
            AcceptSleeps, AcceptBreaks, Sigterm, TakenByOther, RunOnDestroyed, Dispatch, DoRead, DoWrite,
            WriteAllKeep, WritePart, WriteSome, WriteBroken, connVars, vars
      <4>. QED
        BY <4>1, OtherwiseProperly
    <3>. QED
      BY <3>1, <3>2
  <2>. QED
    BY <2>1, <2>2
<1>2. WorkerTypeOK /\ Ownership /\ Streams /\ [Next]_vars
          => [ClosesProperly]_<<life, output_buffer_>>
  BY <1>1 DEF WorkerTypeOK
<1>. QED
  BY WorkerOwnership, WorkerDelivery, <1>2, PTL DEF Spec, ClosesAfterFlush, ClosesProperly
-----------------------------------------------------------------------------
LEMMA NumbersStep ==
    TypeOK /\ Ownership /\ Numbers /\ [Next]_vars => Numbers'
<1>. SUFFICES ASSUME TypeOK, Ownership, Numbers, [Next]_vars PROVE Numbers'
  OBVIOUS
<1>1. CASE Clients
  BY <1>1, ClientsNumbers
<1>2. ASSUME Reactor PROVE Numbers'
  <2>1. CASE EpollWait("wait") \/ DispatchAcceptor \/ \E f \in Fds : Dispatch(f)
    BY <2>1, LoopNumbers
  <2>2. CASE Accept \/ RunOnDestroyed
    BY <2>2, AcceptNumbers, RunOnDestroyedNumbers
  <2>3. ASSUME NEW c \in Conns, DoRead(c) \/ DoReadEnd(c) \/ DoWrite(c) PROVE Numbers'
    BY <2>3, DoReadNumbers, CloseNumbers, LoopNumbers DEF DoWrite, WritePart
  <2>. QED
    BY <1>2, <2>1, <2>2, <2>3 DEF Reactor
<1>3. CASE \/ TestRunning \/ EnterEpollWait \/ AcceptSleeps \/ AcceptBreaks
           \/ Sigterm \/ TakenByOther \/ UNCHANGED vars
  BY <1>3, SameNumbers
  DEF TestRunning, EnterEpollWait, AcceptSleeps, AcceptBreaks, Sigterm, TakenByOther, vars, peerVars,
      sockVars, connVars, httpVars
<1>4. CASE AcceptThrows
  BY <1>4, NewConnectionNumbers DEF AcceptThrows, peerVars, httpVars
<1>. QED
  BY <1>1, <1>2, <1>3, <1>4 DEF Next, Worker

LEMMA WorkerNumbers == Spec => []Numbers
<1>1. WorkerTypeOK => TypeOK
  BY DEF WorkerTypeOK
<1>2. WorkerInit => Numbers
  BY InitNumbers DEF WorkerInit
<1>. QED
  BY WorkerOwnership, <1>1, <1>2, NumbersStep, PTL DEF Spec

LEMMA ServesStep ==
    TypeOK /\ Ownership /\ Streams /\ Numbers /\ [Next]_vars => [Service!Next]_(Service!vars)
<1>. SUFFICES ASSUME TypeOK, Ownership, Streams, Numbers, [Next]_vars
              PROVE  Service!Next \/ UNCHANGED Service!vars
  OBVIOUS
<1>1. CASE Clients
  BY <1>1, ClientsServes
<1>2. ASSUME Reactor PROVE Service!Next \/ UNCHANGED Service!vars
  <2>1. CASE EpollWait("wait") \/ DispatchAcceptor \/ RunOnDestroyed \/ \E f \in Fds : Dispatch(f)
    BY <2>1, LoopServes
  <2>2. CASE Accept
    BY <2>2, NewConnectionServes DEF Accept, peerVars, httpVars
  <2>3. ASSUME NEW c \in Conns, DoRead(c) \/ DoReadEnd(c) \/ DoWrite(c)
        PROVE  Service!Next \/ UNCHANGED Service!vars
    BY <2>3, DoReadServes, CloseServes, LoopServes DEF DoWrite, WritePart
  <2>. QED
    BY <1>2, <2>1, <2>2, <2>3 DEF Reactor
<1>3. CASE AcceptThrows
  BY <1>3, NewConnectionServes DEF AcceptThrows, peerVars, httpVars
<1>4. CASE \/ TestRunning \/ EnterEpollWait \/ AcceptSleeps \/ AcceptBreaks
           \/ Sigterm \/ TakenByOther \/ UNCHANGED vars
  BY <1>4, QuietServes
  DEF TestRunning, EnterEpollWait, AcceptSleeps, AcceptBreaks, Sigterm, TakenByOther, vars, peerVars,
      connVars, httpVars
<1>. QED
  BY <1>1, <1>2, <1>3, <1>4 DEF Next, Worker

\* A worker keeps the promise of HttpService too, for the connections it took: SIGTERM
\* and the other workers add nothing a client could see there (do_read, send,
\* do_write, handle_close, worker_signal_handler).
THEOREM WorkerImplementsService == Spec => ImplementsService
<1>1. WorkerTypeOK => TypeOK
  BY DEF WorkerTypeOK
<1>2. WorkerInit => Service!Init
  BY InitServes DEF WorkerInit
<1>. QED
  BY WorkerOwnership, WorkerDelivery, WorkerNumbers, <1>1, <1>2, ServesStep, PTL
  DEF Spec, ImplementsService, Service!Spec
-----------------------------------------------------------------------------
LEMMA DecisionsStep ==
    TypeOK /\ TypeOK' /\ Ownership /\ Numbers /\ Decisions /\ [Next]_vars => Decisions'
<1>. SUFFICES ASSUME TypeOK, TypeOK', Ownership, Numbers, Decisions, [Next]_vars
              PROVE  Decisions'
  OBVIOUS
<1>1. CASE \E c \in Conns : DoRead(c)
  BY <1>1, DoReadDecisions
<1>2. CASE Clients
  BY <1>2, SameDecisions
  DEF Clients, Connect, SendRequest, SendHead, SendTail, Arrives, Fin, Rst, Receive, httpVars,
      loopVars
<1>3. CASE \/ EpollWait("wait") \/ DispatchAcceptor \/ RunOnDestroyed \/ Accept
           \/ \E f \in Fds : Dispatch(f)
  BY <1>3, SameDecisions
  DEF EpollWait, DispatchAcceptor, RunOnDestroyed, Accept, Dispatch, httpVars
<1>4. CASE \/ TestRunning \/ EnterEpollWait \/ AcceptSleeps \/ AcceptBreaks \/ AcceptThrows
           \/ Sigterm \/ TakenByOther \/ UNCHANGED vars
  BY <1>4, SameDecisions
  DEF TestRunning, EnterEpollWait, AcceptSleeps, AcceptBreaks, AcceptThrows, Sigterm,
      TakenByOther, vars, httpVars, loopVars
<1>5. CASE \E c \in Conns : DoReadEnd(c) \/ DoWrite(c)
  <2>1. UNCHANGED <<resp, headers_>> /\ proc = "running"
    BY <1>5
    DEF DoReadEnd, DoWrite, WriteAllKeep, WriteAllClose, WriteAll, WritePart, WriteSome,
        WriteReset, WriteBroken, Handling, httpVars
  <2>. QED
    BY <2>1, SameDecisions
<1>. QED
  BY <1>1, <1>2, <1>3, <1>4, <1>5 DEF Next, Worker, Reactor

\* The decision of a worker, too, rests on the last Connection header of the
\* connection (handle_input, parse_request, prepare_response).
THEOREM WorkerLastHeader == Spec => []LastHeaderDecides
<1>1. WorkerTypeOK => TypeOK
  BY DEF WorkerTypeOK
<1>2. WorkerInit => Decisions
  BY InitDecisions DEF WorkerInit
<1>3. Spec => []Decisions
  BY WorkerOwnership, WorkerNumbers, <1>1, <1>2, DecisionsStep, PTL DEF Spec
<1>. QED
  BY WorkerOwnership, <1>1, <1>3, DecisionsDecide, PTL

LEMMA FarewellsStep ==
    ASSUME "pipeline" \notin PeerMoves
    PROVE  TypeOK /\ Ownership /\ Streams /\ Numbers /\ Farewells /\ [Next]_vars => Farewells'
<1>. SUFFICES ASSUME TypeOK, Ownership, Streams, Numbers, Farewells, [Next]_vars
              PROVE  Farewells'
  OBVIOUS
<1>1. CASE Clients
  BY <1>1, ClientsFarewells
<1>2. CASE \/ EpollWait("wait") \/ DispatchAcceptor \/ RunOnDestroyed
           \/ \E f \in Fds : Dispatch(f)
  BY <1>2, LoopFarewells
<1>3. CASE Accept \/ AcceptThrows
  BY <1>3, NewConnectionFarewells DEF Accept, AcceptThrows, peerVars, httpVars
<1>4. CASE \/ TestRunning \/ EnterEpollWait \/ AcceptSleeps \/ AcceptBreaks
           \/ Sigterm \/ TakenByOther \/ UNCHANGED vars
  BY <1>4, SameFarewells
  DEF TestRunning, EnterEpollWait, AcceptSleeps, AcceptBreaks, Sigterm, TakenByOther, vars, peerVars,
      sockVars, connVars, httpVars
<1>5. ASSUME NEW c \in Conns, DoRead(c) \/ DoReadEnd(c) \/ DoWrite(c) PROVE Farewells'
  BY <1>5, DoReadFarewells, CloseFarewells, WriteFarewells, LoopFarewells
  DEF DoWrite, WritePart
<1>. QED
  BY <1>1, <1>2, <1>3, <1>4, <1>5 DEF Next, Worker, Reactor

\* A worker whose clients do not pipeline closes where it said it would, whether or not
\* SIGTERM came (handle_input, do_write).
THEOREM WorkerClosesAsSaid ==
    ASSUME "pipeline" \notin PeerMoves
    PROVE  Spec => []NonKeepAliveCloses
<1>1. WorkerTypeOK => TypeOK
  BY DEF WorkerTypeOK
<1>2. WorkerInit => Farewells
  BY InitFarewells DEF WorkerInit
<1>3. Spec => []Farewells
  BY WorkerOwnership, WorkerDelivery, WorkerNumbers, <1>1, <1>2, FarewellsStep, PTL DEF Spec
<1>. QED
  BY <1>3, FarewellsClose, PTL
-----------------------------------------------------------------------------
(***************************************************************************)
(* The worker's life as its master sees it.  WorkerLife says where SIGTERM *)
(* and a wake-up take a worker; for the loop to go where it says, nothing  *)
(* may be left of a batch when the loop sleeps in epoll_wait, and no event *)
(* of the listening socket when it calls accept4 or sleeps there.          *)
(***************************************************************************)
Rests ==
    /\ at \in {"tested", "wait"} => BatchDone
    /\ at \in {"accept", "blocked"} => batch[Listen] = {}

\* A handler's step, or the dispatch of a connection's event.
InBatch ==
    /\ proc = "running" /\ at \in {"loop", "event", "destroyed"}
    /\ at = "loop" => ~BatchDone
    /\ at' \in {"loop", "event", "destroyed"} /\ batch'[Listen] = batch[Listen]

LEMMA PlaceOf ==
    /\ proc # "running" => Place = "dead"
    /\ proc = "running" =>
          /\ at = "accept" => Place = "serving"
          /\ at = "blocked" => Place = IF backlog = <<>> THEN "accept" ELSE "serving"
          /\ at \in {"tested", "wait"} => Place = at
          /\ at \notin {"accept", "blocked", "tested", "wait"} =>
                Place = IF batch[Listen] # {} THEN "serving"
                        ELSE IF at = "loop" /\ BatchDone THEN "loop" ELSE "draining"
  BY DEF Place

LEMMA PlaceAfter ==
    /\ proc' # "running" => Place' = "dead"
    /\ proc' = "running" =>
          /\ at' = "accept" => Place' = "serving"
          /\ at' = "blocked" => Place' = IF backlog' = <<>> THEN "accept" ELSE "serving"
          /\ at' \in {"tested", "wait"} => Place' = at'
          /\ at' \notin {"accept", "blocked", "tested", "wait"} =>
                Place' = IF batch'[Listen] # {} THEN "serving"
                         ELSE IF at' = "loop" /\ BatchDone' THEN "loop" ELSE "draining"
  BY DEF Place

LEMMA ListenApart == Listen \in Watched /\ Listen \notin Fds
  BY FdAssumption DEF Watched

\* What changes none of this does not move the worker.
LEMMA SamePlace ==
    ASSUME UNCHANGED <<proc, at, batch, backlog, running_>>
    PROVE  UNCHANGED Life!vars
  BY DEF Life!vars, Place, BatchDone

LEMMA InBatchLives ==
    ASSUME InBatch, Calm
    PROVE  Life!Next \/ UNCHANGED Life!vars
<1>1. Place = IF batch[Listen] # {} THEN "serving" ELSE "draining"
  BY PlaceOf DEF InBatch
<1>2. \/ Place' = "dead"
      \/ Place' = Place
      \/ Place = "draining" /\ Place' = "loop"
  BY <1>1, PlaceAfter DEF InBatch
<1>3. CASE Place' = "dead"
  BY <1>1, <1>3 DEF Calm, Life!Next, Life!Dies
<1>4. CASE Place' = Place
  BY <1>4 DEF Calm, Life!vars
<1>5. CASE Place = "draining" /\ Place' = "loop"
  BY <1>5 DEF Calm, Life!Next, Life!Step, Life!OwnStep
<1>. QED
  BY <1>2, <1>3, <1>4, <1>5

LEMMA ReactorInBatch ==
    ASSUME TypeOK,
           \/ RunOnDestroyed \/ \E f \in Fds : Dispatch(f)
           \/ \E c \in Conns : DoRead(c) \/ DoReadEnd(c) \/ DoWrite(c)
    PROVE  InBatch
<1>1. CASE RunOnDestroyed
  BY <1>1 DEF RunOnDestroyed, InBatch
<1>2. CASE \E f \in Fds : Dispatch(f)
  BY <1>2, ListenApart DEF Dispatch, InBatch, BatchDone, Watched, TypeOK, LoopTypes
<1>3. CASE \E c \in Conns : DoRead(c) \/ DoReadEnd(c) \/ DoWrite(c)
  BY <1>3
  DEF DoRead, DoReadEnd, DoWrite, WriteAllKeep, WriteAllClose, WritePart, WriteSome, WriteReset,
      WriteBroken, WriteAll, Handling, Handled, HandleClose, InBatch
<1>. QED
  BY <1>1, <1>2, <1>3

\* Connections come, and other workers take them.
LEMMA BacklogLives ==
    ASSUME proc = "running", UNCHANGED <<proc, at, batch>>, Calm
    PROVE  Life!Next \/ UNCHANGED Life!vars
<1>1. CASE at = "blocked"
  <2>1. Place \in {"accept", "serving"} /\ Place' \in {"accept", "serving"}
    BY <1>1, PlaceOf, PlaceAfter
  <2>2. CASE Place' = Place
    BY <2>2 DEF Calm, Life!vars
  <2>3. CASE Place = "accept" /\ Place' = "serving"
    BY <2>3 DEF Calm, Life!Next, Life!Wake, Life!Woken
  <2>4. CASE Place = "serving" /\ Place' = "accept"
    BY <2>4 DEF Calm, Life!Next, Life!Step, Life!OwnStep
  <2>. QED
    BY <2>1, <2>2, <2>3, <2>4
<1>2. CASE at # "blocked"
  <2>1. Place' = Place
    BY <1>2 DEF Place, BatchDone
  <2>. QED
    BY <2>1 DEF Calm, Life!vars
<1>. QED
  BY <1>1, <1>2

LEMMA WokenLives ==
    ASSUME TypeOK, EpollWait("wait"), Calm
    PROVE  Life!Next \/ UNCHANGED Life!vars
<1>1. PICK picked \in SUBSET ready :
          /\ batch' = [f \in Watched |-> IF f \in picked THEN Reported(f) ELSE {}]
          /\ at' = IF \E f \in picked : Reported(f) # {} THEN "loop" ELSE "wait"
  BY DEF EpollWait
<1>2. Place = "wait" /\ proc' = "running"
  BY PlaceOf DEF EpollWait
<1>3. CASE at' = "wait"
  <2>1. Place' = Place
    BY <1>2, <1>3, PlaceAfter
  <2>. QED
    BY <2>1 DEF Calm, Life!vars
<1>4. CASE at' = "loop"
  <2>1. PICK f \in picked : Reported(f) # {}
    BY <1>1, <1>4
  <2>2. f \in Watched /\ batch'[f] # {}
    BY <1>1, <2>1 DEF TypeOK, PollTypes
  <2>3. ~BatchDone'
    BY <2>2 DEF BatchDone
  <2>4. Place' \in {"serving", "draining"}
    BY <1>2, <1>4, <2>3, PlaceAfter
  <2>. QED
    BY <1>2, <2>4 DEF Calm, Life!Next, Life!Wake, Life!Woken
<1>. QED
  BY <1>1, <1>3, <1>4

\* The acceptor, and the test of running_.
LEMMA LoopLives ==
    ASSUME TypeOK, Rests,
           \/ (DispatchAcceptor \/ Accept) /\ Calm
           \/ TestRunning \/ EnterEpollWait \/ AcceptSleeps \/ AcceptBreaks \/ AcceptThrows
    PROVE  Life!Next \/ UNCHANGED Life!vars
<1>1. CASE DispatchAcceptor /\ Calm
  <2>1. Place = "serving" /\ Place' = "serving"
    BY <1>1, PlaceOf, PlaceAfter DEF DispatchAcceptor
  <2>. QED
    BY <1>1, <2>1 DEF Calm, Life!vars
<1>2. CASE Accept /\ Calm
  <2>1. Place = "serving" /\ Place' = "serving"
    BY <1>2, PlaceOf, PlaceAfter DEF Accept, AcceptMore, NewConnection
  <2>. QED
    BY <1>2, <2>1 DEF Calm, Life!vars
<1>3. CASE TestRunning
  <2>1. BatchDone /\ BatchDone' /\ batch[Listen] = {} /\ Calm
    BY <1>3, ListenApart DEF TestRunning, BatchDone
  <2>2. Place = "loop" /\ Place' = IF running_ THEN "tested" ELSE "dead"
    BY <1>3, <2>1, PlaceOf, PlaceAfter DEF TestRunning
  <2>. QED
    BY <2>1, <2>2 DEF Calm, Life!Next, Life!Step, Life!OwnStep, Life!Tested
<1>4. CASE EnterEpollWait
  <2>1. Place = "tested" /\ Place' = "wait"
    BY <1>4, PlaceOf, PlaceAfter DEF EnterEpollWait
  <2>. QED
    BY <1>4, <2>1 DEF EnterEpollWait, Calm, Life!Next, Life!Step, Life!OwnStep
<1>5. CASE AcceptBreaks
  <2>1. Place = "serving" /\ Place' \in {"loop", "draining"}
    BY <1>5, PlaceOf, PlaceAfter DEF AcceptBreaks, AcceptFails, Rests
  <2>. QED
    BY <1>5, <2>1 DEF AcceptBreaks, Calm, Life!Next, Life!Step, Life!OwnStep
<1>6. CASE AcceptThrows
  <2>1. Place = "serving" /\ Place' = "dead"
    BY <1>6, PlaceOf, PlaceAfter DEF AcceptThrows, NewConnection
  <2>. QED
    BY <1>6, <2>1 DEF AcceptThrows, Calm, Life!Next, Life!Dies
<1>7. CASE AcceptSleeps
  <2>1. Place = "serving" /\ Place' = "accept"
    BY <1>7, PlaceOf, PlaceAfter DEF AcceptSleeps, sockVars
  <2>. QED
    BY <1>7, <2>1 DEF AcceptSleeps, Calm, Life!Next, Life!Step, Life!OwnStep
<1>. QED
  BY <1>1, <1>2, <1>3, <1>4, <1>5, <1>6, <1>7

\* SIGTERM ends either sleep, and leaves the worker alone anywhere else.
LEMMA SigtermLives ==
    ASSUME TypeOK, Rests, Sigterm
    PROVE  Life!Sigterm
<1>1. /\ proc = "running" /\ running_ /\ running_' = FALSE /\ proc' = proc
      /\ batch' = batch /\ backlog' = backlog
      /\ at' = IF Asleep THEN "loop" ELSE at
      /\ at \in {"loop", "tested", "wait", "event", "accept", "blocked", "destroyed"}
      /\ at = "blocked" => backlog = <<>>
  BY DEF Sigterm, sockVars, TypeOK, LoopTypes
<1>2. BatchDone' = BatchDone
  BY <1>1 DEF BatchDone
<1>3. CASE at = "wait"
  <2>1. BatchDone /\ batch[Listen] = {}
    BY <1>3, ListenApart DEF Rests, BatchDone
  <2>2. Place = "wait" /\ Place' = "loop"
    BY <1>1, <1>2, <1>3, <2>1, PlaceOf, PlaceAfter DEF Asleep
  <2>. QED
    BY <1>1, <2>2 DEF Life!Sigterm, Life!LoopPlaces, Life!Interrupted
<1>4. CASE at = "blocked"
  <2>1. Place = "accept" /\ Place' \in {"loop", "draining"}
    BY <1>1, <1>2, <1>4, PlaceOf, PlaceAfter DEF Asleep, Rests
  <2>. QED
    BY <1>1, <2>1 DEF Life!Sigterm, Life!LoopPlaces, Life!Interrupted
<1>5. CASE ~Asleep
  <2>1. Place' = Place /\ Place \in {"loop", "tested", "serving", "draining"}
    BY <1>1, <1>2, <1>5, PlaceOf, PlaceAfter DEF Asleep
  <2>. QED
    BY <1>1, <2>1 DEF Life!Sigterm, Life!LoopPlaces, Life!Interrupted
<1>. QED
  BY <1>3, <1>4, <1>5 DEF Asleep

LEMMA RestsStep ==
    TypeOK /\ Rests /\ [Next]_vars => Rests'
<1>. SUFFICES ASSUME TypeOK, Rests, [Next]_vars PROVE Rests'
  OBVIOUS
<1>1. CASE Clients /\ Calm
  BY <1>1
  DEF Clients, Connect, SendRequest, SendHead, SendTail, Arrives, Fin, Rst, Receive, loopVars,
      Rests, BatchDone
<1>2. CASE EpollWait("wait")
  <2>1. PICK picked \in SUBSET ready :
            /\ batch' = [f \in Watched |-> IF f \in picked THEN Reported(f) ELSE {}]
            /\ at' = IF \E f \in picked : Reported(f) # {} THEN "loop" ELSE "wait"
    BY <1>2 DEF EpollWait
  <2>. QED
    BY <2>1 DEF Rests, BatchDone
<1>3. CASE DispatchAcceptor \/ Accept
  BY <1>3, ListenApart DEF DispatchAcceptor, Accept, AcceptMore, Rests, TypeOK, LoopTypes
<1>4. CASE InBatch
  BY <1>4 DEF InBatch, Rests
<1>5. CASE \/ TestRunning \/ EnterEpollWait \/ AcceptSleeps
           \/ AcceptBreaks \/ AcceptThrows \/ Sigterm
  BY <1>5
  DEF TestRunning, EnterEpollWait, AcceptSleeps, AcceptBreaks, AcceptThrows, Sigterm, Asleep,
      Rests, BatchDone
<1>6. CASE TakenByOther \/ UNCHANGED vars
  BY <1>6 DEF TakenByOther, vars, loopVars, Rests, BatchDone
<1>. QED
  BY <1>1, <1>2, <1>3, <1>4, <1>5, <1>6, ReactorInBatch DEF Next, Worker, Reactor

LEMMA LivesStep ==
    TypeOK /\ Rests /\ [Next]_vars => [Life!Next]_(Life!vars)
<1>. SUFFICES ASSUME TypeOK, Rests, [Next]_vars
              PROVE  Life!Next \/ UNCHANGED Life!vars
  OBVIOUS
<1>1. CASE (Clients \/ TakenByOther) /\ Calm
  BY <1>1, BacklogLives
  DEF Clients, Connect, SendRequest, SendHead, SendTail, Arrives, MayAsk, Fin, Rst, Receive,
      TakenByOther, loopVars
<1>2. CASE EpollWait("wait") /\ Calm
  BY <1>2, WokenLives
<1>3. CASE InBatch /\ Calm
  BY <1>3, InBatchLives
<1>4. CASE \/ (DispatchAcceptor \/ Accept) /\ Calm
           \/ TestRunning \/ EnterEpollWait \/ AcceptSleeps \/ AcceptBreaks \/ AcceptThrows
  BY <1>4, LoopLives
<1>5. CASE Sigterm
  BY <1>5, SigtermLives DEF Life!Next
<1>6. CASE UNCHANGED vars
  BY <1>6, SamePlace DEF vars, sockVars, loopVars
<1>. QED
  BY <1>1, <1>2, <1>3, <1>4, <1>5, <1>6, ReactorInBatch DEF Next, Worker, Reactor, TakenByOther

\* Towards its master a worker does nothing that WorkerLife does not have: the flag is
\* tested only between batches, an interrupted epoll_wait goes back to the test with
\* nothing left to handle, an interrupted accept4 leaves no accept behind in the batch
\* (run, handle_accept, worker_signal_handler).
THEOREM WorkerImplementsLife == Spec => ImplementsLife
<1>1. WorkerInit => Rests /\ Life!Init
  <2>. SUFFICES ASSUME WorkerInit PROVE Rests /\ Life!Init
    OBVIOUS
  <2>1. /\ at = "loop" /\ proc = "running" /\ batch = [f \in Watched |-> {}] /\ running_ = TRUE
    BY DEF WorkerInit, Init
  <2>2. BatchDone /\ batch[Listen] = {}
    BY <2>1, ListenApart DEF BatchDone
  <2>. QED
    BY <2>1, <2>2, PlaceOf DEF Rests, Life!Init
<1>2. WorkerTypeOK => TypeOK
  BY DEF WorkerTypeOK
<1>3. Spec => []Rests
  BY WorkerOwnership, <1>1, <1>2, RestsStep, PTL DEF Spec
<1>. QED
  BY WorkerOwnership, <1>1, <1>2, <1>3, LivesStep, PTL DEF Spec, ImplementsLife, Life!Spec
=============================================================================

---------------------------- MODULE DeliveryProofs ----------------------------
(***************************************************************************)
(* One lemma per action of EpollReactor: what the event loop owes its      *)
(* clients.  No edge is lost, nothing is left unwatched, and the bytes of  *)
(* the replies stay in order on their way through the buffers.             *)
(*                                                                         *)
(* NoLostEdge needs WatchesWhatItOwes, because the kernel queues only the  *)
(* descriptors that are registered for an event, and both need Ownership.  *)
(* HangupIsRead needs to know that a peer whose hang-up was reported is    *)
(* still gone when handle_event comes to test for it (HupRead).            *)
(***************************************************************************)
EXTENDS OwnershipProofs

USE FdAssumption, ConnAssumption, RequestAssumption, BoundAssumption

\* The connection in the handler: who it is in the table, the map and the batch.
LEMMA HandlingOwner ==
    ASSUME TypeOK, Ownership, NEW c \in Conns, NEW e, Handling(c, e)
    PROVE  /\ fd_[c] \in Fds /\ fdt[fd_[c]] = c /\ life[c] = "live"
           /\ batch[fd_[c]] = {} /\ c # NoConn
           /\ at = "event" /\ cur = c /\ e \in evs /\ proc = "running"
           /\ \A g \in Fds : fdt[g] = c => g = fd_[c]
  BY DEF Handling, Ownership, Coherent, EventsHaveOwners

\* handle_close leaves no other owner behind.
LEMMA HandleCloseEffect ==
    ASSUME TypeOK, Ownership, NEW c \in Conns, NEW e, Handling(c, e), HandleClose(c)
    PROVE  /\ life' = [life EXCEPT ![c] = "destroyed"]
           /\ fdt'[fd_[c]] = NoConn /\ epi'[fd_[c]] = {}
           /\ \A g \in Fds \ {fd_[c]} :
                 /\ fdt'[g] = fdt[g] /\ fdt[g] # c
                 /\ epi'[g] = epi[g]
                 /\ g \in ready => g \in ready'
           /\ at' = "destroyed"
           /\ UNCHANGED <<batch, cur, backlog, peer, asked, asking, rcvd>>
<1>. DEFINE f == fd_[c]
<1>1. f \in Fds /\ fdt[f] = c /\ \A g \in Fds : fdt[g] = c => g = f
  BY HandlingOwner
<1>2. /\ callbacks_' = [callbacks_ EXCEPT ![f] = NoConn]
      /\ fdt' = [fdt EXCEPT ![f] = NoConn] /\ epi' = [epi EXCEPT ![f] = {}]
      /\ ready' = ready \ {f} /\ at' = "destroyed"
      /\ UNCHANGED <<batch, cur, backlog, peer, asked, asking, rcvd>>
      /\ life' = [life EXCEPT ![c] =
                     IF \E g \in Fds : callbacks_'[g] = c THEN @ ELSE "destroyed"]
  BY DEF HandleClose, Erased, peerVars
<1>3. \A g \in Fds : callbacks_'[g] # c
  BY <1>1, <1>2 DEF Ownership, Coherent, TypeOK, ConnTypes
<1>4. life' = [life EXCEPT ![c] = "destroyed"]
  BY <1>2, <1>3
<1>. HIDE DEF f
<1>5. \A g \in Fds : /\ fdt'[g] = IF g = f THEN NoConn ELSE fdt[g]
                     /\ epi'[g] = IF g = f THEN {} ELSE epi[g]
  BY <1>1, <1>2 DEF TypeOK, PollTypes
<1>. QED
  BY <1>1, <1>2, <1>4, <1>5 DEF f
-----------------------------------------------------------------------------
(***************************************************************************)
(* Frames: a step that touches only some descriptors' connections.         *)
(***************************************************************************)
\* WatchesWhatItOwes, of one descriptor.
WatchesFd(f) ==
    IF Registered(f)
    THEN epi[f] = IF output_buffer_[fdt[f]] = <<>> THEN {"IN"} ELSE {"IN", "OUT"}
    ELSE "add" \in Faults /\ resp[fdt[f]] = <<>>

\* NoLostEdge, of one descriptor.
KeepsEdges(f) ==
    LET c == fdt[f]
    IN  /\ inq[c] # <<>> \/ peer[c] # "up" => Noticed(f, "IN")
        /\ output_buffer_[c] # <<>> /\ Room(c) > 0 => Noticed(f, "OUT")

\* The events reported for a reset peer, and the peer, still there to be read.
HupRead ==
    /\ \A f \in Fds : "HUP" \in batch[f] => "IN" \in batch[f] /\ peer[fdt[f]] \in Reset
    /\ at = "event" => cur \in Conns
    /\ at = "event" /\ "HUP" \in evs => "IN" \in evs /\ peer[cur] \in Reset

Edges == WatchesWhatItOwes /\ NoLostEdge /\ HupRead

\* A connection that has no object here has nothing on its way.
Unserved ==
    \A c \in Conns : life[c] = "none" =>
        /\ output_buffer_[c] = <<>> /\ resp[c] = <<>>
        /\ sndq[c] = <<>> /\ rcvd[c] = <<>>

LEMMA WatchesFrame ==
    ASSUME WatchesWhatItOwes, proc = "running", NEW F,
           \A f \in Fds \ F : fdt'[f] # NoConn =>
               /\ fdt'[f] = fdt[f] /\ epi'[f] = epi[f]
               /\ output_buffer_'[fdt[f]] = output_buffer_[fdt[f]]
               /\ resp'[fdt[f]] = resp[fdt[f]],
           proc' = "running" => \A f \in Fds \cap F : fdt'[f] # NoConn => WatchesFd(f)'
    PROVE  WatchesWhatItOwes'
<1>. SUFFICES ASSUME proc' = "running", NEW f \in Fds, fdt'[f] # NoConn
              PROVE  WatchesFd(f)'
  BY DEF WatchesWhatItOwes, WatchesFd, Registered
<1>1. CASE f \in F
  BY <1>1
<1>2. CASE f \notin F
  <2>1. WatchesFd(f)
    BY <1>2 DEF WatchesWhatItOwes, WatchesFd, Registered
  <2>2. /\ fdt'[f] = fdt[f] /\ epi'[f] = epi[f]
        /\ output_buffer_'[fdt[f]] = output_buffer_[fdt[f]]
        /\ resp'[fdt[f]] = resp[fdt[f]]
    BY <1>2
  <2>. QED
    BY <2>1, <2>2 DEF WatchesFd, Registered
<1>. QED
  BY <1>1, <1>2

LEMMA EdgesFrame ==
    ASSUME NoLostEdge, NEW F,
           \A f \in Fds \ F : epi'[f] # {} =>
               /\ fdt'[f] = fdt[f] /\ epi[f] # {}
               /\ inq'[fdt[f]] = inq[fdt[f]] /\ sndq'[fdt[f]] = sndq[fdt[f]]
               /\ peer'[fdt[f]] = peer[fdt[f]]
               /\ output_buffer_'[fdt[f]] = output_buffer_[fdt[f]]
               /\ \A e \in {"IN", "OUT"} : Noticed(f, e) => Noticed(f, e)',
           \A f \in Fds \cap F : epi'[f] # {} => KeepsEdges(f)'
    PROVE  NoLostEdge'
<1>. SUFFICES ASSUME NEW f \in Fds, epi'[f] # {}
              PROVE  KeepsEdges(f)'
  BY DEF NoLostEdge, KeepsEdges, Registered
<1>1. CASE f \in F
  BY <1>1
<1>2. CASE f \notin F
  <2>1. /\ fdt'[f] = fdt[f] /\ epi[f] # {}
        /\ inq'[fdt[f]] = inq[fdt[f]] /\ sndq'[fdt[f]] = sndq[fdt[f]]
        /\ peer'[fdt[f]] = peer[fdt[f]]
        /\ output_buffer_'[fdt[f]] = output_buffer_[fdt[f]]
        /\ \A e \in {"IN", "OUT"} : Noticed(f, e) => Noticed(f, e)'
    BY <1>2
  <2>2. KeepsEdges(f)
    BY <2>1 DEF NoLostEdge, KeepsEdges, Registered
  <2>. QED
    BY <2>1, <2>2 DEF KeepsEdges, Room
<1>. QED
  BY <1>1, <1>2

\* No connection with a registered descriptor is touched.
LEMMA SameEdges ==
    ASSUME NoLostEdge,
           \A f \in Fds : epi'[f] # {} =>
               /\ fdt'[f] = fdt[f] /\ epi[f] # {}
               /\ inq'[fdt[f]] = inq[fdt[f]] /\ sndq'[fdt[f]] = sndq[fdt[f]]
               /\ peer'[fdt[f]] = peer[fdt[f]]
               /\ output_buffer_'[fdt[f]] = output_buffer_[fdt[f]]
               /\ \A e \in {"IN", "OUT"} : Noticed(f, e) => Noticed(f, e)'
    PROVE  NoLostEdge'
<1>. DEFINE F == {}
<1>1. Fds \ F = Fds /\ Fds \cap F = {}
  OBVIOUS
<1>. HIDE DEF F
<1>. QED
  BY <1>1, EdgesFrame

LEMMA SameHups ==
    ASSUME TypeOK, Ownership, HupRead, UNCHANGED <<fdt, batch, cur, evs, at>>,
           \A d \in Conns : peer[d] \in Reset => peer'[d] \in Reset
    PROVE  HupRead'
<1>1. \A f \in Fds : batch[f] # {} => fdt[f] \in Conns
  BY DEF TypeOK, PollTypes, Ownership, EventsHaveOwners
<1>. QED
  BY <1>1 DEF HupRead

\* A step of the thread alone, outside handle_event or a fault in it.
LEMMA ThreadEdges ==
    ASSUME TypeOK, Ownership, Edges, proc = "running",
           \A f \in Fds : batch'[f] = batch[f],
           at = "event" => UNCHANGED <<at, cur, evs>>,
           at' = "event" => at = "event",
           UNCHANGED <<fdt, epi, ready, peer, inq, sndq, fd_, output_buffer_, resp>>
    PROVE  Edges'
<1>. USE DEF Edges
<1>1. WatchesWhatItOwes'
  BY WatchesFrame
<1>2. \A f \in Fds : \A e \in {"IN", "OUT"} : Noticed(f, e) => Noticed(f, e)'
  BY DEF Noticed
<1>3. NoLostEdge'
  BY <1>2, SameEdges
<1>4. HupRead'
  BY DEF HupRead
<1>. QED
  BY <1>1, <1>3, <1>4
-----------------------------------------------------------------------------
(***************************************************************************)
(* The clients.                                                            *)
(***************************************************************************)
LEMMA SameWatches ==
    ASSUME WatchesWhatItOwes, proc = "running",
           UNCHANGED <<fdt, epi, output_buffer_, resp>>
    PROVE  WatchesWhatItOwes'
  BY WatchesFrame

LEMMA ConnectEdges ==
    ASSUME TypeOK, Ownership, Edges, NEW c \in Conns, Connect(c)
    PROVE  Edges'
<1>. USE DEF Edges, Connect, connVars, httpVars, loopVars
<1>1. \A f \in Fds : epi[f] # {} \/ batch[f] # {} => fdt[f] \in Conns /\ fdt[f] # c
  BY DEF Ownership, RegisteredOpen, EventsHaveOwners, Coherent, BacklogFresh, TypeOK, PollTypes
<1>2. \A d \in Conns : d # c => peer'[d] = peer[d]
  BY DEF TypeOK, PeerTypes
<1>3. WatchesWhatItOwes'
  BY SameWatches
<1>4. \A f \in Fds : \A e \in {"IN", "OUT"} : Noticed(f, e) => Noticed(f, e)'
  BY DEF Noticed
<1>5. NoLostEdge'
  BY <1>1, <1>2, <1>4, SameEdges
<1>6. HupRead'
  BY <1>2, SameHups DEF Reset
<1>. QED
  BY <1>3, <1>5, <1>6

\* What happens to one connection wakes its descriptor, which is registered for
\* EPOLLIN if it is registered at all.
LEMMA WakeEdges ==
    ASSUME TypeOK, Ownership, Edges, proc = "running", NEW c \in Conns,
           ready' = Wake(c, "IN"),
           UNCHANGED <<fdt, epi, batch, cur, evs, at, fd_, output_buffer_, resp>>,
           \A d \in Conns : /\ peer[d] \in Reset => peer'[d] \in Reset
                            /\ d # c => /\ inq'[d] = inq[d] /\ sndq'[d] = sndq[d]
                                        /\ peer'[d] = peer[d]
    PROVE  Edges'
<1>. USE DEF Edges
<1>. DEFINE F == {f \in Fds : fdt[f] = c}
<1>1. WatchesWhatItOwes'
  BY SameWatches
<1>2. \A f \in Fds : epi[f] # {} => fdt[f] \in Conns /\ "IN" \in epi[f]
  BY DEF Ownership, RegisteredOpen, WatchesWhatItOwes, Registered, TypeOK, PollTypes
<1>3. \A f \in F : epi'[f] # {} => f \in ready'
  BY <1>2 DEF Wake
<1>4. \A f \in Fds : \A e \in {"IN", "OUT"} : Noticed(f, e) => Noticed(f, e)'
  BY DEF Noticed, Wake
<1>5. NoLostEdge'
  <2>1. \A f \in Fds \cap F : epi'[f] # {} => KeepsEdges(f)'
    BY <1>3 DEF KeepsEdges, Noticed
  <2>2. \A f \in Fds \ F : epi'[f] # {} => fdt[f] \in Conns /\ fdt[f] # c
    BY <1>2
  <2>. HIDE DEF F
  <2>. QED
    BY <1>4, <2>1, <2>2, EdgesFrame
<1>6. HupRead'
  BY SameHups
<1>. QED
  BY <1>1, <1>5, <1>6

LEMMA ArrivesEdges ==
    ASSUME TypeOK, Ownership, Edges, NEW c \in Conns, NEW tokens, Arrives(c, tokens),
           proc = "running"
    PROVE  Edges'
<1>. USE DEF Arrives, connVars, httpVars, loopVars
<1>1. \A d \in Conns : d # c => inq'[d] = inq[d]
  BY DEF TypeOK, SockTypes
<1>. QED
  BY <1>1, WakeEdges

LEMMA LeaveEdges ==
    ASSUME TypeOK, Ownership, Edges, NEW c \in Conns, Fin(c) \/ Rst(c)
    PROVE  Edges'
<1>. USE DEF Fin, Rst, connVars, httpVars, loopVars, sockVars
<1>1. \A d \in Conns : /\ peer[d] \in Reset => peer'[d] \in Reset
                       /\ d # c => sndq'[d] = sndq[d] /\ peer'[d] = peer[d]
  BY DEF TypeOK, SockTypes, PeerTypes, Reset
<1>. QED
  BY <1>1, WakeEdges

\* A full send buffer makes room: the socket is registered for EPOLLOUT if there is
\* output for it.
LEMMA ReceiveEdges ==
    ASSUME TypeOK, Ownership, Edges, NEW c \in Conns, Receive(c)
    PROVE  Edges'
<1>. USE DEF Edges, Receive, connVars, httpVars, loopVars
<1>. DEFINE F == {f \in Fds : fdt[f] = c}
<1>1. WatchesWhatItOwes'
  BY SameWatches
<1>2. \A f \in Fds : epi[f] # {} =>
          /\ fdt[f] \in Conns
          /\ output_buffer_[fdt[f]] # <<>> => "OUT" \in epi[f]
  BY DEF Ownership, RegisteredOpen, WatchesWhatItOwes, Registered, TypeOK, PollTypes
<1>3. /\ sndq[c] \in Seq(Nat) /\ sndq[c] # <<>>
      /\ \A d \in Conns : sndq'[d] = IF d = c THEN Tail(sndq[c]) ELSE sndq[d]
  BY DEF TypeOK, SockTypes
<1>4. Len(sndq[c]) \in Nat /\ Len(sndq'[c]) = Len(sndq[c]) - 1
  BY <1>3, HeadTailProperties, LenProperties
<1>5. \A f \in Fds : \A e \in {"IN", "OUT"} : Noticed(f, e) => Noticed(f, e)'
  BY DEF Noticed, Wake
<1>6. ASSUME NEW f \in Fds \cap F, epi'[f] # {}
      PROVE  KeepsEdges(f)'
  <2>1. KeepsEdges(f)
    BY <1>6 DEF NoLostEdge, Registered, KeepsEdges
  <2>2. inq'[c] # <<>> \/ peer'[c] # "up" => Noticed(f, "IN")'
    BY <1>5, <2>1 DEF KeepsEdges
  <2>3. ASSUME output_buffer_'[c] # <<>>, Room(c)' > 0
        PROVE  Noticed(f, "OUT")'
    <3>1. CASE Len(sndq[c]) = SndCap
      <4>1. f \in ready'
        BY <1>2, <1>6, <2>3, <3>1 DEF Wake
      <4>. QED
        BY <4>1 DEF Noticed
    <3>2. CASE Len(sndq[c]) # SndCap
      <4>1. Room(c) > 0
        BY <1>4, <2>3, <3>2 DEF Room
      <4>. QED
        BY <1>5, <2>1, <2>3, <4>1 DEF KeepsEdges
    <3>. QED
      BY <3>1, <3>2
  <2>. QED
    BY <2>2, <2>3 DEF KeepsEdges
<1>7. NoLostEdge'
  <2>1. \A f \in Fds \ F : epi'[f] # {} => fdt[f] \in Conns /\ fdt[f] # c
    BY <1>2
  <2>. HIDE DEF F
  <2>. QED
    BY <1>3, <1>5, <1>6, <2>1, EdgesFrame
<1>8. HupRead'
  BY SameHups
<1>. QED
  BY <1>1, <1>7, <1>8

LEMMA ClientsEdges ==
    ASSUME TypeOK, Ownership, Edges, Clients
    PROVE  Edges'
<1>. PICK c \in Conns :
        \/ Connect(c)
        \/ \E r \in Requests : SendRequest(c, r) \/ SendHead(c, r)
        \/ SendTail(c)
        \/ Fin(c)
        \/ Rst(c)
        \/ Receive(c)
  BY DEF Clients
<1>1. CASE \E r \in Requests : SendRequest(c, r) \/ SendHead(c, r)
  BY <1>1, ArrivesEdges DEF SendRequest, SendHead, MayAsk
<1>2. CASE SendTail(c)
  BY <1>2, ArrivesEdges DEF SendTail
<1>. QED
  BY <1>1, <1>2, ConnectEdges, LeaveEdges, ReceiveEdges
-----------------------------------------------------------------------------
(***************************************************************************)
(* The loop and the acceptor.                                              *)
(***************************************************************************)
\* What epoll_wait reports of a registered descriptor with something to do.
LEMMA ReportedEdges ==
    ASSUME TypeOK, Ownership, WatchesWhatItOwes, proc = "running",
           NEW f \in Fds, epi[f] # {}
    PROVE  /\ fdt[f] \in Conns
           /\ inq[fdt[f]] # <<>> \/ peer[fdt[f]] # "up" => "IN" \in Reported(f)
           /\ output_buffer_[fdt[f]] # <<>> /\ Room(fdt[f]) > 0 => "OUT" \in Reported(f)
           /\ "HUP" \in Reported(f) => peer[fdt[f]] \in Reset /\ "IN" \in Reported(f)
<1>. DEFINE c == fdt[f]
<1>1. c \in Conns /\ f # Listen
  BY DEF TypeOK, PollTypes, Ownership, RegisteredOpen
<1>2. "IN" \in epi[f] /\ (output_buffer_[c] # <<>> => "OUT" \in epi[f])
  BY <1>1 DEF WatchesWhatItOwes, Registered
<1>3. Reported(f) = Polled(inq[c], sndq[c], peer[c]) \cap (epi[f] \cup {"HUP"})
  BY <1>1 DEF Reported
<1>4. Len(sndq[c]) \in Nat
  BY <1>1 DEF TypeOK, SockTypes
<1>. HIDE DEF c
<1>5. Room(c) > 0 => Len(sndq[c]) < SndCap
  BY <1>4 DEF Room
<1>6. /\ inq[c] # <<>> \/ peer[c] # "up" => "IN" \in Reported(f)
      /\ "HUP" \in Reported(f) => peer[c] \in Reset /\ "IN" \in Reported(f)
  BY <1>2, <1>3 DEF Polled, Events, Reset
<1>7. output_buffer_[c] # <<>> /\ Room(c) > 0 => "OUT" \in Reported(f)
  BY <1>2, <1>3, <1>5 DEF Polled, Events
<1>. QED
  BY <1>1, <1>6, <1>7 DEF c

LEMMA EpollWaitEdges ==
    ASSUME TypeOK, Ownership, Edges, NEW from \in {"loop", "wait"}, EpollWait(from)
    PROVE  Edges'
<1>. USE DEF Edges, peerVars, sockVars, connVars, httpVars
<1>1. PICK picked \in SUBSET ready :
          /\ batch' = [f \in Watched |-> IF f \in picked THEN Reported(f) ELSE {}]
          /\ ready' = ready \ picked
  BY DEF EpollWait
<1>2. /\ at = from /\ proc = "running" /\ at' \in {"loop", "wait"}
      /\ \A f \in Fds : batch[f] = {}
      /\ UNCHANGED <<fdt, epi, cur, evs, proc, peerVars, sockVars, connVars, httpVars>>
  BY DEF EpollWait, Watched
<1>3. \A f \in Fds : batch'[f] = IF f \in picked THEN Reported(f) ELSE {}
  BY <1>1 DEF Watched
<1>4. WatchesWhatItOwes'
  BY <1>2, SameWatches
<1>5. ASSUME NEW f \in Fds \cap Fds, epi'[f] # {}
      PROVE  KeepsEdges(f)'
  <2>1. KeepsEdges(f)
    BY <1>2, <1>5 DEF NoLostEdge, Registered, KeepsEdges
  <2>2. UNCHANGED <<inq[fdt[f]], peer[fdt[f]], output_buffer_[fdt[f]], Room(fdt[f])>> /\ fdt' = fdt
    BY <1>2 DEF Room
  <2>3. CASE f \in picked
    BY <1>2, <1>3, <1>5, <2>2, <2>3, ReportedEdges DEF KeepsEdges, Noticed
  <2>4. CASE f \notin picked
    BY <1>1, <1>2, <2>1, <2>2, <2>4 DEF KeepsEdges, Noticed
  <2>. QED
    BY <2>3, <2>4
<1>6. NoLostEdge'
  <2>1. Fds \ Fds = {}
    OBVIOUS
  <2>. QED
    BY <1>5, <2>1, EdgesFrame
<1>7. HupRead'
  <2>1. \A f \in Fds : f \in picked => epi[f] # {}
    BY DEF Ownership, RegisteredOpen
  <2>. QED
    BY <1>2, <1>3, <2>1, ReportedEdges DEF HupRead
<1>. QED
  BY <1>4, <1>6, <1>7

LEMMA DispatchEdges ==
    ASSUME TypeOK, Ownership, Edges, NEW f \in Fds, Dispatch(f)
    PROVE  Edges'
<1>. USE DEF Edges, Dispatch, peerVars, sockVars, connVars, httpVars, pollVars
<1>1. callbacks_[f] = fdt[f] /\ fdt[f] \in Conns /\ fd_[fdt[f]] = f
  BY DEF Ownership, EventsHaveOwners, Coherent, TypeOK, PollTypes
<1>2. cur' = fdt[f] /\ evs' = batch[f] /\ at' = "event" /\ at = "loop"
  BY <1>1
<1>3. \A g \in Fds : batch'[g] = IF g = f THEN {} ELSE batch[g]
  BY DEF TypeOK, LoopTypes, Watched
<1>4. WatchesWhatItOwes'
  BY SameWatches
<1>5. \A g \in Fds : \A e \in {"IN", "OUT"} : Noticed(g, e) => Noticed(g, e)'
  BY <1>1, <1>2, <1>3 DEF Noticed
<1>6. NoLostEdge'
  BY <1>5, SameEdges
<1>7. HupRead'
  BY <1>1, <1>2, <1>3 DEF HupRead
<1>. QED
  BY <1>4, <1>6, <1>7

LEMMA DispatchAcceptorEdges ==
    ASSUME TypeOK, Ownership, Edges, DispatchAcceptor
    PROVE  Edges'
<1>1. \A f \in Fds : batch'[f] = batch[f]
  BY DEF DispatchAcceptor, TypeOK, LoopTypes, Watched
<1>. QED
  BY <1>1, ThreadEdges DEF DispatchAcceptor, peerVars, sockVars, connVars, httpVars, pollVars

LEMMA RunOnDestroyedEdges ==
    ASSUME TypeOK, Ownership, Edges, RunOnDestroyed
    PROVE  Edges'
  BY ThreadEdges DEF RunOnDestroyed, peerVars, sockVars, connVars, pollVars

LEMMA WriteBrokenEdges ==
    ASSUME TypeOK, Ownership, Edges, NEW c \in Conns, WriteBroken(c)
    PROVE  Edges'
  BY ThreadEdges DEF WriteBroken, Handling, peerVars, sockVars, connVars, pollVars, httpVars

\* The new descriptor was free, its connection has nothing to send, and adding it
\* polls the socket for what arrived before.
LEMMA NewConnectionEdges ==
    ASSUME TypeOK, Ownership, Unserved, Edges,
           NEW c \in Conns, NEW f \in Fds, NEW registered \in BOOLEAN,
           NewConnection(c, f, registered), ~registered => "add" \in Faults,
           at \in {"accept", "blocked"}, at' # "event", proc = "running",
           UNCHANGED <<batch, peer, inq, sndq, output_buffer_, resp>>
    PROVE  Edges'
<1>. USE DEF Edges, NewConnection
<1>1. backlog # <<>> /\ c = Head(backlog) /\ fdt[f] = NoConn /\ epi[f] = {} /\ batch[f] = {}
  BY DEF LowestFree, FreeFds, Ownership, RegisteredOpen, EventsHaveOwners
<1>2. life[c] = "none"
  <2>1. 1 \in DOMAIN backlog /\ backlog[1] = c
    BY <1>1, HeadTailProperties, LenProperties DEF TypeOK, SockTypes
  <2>. QED
    BY <2>1 DEF Ownership, BacklogFresh
<1>3. output_buffer_[c] = <<>> /\ resp[c] = <<>>
  BY <1>2 DEF Unserved
<1>4. \A g \in Fds : /\ fdt'[g] = IF g = f THEN c ELSE fdt[g]
                     /\ epi'[g] = IF g = f /\ registered THEN {"IN"} ELSE epi[g]
                     /\ batch'[g] = batch[g] /\ (g \in ready => g \in ready')
  BY DEF TypeOK, PollTypes, Repolled
<1>5. WatchesWhatItOwes'
  <2>. DEFINE F == {f}
  <2>1. WatchesFd(f)'
    BY <1>1, <1>3, <1>4 DEF WatchesFd, Registered
  <2>2. \A g \in Fds \ F : fdt'[g] = fdt[g] /\ epi'[g] = epi[g]
    BY <1>4
  <2>3. \A g \in Fds \cap F : g = f
    OBVIOUS
  <2>. HIDE DEF F
  <2>. QED
    BY <2>1, <2>2, <2>3, WatchesFrame
<1>6. NoLostEdge'
  <2>. DEFINE F == {f}
  <2>1. epi'[f] # {} => KeepsEdges(f)'
    <3>. SUFFICES ASSUME registered PROVE KeepsEdges(f)'
      BY <1>1, <1>4
    <3>1. inq[c] # <<>> \/ peer[c] # "up" => f \in ready'
      BY DEF Repolled, Polled, Events
    <3>. QED
      BY <1>3, <1>4, <3>1 DEF KeepsEdges, Noticed
  <2>2. \A g \in Fds \ F :
            /\ fdt'[g] = fdt[g] /\ epi'[g] = epi[g]
            /\ \A e \in {"IN", "OUT"} : Noticed(g, e) => Noticed(g, e)'
    BY <1>4 DEF Noticed
  <2>3. \A g \in Fds \cap F : g = f
    OBVIOUS
  <2>. HIDE DEF F
  <2>. QED
    BY <2>1, <2>2, <2>3, EdgesFrame
<1>7. HupRead'
  BY <1>1, <1>4 DEF HupRead
<1>. QED
  BY <1>5, <1>6, <1>7

LEMMA AcceptEdges ==
    ASSUME TypeOK, Ownership, Unserved, Edges, Accept
    PROVE  Edges'
  BY NewConnectionEdges DEF Accept, AcceptMore, peerVars, httpVars
-----------------------------------------------------------------------------
(***************************************************************************)
(* handle_event and what it calls.                                         *)
(***************************************************************************)
LEMMA ModifyFdEffect ==
    ASSUME TypeOK, NEW f \in Fds, NEW interest, NEW polled, ModifyFd(f, interest, polled)
    PROVE  /\ epi'[f] = IF epi[f] # {} THEN interest ELSE {}
           /\ epi[f] = {} => proc' = "threw"
           /\ \A g \in Fds : g # f => epi'[g] = epi[g]
           /\ \A g \in Fds : g \in ready => g \in ready'
           /\ epi[f] # {} /\ polled \cap interest # {} => f \in ready'
  BY DEF TypeOK, PollTypes, ModifyFd, Registered, Repolled, CtlOutcome

\* Only the connection in the handler is touched.
LEMMA OthersNoticed ==
    ASSUME TypeOK, Ownership, NEW c \in Conns, NEW e, Handling(c, e),
           \A g \in Fds : g # fd_[c] => (g \in ready => g \in ready') /\ batch'[g] = batch[g]
    PROVE  \A g \in Fds \ {fd_[c]} : \A d \in {"IN", "OUT"} : Noticed(g, d) => Noticed(g, d)'
  BY HandlingOwner DEF Noticed

\* The handler of one event returns: the rest of the events is still to be tested.
LEMMA HandledKeeps ==
    ASSUME TypeOK, Ownership, HupRead, NEW c \in Conns, NEW e \in {"IN", "OUT"},
           Handling(c, e), Handled(e),
           UNCHANGED <<fdt, fd_, peer>>, e = "IN" => peer[c] \notin Reset,
           fd_[c] \in ready => fd_[c] \in ready'
    PROVE  /\ HupRead'
           /\ \A d \in {"IN", "OUT"} : d # e /\ Noticed(fd_[c], d) => Noticed(fd_[c], d)'
<1>1. at = "event" /\ cur = c /\ e \in evs /\ batch' = batch /\ evs' = evs \ {e}
  BY DEF Handling, Handled
<1>2. at' = "event" => cur' = c
  BY <1>1 DEF Handled
<1>3. HupRead'
  BY <1>1, <1>2 DEF HupRead, Handling
<1>4. ASSUME NEW d \in {"IN", "OUT"}, d # e, Noticed(fd_[c], d)
      PROVE  Noticed(fd_[c], d)'
  <2>1. CASE d \in evs
    <3>1. evs # {e} /\ at' = "event" /\ cur' = c /\ d \in evs'
      BY <1>1, <1>4, <2>1 DEF Handled
    <3>. QED
      BY <3>1 DEF Noticed
  <2>2. CASE d \notin evs
    BY <1>1, <1>4, <2>2 DEF Noticed
  <2>. QED
    BY <2>1, <2>2
<1>. QED
  BY <1>3, <1>4

\* What handle_input does to the output, the replies and the registration.
LEMMA HandleInputEffect ==
    ASSUME TypeOK, NEW c \in Conns, NEW buf, HandleInput(c, buf)
    PROVE  \/ /\ UNCHANGED <<output_buffer_, resp, epi, ready>>
              /\ proc' = proc \/ proc' = "threw"
           \/ \E reply : Send(c, reply)
<1>1. CASE HandleIncomplete(c, buf)
  BY <1>1 DEF HandleIncomplete
<1>2. ASSUME NEW k, HandleGarbled(c, buf, k) PROVE \E reply : Send(c, reply)
  BY <1>2 DEF HandleGarbled
<1>3. ASSUME NEW k, HandleWhole(c, buf, k)
      PROVE  \/ UNCHANGED <<output_buffer_, resp, epi, ready>> /\ proc' = "threw"
             \/ \E reply : Send(c, reply)
  BY <1>3 DEF HandleWhole
<1>. QED
  BY <1>1, <1>2, <1>3 DEF HandleInput

\* The reply's pieces are there to be written.
LEMMA SendEffect ==
    ASSUME TypeOK, NEW c \in Conns, NEW reply, Send(c, reply)
    PROVE  /\ output_buffer_[c] \in Seq(Nat) /\ NextPieces(c) \in Seq(Nat)
           /\ output_buffer_'[c] = output_buffer_[c] \o NextPieces(c)
           /\ resp'[c] = Append(resp[c], reply) /\ resp[c] \in Seq(Replies)
           /\ Len(NextPieces(c)) = Pieces /\ output_buffer_'[c] # <<>>
           /\ \A d \in Conns \ {c} : output_buffer_'[d] = output_buffer_[d] /\ resp'[d] = resp[d]
           /\ ModifyFd(fd_[c], WhileWriting, Polled(inq'[c], sndq[c], peer[c]))
<1>1. output_buffer_[c] \in Seq(Nat) /\ NextPieces(c) \in Seq(Nat) /\ resp[c] \in Seq(Replies)
  BY NextPiecesType DEF TypeOK, HttpTypes
<1>2. /\ output_buffer_'[c] = output_buffer_[c] \o NextPieces(c)
      /\ resp'[c] = Append(resp[c], reply)
      /\ \A d \in Conns \ {c} : output_buffer_'[d] = output_buffer_[d] /\ resp'[d] = resp[d]
      /\ ModifyFd(fd_[c], WhileWriting, Polled(inq'[c], sndq[c], peer[c]))
  BY DEF Send, TypeOK, HttpTypes
<1>3. Len(NextPieces(c)) = Pieces
  BY DEF NextPieces
<1>4. Len(output_buffer_'[c]) = Len(output_buffer_[c]) + Pieces /\ Len(output_buffer_[c]) \in Nat
  <2>. DEFINE s == output_buffer_[c]
              t == NextPieces(c)
  <2>1. s \in Seq(Nat) /\ t \in Seq(Nat)
    BY <1>1
  <2>. HIDE DEF s, t
  <2>2. Len(s \o t) = Len(s) + Len(t) /\ Len(s) \in Nat
    BY <2>1, ConcatProperties, LenProperties
  <2>. QED
    BY <1>2, <1>3, <2>2 DEF s, t
<1>5. output_buffer_'[c] # <<>>
  <2>1. Len(<<>>) = 0
    OBVIOUS
  <2>2. Len(output_buffer_'[c]) > 0
    BY <1>4, BoundAssumption
  <2>. QED
    BY <2>1, <2>2
<1>. QED
  BY <1>1, <1>2, <1>3, <1>5

LEMMA DoReadEdges ==
    ASSUME TypeOK, Ownership, Edges, NEW c \in Conns, DoRead(c)
    PROVE  Edges'
<1>1. Handling(c, "IN") /\ Handled("IN") /\ inq'[c] = <<>> /\ peer[c] = "up"
  BY DEF DoRead, ReadEnds, Drained, TypeOK, SockTypes
<1>0. PICK f \in Fds : f = fd_[c]
  BY <1>1, HandlingOwner
<1>. DEFINE F == {f}
            Sent == \E reply : Send(c, reply)
            Quiet == /\ UNCHANGED <<output_buffer_, resp, epi, ready>>
                     /\ proc' = proc \/ proc' = "threw"
<1>2. UNCHANGED <<peer, sndq, fdt, fd_, batch>> /\ \A d \in Conns : d # c => inq'[d] = inq[d]
  BY DEF DoRead, Drained, TypeOK, SockTypes, peerVars, connVars, Handled
<1>3. Quiet \/ Sent
  BY HandleInputEffect DEF DoRead
<1>4. fdt[f] = c /\ proc = "running" /\ \A g \in Fds \ F : fdt[g] # c
  BY <1>0, <1>1, HandlingOwner
<1>5. Sent => /\ output_buffer_'[c] # <<>>
              /\ \A d \in Conns \ {c} : output_buffer_'[d] = output_buffer_[d] /\ resp'[d] = resp[d]
              /\ ModifyFd(f, WhileWriting, Polled(inq'[c], sndq[c], peer[c]))
  BY <1>0, SendEffect
<1>6. /\ \A g \in Fds : g \in ready => g \in ready'
      /\ \A g \in Fds \ F : epi'[g] = epi[g]
      /\ epi'[f] # {} <=> epi[f] # {}
      /\ Sent /\ epi[f] # {} => epi'[f] = {"IN", "OUT"}
      /\ Sent /\ epi[f] = {} => proc' = "threw"
      /\ Sent /\ epi[f] # {} /\ "OUT" \in Polled(inq'[c], sndq[c], peer[c]) => f \in ready'
  <2>1. CASE Sent
    BY <1>5, <2>1, ModifyFdEffect DEF WhileWriting
  <2>2. CASE ~Sent
    BY <1>3, <2>2
  <2>. QED
    BY <2>1, <2>2
<1>7. \A g \in Fds \ F : fdt[g] # NoConn => fdt[g] \in Conns /\ fdt[g] # c
  BY <1>4 DEF TypeOK, PollTypes
<1>8. \A g \in Fds \ F : epi[g] # {} => fdt[g] # NoConn
  BY DEF Ownership, RegisteredOpen
<1>9. HupRead' /\ \A d \in {"IN", "OUT"} : d # "IN" /\ Noticed(f, d) => Noticed(f, d)'
  <2>1. peer[c] \notin Reset
    BY <1>1 DEF Reset
  <2>. QED
    BY <1>0, <1>1, <1>2, <1>6, <2>1, HandledKeeps DEF Edges
<1>10. \A g \in Fds \ F : \A d \in {"IN", "OUT"} : Noticed(g, d) => Noticed(g, d)'
  BY <1>0, <1>1, <1>2, <1>6, OthersNoticed
<1>11. WatchesWhatItOwes /\ NoLostEdge
  BY DEF Edges
<1>12. \A g \in Fds \cap F : g = f
  OBVIOUS
<1>13. ASSUME NEW d \in Conns, d # c
       PROVE  output_buffer_'[d] = output_buffer_[d] /\ resp'[d] = resp[d] /\ inq'[d] = inq[d]
  BY <1>2, <1>3, <1>5, <1>13
<1>14. ASSUME proc' = "running" PROVE WatchesFd(f)'
  <2>1. CASE Sent
    BY <1>2, <1>4, <1>5, <1>6, <1>14, <2>1 DEF WatchesFd, Registered
  <2>2. CASE Quiet
    BY <1>2, <1>4, <1>11, <2>2 DEF WatchesFd, Registered, WatchesWhatItOwes
  <2>. QED
    BY <1>3, <2>1, <2>2
<1>15. ASSUME epi'[f] # {} PROVE KeepsEdges(f)'
  <2>1. fdt'[f] = c /\ inq'[c] = <<>> /\ peer'[c] = "up" /\ Room(c)' = Room(c)
    BY <1>1, <1>2, <1>4 DEF Room
  <2>2. ASSUME output_buffer_'[c] # <<>>, Room(c) > 0
        PROVE  Noticed(f, "OUT")'
    <3>1. CASE Sent
      <4>1. "OUT" \in Polled(inq'[c], sndq[c], peer[c])
        <5>1. Len(sndq[c]) \in Nat
          BY DEF TypeOK, SockTypes
        <5>. QED
          BY <2>2, <5>1 DEF Polled, Events, Room
      <4>. QED
        BY <1>4, <1>6, <1>15, <3>1, <4>1 DEF Noticed
    <3>2. CASE Quiet
      <4>1. Noticed(f, "OUT")
        BY <1>4, <1>6, <1>11, <1>15, <2>2, <3>2 DEF NoLostEdge, Registered
      <4>. QED
        BY <1>9, <4>1
    <3>. QED
      BY <1>3, <3>1, <3>2
  <2>. QED
    BY <2>1, <2>2 DEF KeepsEdges, Room
<1>. HIDE DEF F, Sent, Quiet
<1>16. WatchesWhatItOwes'
  BY <1>2, <1>4, <1>6, <1>7, <1>11, <1>12, <1>13, <1>14, WatchesFrame
<1>17. NoLostEdge'
  BY <1>2, <1>4, <1>6, <1>7, <1>8, <1>10, <1>11, <1>12, <1>13, <1>15, EdgesFrame
<1>. QED
  BY <1>9, <1>16, <1>17 DEF Edges

\* The connections of the other descriptors.
LEMMA OthersApart ==
    ASSUME TypeOK, Ownership, NEW c \in Conns, NEW f \in Fds, f = fd_[c], fdt[f] = c
    PROVE  /\ \A g \in Fds \ {f} : fdt[g] # NoConn => fdt[g] \in Conns /\ fdt[g] # c
           /\ \A g \in Fds : epi[g] # {} => fdt[g] # NoConn
<1>1. ASSUME NEW g \in Fds \ {f}, fdt[g] # NoConn PROVE fdt[g] \in Conns /\ fdt[g] # c
  <2>1. fdt[g] \in Conns
    BY <1>1 DEF TypeOK, PollTypes
  <2>2. fd_[fdt[g]] = g
    BY <1>1 DEF Ownership, Coherent
  <2>. QED
    BY <2>1, <2>2
<1>2. \A g \in Fds : epi[g] # {} => fdt[g] # NoConn
  BY DEF Ownership, RegisteredOpen
<1>. QED
  BY <1>1, <1>2

\* The descriptor is gone, and nobody else's state has changed.
LEMMA HandleCloseEdges ==
    ASSUME TypeOK, Ownership, Edges, NEW c \in Conns, NEW e, Handling(c, e), HandleClose(c),
           \A d \in Conns \ {c} :
               /\ inq'[d] = inq[d] /\ sndq'[d] = sndq[d] /\ resp'[d] = resp[d]
               /\ output_buffer_'[d] = output_buffer_[d]
    PROVE  Edges'
<1>. USE DEF Edges
<1>1. PICK f \in Fds : f = fd_[c]
  BY HandlingOwner
<1>. DEFINE F == {f}
<1>2. /\ fdt[f] = c /\ proc = "running" /\ batch[f] = {}
      /\ fdt'[f] = NoConn /\ epi'[f] = {} /\ at' = "destroyed" /\ UNCHANGED <<batch, cur, peer>>
      /\ \A g \in Fds \ F :
            /\ fdt'[g] = fdt[g] /\ epi'[g] = epi[g] /\ (g \in ready => g \in ready')
  BY <1>1, HandlingOwner, HandleCloseEffect
<1>3. /\ \A g \in Fds \ F : fdt[g] # NoConn => fdt[g] \in Conns \ {c}
      /\ \A g \in Fds \ F : epi[g] # {} => fdt[g] # NoConn
      /\ \A g \in Fds \cap F : g = f
  <2>1. /\ \A g \in Fds \ {f} : fdt[g] # NoConn => fdt[g] \in Conns /\ fdt[g] # c
        /\ \A g \in Fds : epi[g] # {} => fdt[g] # NoConn
    BY <1>1, <1>2, OthersApart
  <2>. QED
    BY <2>1
<1>4. \A g \in Fds \ F : \A d \in {"IN", "OUT"} : Noticed(g, d) => Noticed(g, d)'
  BY <1>1, <1>2, OthersNoticed
<1>5. HupRead'
  BY <1>2 DEF HupRead
<1>. HIDE DEF F
<1>6. WatchesWhatItOwes'
  BY <1>2, <1>3, WatchesFrame
<1>7. NoLostEdge'
  BY <1>2, <1>3, <1>4, EdgesFrame
<1>. QED
  BY <1>5, <1>6, <1>7

LEMMA CloseEdges ==
    ASSUME TypeOK, Ownership, Edges, NEW c \in Conns,
           DoReadEnd(c) \/ WriteAllClose(c) \/ WriteReset(c)
    PROVE  Edges'
<1>1. Handling(c, "IN") \/ Handling(c, "OUT")
  BY DEF DoReadEnd, WriteAllClose, WriteAll, WriteReset
<1>2. HandleClose(c)
  BY DEF DoReadEnd, WriteAllClose, WriteReset
<1>3. \A d \in Conns \ {c} :
          /\ inq'[d] = inq[d] /\ sndq'[d] = sndq[d] /\ resp'[d] = resp[d]
          /\ output_buffer_'[d] = output_buffer_[d]
  BY DEF DoReadEnd, WriteAllClose, WriteAll, WriteReset, Released, httpVars,
         TypeOK, SockTypes, HttpTypes
<1>. QED
  BY <1>1, <1>2, <1>3, HandleCloseEdges

\* The handler of EPOLLOUT returns: the output is gone, or the send buffer is full.
LEMMA WriteEdges ==
    ASSUME TypeOK, Ownership, Edges, NEW c \in Conns, Handling(c, "OUT"), Handled("OUT"),
           UNCHANGED <<fdt, fd_, peer, inq, resp>>,
           \A d \in Conns \ {c} :
               sndq'[d] = sndq[d] /\ output_buffer_'[d] = output_buffer_[d],
           output_buffer_'[c] = <<>> \/ Room(c)' = 0,
           NEW interest \in SUBSET {"IN", "OUT"}, NEW polled,
           \/ UNCHANGED <<epi, ready, proc>> /\ WatchesFd(fd_[c])'
           \/ /\ ModifyFd(fd_[c], interest, polled)
              /\ interest = IF output_buffer_'[c] = <<>> THEN {"IN"} ELSE {"IN", "OUT"}
    PROVE  Edges'
<1>. USE DEF Edges
<1>1. PICK f \in Fds : f = fd_[c]
  BY HandlingOwner
<1>. DEFINE F == {f}
<1>2. fdt[f] = c /\ fdt'[f] = c /\ proc = "running" /\ batch' = batch
  BY <1>1, HandlingOwner DEF Handled
<1>3. /\ \A g \in Fds : g \in ready => g \in ready'
      /\ \A g \in Fds \ F : epi'[g] = epi[g]
      /\ epi'[f] # {} => epi[f] # {}
      /\ proc' = "running" => WatchesFd(f)'
  <2>1. CASE UNCHANGED <<epi, ready, proc>> /\ WatchesFd(fd_[c])'
    BY <1>1, <2>1
  <2>2. CASE /\ ModifyFd(f, interest, polled)
             /\ interest = IF output_buffer_'[c] = <<>> THEN {"IN"} ELSE {"IN", "OUT"}
    BY <1>2, <2>2, ModifyFdEffect DEF WatchesFd, Registered
  <2>. QED
    BY <1>1, <2>1, <2>2
<1>4. /\ \A g \in Fds \ F : fdt[g] # NoConn => fdt[g] \in Conns \ {c}
      /\ \A g \in Fds \ F : epi[g] # {} => fdt[g] # NoConn
      /\ \A g \in Fds \cap F : g = f
  <2>1. /\ \A g \in Fds \ {f} : fdt[g] # NoConn => fdt[g] \in Conns /\ fdt[g] # c
        /\ \A g \in Fds : epi[g] # {} => fdt[g] # NoConn
    BY <1>1, <1>2, OthersApart
  <2>. QED
    BY <2>1
<1>5. \A g \in Fds \ F : \A d \in {"IN", "OUT"} : Noticed(g, d) => Noticed(g, d)'
  BY <1>1, <1>2, <1>3, OthersNoticed
<1>6. HupRead' /\ \A d \in {"IN", "OUT"} : d # "OUT" /\ Noticed(f, d) => Noticed(f, d)'
  BY <1>1, <1>3, HandledKeeps
<1>7. ASSUME epi'[f] # {} PROVE KeepsEdges(f)'
  <2>1. inq[c] # <<>> \/ peer[c] # "up" => Noticed(f, "IN")
    BY <1>2, <1>3, <1>7 DEF NoLostEdge, Registered
  <2>2. ~(output_buffer_'[c] # <<>> /\ Room(c)' > 0)
    OBVIOUS
  <2>. QED
    BY <1>2, <1>6, <2>1, <2>2 DEF KeepsEdges, Room
<1>. HIDE DEF F
<1>8. WatchesWhatItOwes'
  BY <1>2, <1>3, <1>4, WatchesFrame
<1>9. NoLostEdge'
  BY <1>2, <1>3, <1>4, <1>5, <1>7, EdgesFrame
<1>. QED
  BY <1>6, <1>8, <1>9

LEMMA WriteAllKeepEdges ==
    ASSUME TypeOK, Ownership, Edges, NEW c \in Conns, WriteAllKeep(c)
    PROVE  Edges'
<1>. USE DEF WriteAllKeep, WriteAll, connVars, peerVars
<1>1. /\ output_buffer_'[c] = <<>>
      /\ \A d \in Conns \ {c} :
            sndq'[d] = sndq[d] /\ output_buffer_'[d] = output_buffer_[d]
  BY DEF TypeOK, SockTypes, HttpTypes
<1>2. AfterFlush \in SUBSET {"IN", "OUT"}
      /\ AfterFlush = IF output_buffer_'[c] = <<>> THEN {"IN"} ELSE {"IN", "OUT"}
  BY <1>1 DEF AfterFlush
<1>. QED
  BY <1>1, <1>2, WriteEdges

\* A partial write fills the send buffer.
LEMMA WriteSomeEffect ==
    ASSUME TypeOK, NEW c \in Conns, WriteSome(c)
    PROVE  /\ Room(c) \in 1..Len(output_buffer_[c]) - 1
           /\ sndq[c] \in Seq(Nat) /\ output_buffer_[c] \in Seq(Nat)
           /\ sndq'[c] = sndq[c] \o SubSeq(output_buffer_[c], 1, Room(c))
           /\ output_buffer_'[c] = SubSeq(output_buffer_[c], Room(c) + 1, Len(output_buffer_[c]))
           /\ Len(sndq'[c]) = Len(sndq[c]) + Room(c) /\ Room(c)' = 0
           /\ output_buffer_'[c] # <<>>
           /\ \A d \in Conns \ {c} :
                 sndq'[d] = sndq[d] /\ output_buffer_'[d] = output_buffer_[d]
<1>. USE DEF WriteSome, Unwritten
<1>1. /\ sndq[c] \in Seq(Nat) /\ output_buffer_[c] \in Seq(Nat)
      /\ Len(sndq[c]) \in Nat /\ Len(output_buffer_[c]) \in Nat
  BY LenProperties DEF TypeOK, SockTypes, HttpTypes
<1>2. Room(c) \in 1..Len(output_buffer_[c]) - 1
  BY <1>1 DEF Room
<1>3. /\ sndq'[c] = sndq[c] \o SubSeq(output_buffer_[c], 1, Room(c))
      /\ output_buffer_'[c] = SubSeq(output_buffer_[c], Room(c) + 1, Len(output_buffer_[c]))
      /\ \A d \in Conns \ {c} :
            sndq'[d] = sndq[d] /\ output_buffer_'[d] = output_buffer_[d]
  BY DEF TypeOK, SockTypes, HttpTypes
<1>4. /\ SubSeq(output_buffer_[c], 1, Room(c)) \in Seq(Nat)
      /\ Len(SubSeq(output_buffer_[c], 1, Room(c))) = Room(c)
      /\ Len(output_buffer_'[c]) = Len(output_buffer_[c]) - Room(c)
  <2>. DEFINE s == output_buffer_[c]
              n == Room(c)
  <2>1. s \in Seq(Nat) /\ Len(s) \in Nat /\ n \in 1..Len(s) - 1
    BY <1>1, <1>2
  <2>. HIDE DEF s, n
  <2>2. /\ SubSeq(s, 1, n) \in Seq(Nat) /\ Len(SubSeq(s, 1, n)) = n
        /\ Len(SubSeq(s, n + 1, Len(s))) = Len(s) - n
    BY <2>1, SubSeqProperties
  <2>. QED
    BY <1>3, <2>2 DEF s, n
<1>5. Len(sndq'[c]) = Len(sndq[c]) + Room(c)
  BY <1>1, <1>3, <1>4, ConcatProperties
<1>6. Room(c)' = 0
  BY <1>1, <1>2, <1>5 DEF Room
<1>7. output_buffer_'[c] # <<>>
  <2>. DEFINE rest == output_buffer_'[c]
  <2>1. Len(rest) # 0
    BY <1>1, <1>2, <1>4
  <2>. HIDE DEF rest
  <2>2. rest # <<>>
    BY <2>1, EmptySeq
  <2>. QED
    BY <2>2 DEF rest
<1>. QED
  BY <1>1, <1>2, <1>3, <1>5, <1>6, <1>7

LEMMA WriteSomeEdges ==
    ASSUME TypeOK, Ownership, Edges, NEW c \in Conns, WriteSome(c), NEW polled,
           UNCHANGED <<epi, ready, proc>> \/ ModifyFd(fd_[c], WhileWriting, polled)
    PROVE  Edges'
<1>. USE DEF connVars, peerVars, WhileWriting
<1>1. Handling(c, "OUT") /\ Handled("OUT") /\ UNCHANGED <<fdt, fd_, peer, inq, resp>>
  BY DEF WriteSome
<1>2. CASE UNCHANGED <<epi, ready, proc>>
  <2>1. fd_[c] \in Fds /\ fdt[fd_[c]] = c /\ proc = "running"
    BY <1>1, HandlingOwner
  <2>2. output_buffer_[c] # <<>> /\ output_buffer_'[c] # <<>>
    BY WriteSomeEffect
  <2>3. WatchesFd(fd_[c])'
    BY <1>1, <1>2, <2>1, <2>2 DEF Edges, WatchesWhatItOwes, WatchesFd, Registered
  <2>. QED
    BY <1>1, <1>2, <2>3, WriteSomeEffect, WriteEdges
<1>3. CASE ModifyFd(fd_[c], WhileWriting, polled)
  BY <1>1, <1>3, WriteSomeEffect, WriteEdges
<1>. QED
  BY <1>2, <1>3

LEMMA InitEdges == Init => Edges /\ Unserved
<1>. SUFFICES ASSUME Init PROVE Edges /\ Unserved
  OBVIOUS
<1>. USE DEF Init
<1>1. WatchesWhatItOwes /\ NoLostEdge
  BY DEF WatchesWhatItOwes, NoLostEdge, Registered
<1>2. HupRead /\ Unserved
  BY DEF HupRead, Unserved, Watched
<1>. QED
  BY <1>1, <1>2 DEF Edges
-----------------------------------------------------------------------------
(***************************************************************************)
(* The pieces of the replies on their way.  StreamIntact compares          *)
(* sequences; what is inductive is where each buffer's run of pieces       *)
(* begins, and how many there are in all.                                  *)
(***************************************************************************)
\* A buffer holds the pieces that follow the one numbered "from".
Run(s, from) == \A i \in 1..Len(s) : s[i] = from + i

\* The pieces of one connection.  A reset empties the send buffer and a close may
\* drop the end of it, so only a live connection that was not reset has them all.
StreamParts(c) ==
    /\ Run(rcvd[c], 0)
    /\ Run(sndq[c], Len(rcvd[c]))
    /\ Len(rcvd[c]) + Len(sndq[c]) <= Pieces * Len(resp[c])
    /\ life[c] = "live" /\ peer[c] \notin Reset =>
           /\ Run(output_buffer_[c], Len(rcvd[c]) + Len(sndq[c]))
           /\ Len(rcvd[c]) + Len(sndq[c]) + Len(output_buffer_[c]) = Pieces * Len(resp[c])

Streams == Unserved /\ \A c \in Conns : StreamParts(c)

LEMMA RunConcat ==
    ASSUME NEW s \in Seq(Nat), NEW t \in Seq(Nat), NEW from \in Nat,
           Run(s, from), Run(t, from + Len(s))
    PROVE  Run(s \o t, from)
<1>1. /\ Len(s) \in Nat /\ Len(t) \in Nat /\ Len(s \o t) = Len(s) + Len(t)
      /\ \A i \in 1..Len(s) + Len(t) :
            (s \o t)[i] = IF i <= Len(s) THEN s[i] ELSE t[i - Len(s)]
  BY ConcatProperties, LenProperties
<1>2. ASSUME NEW i \in 1..Len(s) + Len(t) PROVE (s \o t)[i] = from + i
  <2>1. CASE i <= Len(s)
    <3>1. i \in 1..Len(s)
      BY <1>1, <2>1
    <3>. QED
      BY <1>1, <2>1, <3>1 DEF Run
  <2>2. CASE ~(i <= Len(s))
    <3>1. i - Len(s) \in 1..Len(t)
      BY <1>1, <2>2
    <3>2. t[i - Len(s)] = (from + Len(s)) + (i - Len(s))
      BY <3>1 DEF Run
    <3>3. (s \o t)[i] = t[i - Len(s)]
      BY <1>1, <2>2
    <3>4. (from + Len(s)) + (i - Len(s)) = from + i
      BY <1>1
    <3>. QED
      BY <3>2, <3>3, <3>4
  <2>. QED
    BY <2>1, <2>2
<1>. QED
  BY <1>1, <1>2 DEF Run

LEMMA RunCut ==
    ASSUME NEW s \in Seq(Nat), NEW from \in Nat, NEW n \in 0..Len(s), Run(s, from)
    PROVE  /\ SubSeq(s, 1, n) \in Seq(Nat) /\ Len(SubSeq(s, 1, n)) = n
           /\ SubSeq(s, n + 1, Len(s)) \in Seq(Nat)
           /\ Len(SubSeq(s, n + 1, Len(s))) = Len(s) - n
           /\ Run(SubSeq(s, 1, n), from) /\ Run(SubSeq(s, n + 1, Len(s)), from + n)
<1>1. Len(s) \in Nat /\ \A i \in 1..Len(s) : s[i] \in Nat
  BY LenProperties, ElementOfSeq
<1>2. /\ SubSeq(s, 1, n) \in Seq(Nat) /\ Len(SubSeq(s, 1, n)) = n
      /\ \A i \in 1..n : SubSeq(s, 1, n)[i] = s[i]
  BY <1>1, SubSeqProperties
<1>3. /\ SubSeq(s, n + 1, Len(s)) \in Seq(Nat) /\ Len(SubSeq(s, n + 1, Len(s))) = Len(s) - n
      /\ \A i \in 1..Len(s) - n : SubSeq(s, n + 1, Len(s))[i] = s[n + i]
  BY <1>1, SubSeqProperties
<1>4. Run(SubSeq(s, 1, n), from)
  BY <1>1, <1>2 DEF Run
<1>5. Run(SubSeq(s, n + 1, Len(s)), from + n)
  BY <1>1, <1>3 DEF Run
<1>. QED
  BY <1>2, <1>3, <1>4, <1>5

LEMMA RunEmpty ==
    ASSUME NEW from
    PROVE  Run(<<>>, from) /\ Len(<<>>) = 0
  BY DEF Run

\* The client takes the first piece of the send buffer.
LEMMA RunTaken ==
    ASSUME NEW s \in Seq(Nat), NEW t \in Seq(Nat), NEW from \in Nat,
           t # <<>>, Run(s, from), Run(t, from + Len(s))
    PROVE  /\ Head(t) = from + Len(s) + 1
           /\ Run(Append(s, Head(t)), from) /\ Run(Tail(t), from + Len(Append(s, Head(t))))
           /\ Len(Append(s, Head(t))) = Len(s) + 1 /\ Len(Tail(t)) = Len(t) - 1
<1>1. /\ Len(s) \in Nat /\ Len(t) \in Nat \ {0}
      /\ Head(t) \in Nat /\ Tail(t) \in Seq(Nat) /\ Len(Tail(t)) = Len(t) - 1
      /\ \A i \in 1..Len(Tail(t)) : Tail(t)[i] = t[i + 1]
  BY LenProperties, EmptySeq, HeadTailProperties
<1>2. Head(t) = t[1]
  OBVIOUS
<1>3. Head(t) = from + Len(s) + 1
  BY <1>1, <1>2 DEF Run
<1>4. /\ Len(Append(s, Head(t))) = Len(s) + 1
      /\ \A i \in 1..Len(s) : Append(s, Head(t))[i] = s[i]
      /\ Append(s, Head(t))[Len(s) + 1] = Head(t)
  BY <1>1, AppendProperties
<1>5. Run(Append(s, Head(t)), from)
  <2>1. \A i \in 1..Len(s) + 1 : i \in 1..Len(s) \/ i = Len(s) + 1
    <3>. DEFINE k == Len(s)
    <3>1. k \in Nat
      BY <1>1
    <3>. HIDE DEF k
    <3>2. \A i \in 1..k + 1 : i \in 1..k \/ i = k + 1
      BY <3>1
    <3>. QED
      BY <3>2 DEF k
  <2>2. \A i \in 1..Len(s) : s[i] = from + i
    BY DEF Run
  <2>3. \A i \in 1..Len(s) + 1 : Append(s, Head(t))[i] = from + i
    BY <1>1, <1>3, <1>4, <2>1, <2>2
  <2>. QED
    BY <1>4, <2>3 DEF Run
<1>6. Run(Tail(t), from + Len(Append(s, Head(t))))
  <2>1. \A i \in 1..Len(t) - 1 : i + 1 \in 1..Len(t)
    BY <1>1
  <2>2. \A i \in 1..Len(t) - 1 : Tail(t)[i] = (from + Len(s)) + (i + 1)
    BY <1>1, <2>1 DEF Run
  <2>3. \A i \in 1..Len(t) - 1 : (from + Len(s)) + (i + 1) = (from + (Len(s) + 1)) + i
    BY <1>1
  <2>. QED
    BY <1>1, <1>4, <2>2, <2>3 DEF Run
<1>. QED
  BY <1>1, <1>3, <1>4, <1>5, <1>6

\* What StreamParts says in the terms of StreamIntact.
Counting(n) == [i \in 1..n |-> i]

LEMMA RunIsPrefix ==
    ASSUME NEW s \in Seq(Nat), NEW n \in Nat, Len(s) <= n, Run(s, 0)
    PROVE  /\ s = SubSeq(Counting(n), 1, Len(s))
           /\ Len(s) = n => s = Counting(n)
<1>. DEFINE stream == Counting(n)
<1>1. Len(s) \in Nat /\ \A i \in 1..Len(s) : s[i] = i
  BY LenProperties DEF Run
<1>2. stream \in Seq(Nat) /\ Len(stream) = n /\ \A i \in 1..n : stream[i] = i
  BY DEF Counting
<1>. HIDE DEF stream
<1>3. \A i \in 1..Len(s) : i \in 1..n
  BY <1>1
<1>4. /\ SubSeq(stream, 1, Len(s)) \in Seq(Nat) /\ Len(SubSeq(stream, 1, Len(s))) = Len(s)
      /\ \A i \in 1..Len(s) : SubSeq(stream, 1, Len(s))[i] = stream[i]
  BY <1>1, <1>2, <1>3, SubSeqProperties
<1>5. s = SubSeq(stream, 1, Len(s))
  BY <1>1, <1>2, <1>3, <1>4, SeqEqual
<1>6. Len(s) = n => s = stream
  BY <1>1, <1>2, SeqEqual
<1>. QED
  BY <1>5, <1>6 DEF stream

LEMMA StreamsIntact == TypeOK /\ Streams => StreamIntact
<1>. SUFFICES ASSUME TypeOK, Streams, NEW c \in Conns
              PROVE  LET stream == [i \in 1..(Pieces * Len(resp[c])) |-> i]
                         seen   == rcvd[c] \o sndq[c] \o output_buffer_[c]
                     IN  /\ rcvd[c] = SubSeq(stream, 1, Len(rcvd[c]))
                         /\ life[c] # "destroyed" /\ peer[c] \notin Reset => seen = stream
  BY DEF StreamIntact
<1>. DEFINE n == Pieces * Len(resp[c])
            a == rcvd[c]
            b == sndq[c]
            o == output_buffer_[c]
            Whole == life[c] # "destroyed" /\ peer[c] \notin Reset
<1>1. /\ a \in Seq(Nat) /\ b \in Seq(Nat) /\ o \in Seq(Nat)
      /\ Len(a) \in Nat /\ Len(b) \in Nat /\ Len(o) \in Nat /\ n \in Nat
  <2>1. Len(resp[c]) \in Nat
    BY LenProperties DEF TypeOK, HttpTypes
  <2>. QED
    BY <2>1, LenProperties DEF TypeOK, PeerTypes, SockTypes, HttpTypes
<1>2. Run(a, 0) /\ Run(b, Len(a)) /\ Len(a) + Len(b) <= n
  BY DEF Streams, StreamParts
<1>3. ASSUME Whole
      PROVE  Run(o, Len(a) + Len(b)) /\ Len(a) + Len(b) + Len(o) = n
  <2>1. CASE life[c] = "live"
    BY <1>3, <2>1 DEF Streams, StreamParts
  <2>2. CASE life[c] = "none"
    <3>1. a = <<>> /\ b = <<>> /\ o = <<>> /\ n = 0
      BY <2>2 DEF Streams, Unserved
    <3>. QED
      BY <3>1, RunEmpty
  <2>. QED
    BY <1>3, <2>1, <2>2 DEF TypeOK, ConnTypes
<1>. HIDE DEF n, a, b, o, Whole
<1>4. Len(a) <= n /\ 0 + Len(a) = Len(a) /\ 0 + (Len(a) + Len(b)) = Len(a) + Len(b)
  BY <1>1, <1>2
<1>5. a = SubSeq(Counting(n), 1, Len(a))
  BY <1>1, <1>2, <1>4, RunIsPrefix
<1>6. a \o b \in Seq(Nat) /\ Len(a \o b) = Len(a) + Len(b)
  BY <1>1, ConcatProperties
<1>7. Run(a \o b, 0)
  BY <1>1, <1>2, <1>4, RunConcat
<1>8. ASSUME Whole PROVE a \o b \o o = Counting(n)
  <2>1. a \o b \o o \in Seq(Nat) /\ Len(a \o b \o o) = n
    BY <1>1, <1>3, <1>6, <1>8, ConcatProperties
  <2>2. Run(o, 0 + Len(a \o b))
    BY <1>3, <1>4, <1>6, <1>8
  <2>3. Run(a \o b \o o, 0)
    BY <1>1, <1>6, <1>7, <2>2, RunConcat
  <2>4. Len(a \o b \o o) <= n
    BY <1>1, <2>1
  <2>. QED
    BY <1>1, <2>1, <2>3, <2>4, RunIsPrefix
<1>. QED
  BY <1>5, <1>8 DEF n, a, b, o, Whole, Counting

\* A step that leaves alone the pieces of the connections outside C.
LEMMA StreamsFrame ==
    ASSUME Streams, NEW C,
           \A d \in Conns \ C :
               /\ rcvd'[d] = rcvd[d] /\ sndq'[d] = sndq[d]
               /\ output_buffer_'[d] = output_buffer_[d] /\ resp'[d] = resp[d]
               /\ \/ life'[d] = life[d]
                  \/ life'[d] = "destroyed"
                  \/ life[d] = "none" /\ life'[d] = "live"
               /\ life[d] # "none" /\ peer[d] \in Reset => peer'[d] \in Reset,
           \A c \in Conns \cap C : StreamParts(c)' /\ life'[c] # "none"
    PROVE  Streams'
<1>1. Unserved'
  BY DEF Streams, Unserved
<1>2. ASSUME NEW d \in Conns \ C PROVE StreamParts(d)'
  <2>1. StreamParts(d) /\ (life[d] = "none" => output_buffer_[d] = <<>> /\ resp[d] = <<>>
                                               /\ sndq[d] = <<>> /\ rcvd[d] = <<>>)
    BY DEF Streams, Unserved
  <2>2. CASE life[d] = "none"
    <3>1. /\ output_buffer_'[d] = <<>> /\ resp'[d] = <<>> /\ sndq'[d] = <<>> /\ rcvd'[d] = <<>>
          /\ Pieces * 0 = 0 /\ Len(<<>>) = 0
      BY <2>1, <2>2
    <3>. QED
      BY <3>1 DEF StreamParts, Run
  <2>3. CASE life[d] # "none"
    BY <2>1, <2>3 DEF StreamParts
  <2>. QED
    BY <2>2, <2>3
<1>3. \A d \in Conns : d \in Conns \ C \/ d \in Conns \cap C
  OBVIOUS
<1>4. \A d \in Conns : StreamParts(d)'
  BY <1>2, <1>3
<1>. QED
  BY <1>1, <1>4 DEF Streams

\* No piece moves.
LEMMA SameStreams ==
    ASSUME Streams, UNCHANGED <<rcvd, sndq, output_buffer_, resp>>,
           \A d \in Conns :
               /\ \/ life'[d] = life[d]
                  \/ life'[d] = "destroyed"
                  \/ life[d] = "none" /\ life'[d] = "live"
               /\ life[d] # "none" /\ peer[d] \in Reset => peer'[d] \in Reset
    PROVE  Streams'
<1>. DEFINE C == {}
<1>1. Conns \ C = Conns /\ Conns \cap C = {}
  OBVIOUS
<1>. HIDE DEF C
<1>. QED
  BY <1>1, StreamsFrame

\* One connection's pieces move.
LEMMA OneStream ==
    ASSUME Streams, NEW c \in Conns,
           \A d \in Conns \ {c} :
               /\ rcvd'[d] = rcvd[d] /\ sndq'[d] = sndq[d]
               /\ output_buffer_'[d] = output_buffer_[d] /\ resp'[d] = resp[d]
               /\ life'[d] = life[d] /\ peer'[d] = peer[d],
           StreamParts(c)', life'[c] # "none"
    PROVE  Streams'
<1>. DEFINE C == {c}
<1>1. \A d \in Conns \ C : d \in Conns \ {c}
  OBVIOUS
<1>2. \A d \in Conns \cap C : d = c
  OBVIOUS
<1>. HIDE DEF C
<1>. QED
  BY <1>1, <1>2, StreamsFrame

LEMMA StreamTypes ==
    ASSUME TypeOK, NEW c \in Conns
    PROVE  /\ rcvd[c] \in Seq(Nat) /\ sndq[c] \in Seq(Nat) /\ output_buffer_[c] \in Seq(Nat)
           /\ Len(rcvd[c]) \in Nat /\ Len(sndq[c]) \in Nat /\ Len(output_buffer_[c]) \in Nat
           /\ resp[c] \in Seq(Replies) /\ Len(resp[c]) \in Nat /\ Pieces * Len(resp[c]) \in Nat
<1>1. /\ rcvd[c] \in Seq(Nat) /\ sndq[c] \in Seq(Nat) /\ output_buffer_[c] \in Seq(Nat)
      /\ resp[c] \in Seq(Replies)
  BY DEF TypeOK, PeerTypes, SockTypes, HttpTypes
<1>2. /\ Len(rcvd[c]) \in Nat /\ Len(sndq[c]) \in Nat /\ Len(output_buffer_[c]) \in Nat
      /\ Len(resp[c]) \in Nat
  BY <1>1, LenProperties
<1>. QED
  BY <1>1, <1>2

LEMMA ReceiveStreams ==
    ASSUME TypeOK, Streams, NEW c \in Conns, Receive(c)
    PROVE  Streams' /\ Head(sndq[c]) = Len(rcvd[c]) + 1 /\ Len(rcvd[c]) < Pieces * Len(resp[c])
<1>. USE DEF Receive, connVars, httpVars
<1>1. /\ sndq[c] # <<>> /\ life[c] # "none"
      /\ StreamParts(c)
  BY DEF Streams, Unserved
<1>2. /\ rcvd'[c] = Append(rcvd[c], Head(sndq[c])) /\ sndq'[c] = Tail(sndq[c])
      /\ UNCHANGED <<life, peer, output_buffer_, resp>>
      /\ \A d \in Conns \ {c} : rcvd'[d] = rcvd[d] /\ sndq'[d] = sndq[d]
  BY DEF TypeOK, PeerTypes, SockTypes
<1>. DEFINE a == rcvd[c]
            b == sndq[c]
<1>3. /\ a \in Seq(Nat) /\ b \in Seq(Nat) /\ Len(a) \in Nat /\ Len(b) \in Nat \ {0}
      /\ Pieces * Len(resp[c]) \in Nat
  BY <1>1, StreamTypes, EmptySeq
<1>4. Run(a, 0) /\ Run(b, 0 + Len(a))
  <2>1. Run(a, 0) /\ Run(b, Len(a)) /\ 0 + Len(a) = Len(a)
    BY <1>1, <1>3 DEF StreamParts
  <2>. QED
    BY <2>1
<1>5. /\ Head(b) = 0 + Len(a) + 1
      /\ Run(Append(a, Head(b)), 0) /\ Run(Tail(b), 0 + Len(Append(a, Head(b))))
      /\ Len(Append(a, Head(b))) = Len(a) + 1 /\ Len(Tail(b)) = Len(b) - 1
  <2>. HIDE DEF a, b
  <2>1. b # <<>>
    BY <1>1 DEF b
  <2>. QED
    BY <1>3, <1>4, <2>1, RunTaken
<1>6. /\ Run(Tail(b), Len(Append(a, Head(b)))) /\ Head(b) = Len(a) + 1
      /\ Len(Append(a, Head(b))) + Len(Tail(b)) = Len(a) + Len(b)
      /\ Len(a) < Pieces * Len(resp[c])
  <2>1. Len(a) + Len(b) <= Pieces * Len(resp[c])
    BY <1>1 DEF StreamParts
  <2>. DEFINE n == Pieces * Len(resp[c])
              a1 == Append(a, Head(b))
              b1 == Tail(b)
  <2>2. /\ Run(b1, 0 + Len(a1)) /\ Head(b) = 0 + Len(a) + 1
        /\ Len(a1) = Len(a) + 1 /\ Len(b1) = Len(b) - 1
        /\ Len(a) + Len(b) <= n /\ n \in Nat
    BY <1>3, <1>5, <2>1
  <2>. HIDE DEF n, a, b, a1, b1
  <2>3. /\ 0 + Len(a1) = Len(a1) /\ Head(b) = Len(a) + 1
        /\ Len(a1) + Len(b1) = Len(a) + Len(b) /\ Len(a) < n
    BY <1>3, <2>2
  <2>4. Run(b1, Len(a1))
    BY <2>2, <2>3
  <2>. QED
    BY <2>3, <2>4 DEF n, a, b, a1, b1
<1>7. StreamParts(c)'
  BY <1>1, <1>2, <1>5, <1>6 DEF StreamParts
<1>. QED
  BY <1>1, <1>2, <1>6, <1>7, OneStream

LEMMA ClientsStreams ==
    ASSUME TypeOK, Streams, Clients
    PROVE  Streams'
<1>. USE DEF connVars, httpVars
<1>. PICK c \in Conns :
        \/ Connect(c)
        \/ \E r \in Requests : SendRequest(c, r) \/ SendHead(c, r)
        \/ SendTail(c)
        \/ Fin(c)
        \/ Rst(c)
        \/ Receive(c)
  BY DEF Clients
<1>1. CASE Connect(c) \/ Fin(c)
  <2>1. \A d \in Conns : peer[d] \in Reset => peer'[d] \in Reset
    BY <1>1 DEF Connect, Fin, TypeOK, PeerTypes, Reset
  <2>. QED
    BY <1>1, <2>1, SameStreams DEF Connect, Fin, sockVars
<1>2. CASE SendTail(c) \/ \E r \in Requests : SendRequest(c, r) \/ SendHead(c, r)
  BY <1>2, SameStreams DEF SendTail, SendRequest, SendHead, Arrives
<1>3. CASE Rst(c)
  <2>. USE <1>3 DEF Rst
  <2>1. /\ sndq'[c] = <<>> /\ peer'[c] \in Reset /\ UNCHANGED <<rcvd, life, output_buffer_, resp>>
        /\ \A d \in Conns \ {c} : sndq'[d] = sndq[d] /\ peer'[d] = peer[d]
    BY DEF TypeOK, SockTypes, PeerTypes, Reset
  <2>2. CASE life[c] = "none"
    <3>1. sndq[c] = <<>>
      BY <2>2 DEF Streams, Unserved
    <3>2. sndq' = sndq
      BY <3>1 DEF TypeOK, SockTypes
    <3>. QED
      BY <2>1, <2>2, <3>2, SameStreams
  <2>3. CASE life[c] # "none"
    <3>1. StreamParts(c)'
      <4>. DEFINE n == Pieces * Len(resp[c])
                  a == Len(rcvd[c])
                  b == Len(sndq[c])
      <4>1. a \in Nat /\ b \in Nat /\ n \in Nat
        BY StreamTypes
      <4>2. Run(rcvd[c], 0) /\ a + b <= n
        BY DEF Streams, StreamParts
      <4>. HIDE DEF n, a, b
      <4>3. a + 0 <= n
        BY <4>1, <4>2
      <4>. QED
        BY <2>1, <4>2, <4>3, RunEmpty DEF StreamParts, n, a
    <3>. QED
      BY <2>1, <2>3, <3>1, OneStream
  <2>. QED
    BY <2>2, <2>3
<1>. QED
  BY <1>1, <1>2, <1>3, ReceiveStreams

LEMMA NewConnectionStreams ==
    ASSUME TypeOK, Ownership, Streams, NEW c \in Conns, NEW f \in Fds, NEW registered \in BOOLEAN,
           NewConnection(c, f, registered),
           UNCHANGED <<peer, rcvd, sndq, output_buffer_, resp>>
    PROVE  Streams'
<1>1. life[c] = "none"
  <2>1. 1 \in DOMAIN backlog /\ backlog[1] = c
    BY HeadTailProperties, LenProperties DEF TypeOK, SockTypes, NewConnection
  <2>. QED
    BY <2>1 DEF Ownership, BacklogFresh
<1>2. \A d \in Conns : life'[d] = IF d = c THEN "live" ELSE life[d]
  BY DEF NewConnection, TypeOK, ConnTypes
<1>. QED
  BY <1>1, <1>2, SameStreams

LEMMA AcceptStreams ==
    ASSUME TypeOK, Ownership, Streams, Accept
    PROVE  Streams'
  BY NewConnectionStreams DEF Accept, peerVars, httpVars

\* The steps of the loop, and the handlers that move nothing.
LEMMA LoopStreams ==
    ASSUME Streams, NEW from,
           \/ EpollWait(from) \/ DispatchAcceptor \/ RunOnDestroyed
           \/ \E f \in Fds : Dispatch(f)
           \/ \E c \in Conns : WriteBroken(c)
    PROVE  Streams'
<1>1. UNCHANGED <<rcvd, sndq, output_buffer_, resp, life, peer>>
  BY DEF EpollWait, DispatchAcceptor, RunOnDestroyed, Dispatch, WriteBroken,
         peerVars, sockVars, connVars, httpVars
<1>. QED
  BY <1>1, SameStreams

\* send puts the reply's pieces behind those that are still to be written.
LEMMA SendStream ==
    ASSUME TypeOK, Streams, NEW c \in Conns, NEW reply, Send(c, reply),
           life[c] = "live", peer[c] \notin Reset, UNCHANGED <<rcvd, sndq, life, peer>>
    PROVE  StreamParts(c)'
<1>. DEFINE a == Len(rcvd[c]) + Len(sndq[c])
            n == Pieces * Len(resp[c])
            o == output_buffer_[c]
            p == NextPieces(c)
<1>1. o \in Seq(Nat) /\ p \in Seq(Nat) /\ Len(o) \in Nat /\ a \in Nat /\ n \in Nat
  <2>1. /\ o \in Seq(Nat) /\ Len(o) \in Nat /\ n \in Nat
        /\ Len(rcvd[c]) \in Nat /\ Len(sndq[c]) \in Nat
    BY StreamTypes
  <2>2. p \in Seq(Nat)
    BY NextPiecesType
  <2>. DEFINE x == Len(rcvd[c])
              y == Len(sndq[c])
  <2>. HIDE DEF n, o, p, x, y
  <2>3. x \in Nat /\ y \in Nat => x + y \in Nat
    OBVIOUS
  <2>4. a \in Nat
    BY <2>1, <2>3 DEF x, y
  <2>. QED
    BY <2>1, <2>2, <2>4
<1>2. Run(o, a) /\ a + Len(o) = n /\ Run(rcvd[c], 0) /\ Run(sndq[c], Len(rcvd[c]))
  BY DEF Streams, StreamParts
<1>3. output_buffer_'[c] = o \o p /\ Len(p) = Pieces
  BY SendEffect
<1>4. Pieces * Len(resp'[c]) = n + Pieces
  <2>1. /\ resp'[c] = Append(resp[c], reply) /\ resp[c] \in Seq(Replies)
    BY SendEffect
  <2>2. Len(resp'[c]) = Len(resp[c]) + 1 /\ Len(resp[c]) \in Nat
    BY <2>1, LenProperties
  <2>. DEFINE k == Len(resp[c])
  <2>3. k \in Nat /\ Len(resp'[c]) = k + 1
    BY <2>2
  <2>. HIDE DEF k
  <2>4. Pieces * (k + 1) = Pieces * k + Pieces
    BY <2>3
  <2>. QED
    BY <2>3, <2>4 DEF k
<1>5. Run(p, n)
  BY DEF Run, NextPieces
<1>. HIDE DEF a, n, o, p
<1>6. Run(p, a + Len(o))
  BY <1>2, <1>5
<1>7. Run(o \o p, a) /\ Len(o \o p) = Len(o) + Len(p)
  BY <1>1, <1>2, <1>6, RunConcat, ConcatProperties
<1>8. a + Len(o \o p) = n + Pieces /\ a <= n + Pieces
  BY <1>1, <1>2, <1>3, <1>7
<1>. QED
  BY <1>2, <1>3, <1>4, <1>7, <1>8 DEF StreamParts, a

LEMMA DoReadStreams ==
    ASSUME TypeOK, Ownership, Streams, NEW c \in Conns, DoRead(c)
    PROVE  Streams'
<1>1. /\ life[c] = "live" /\ peer[c] \notin Reset
      /\ UNCHANGED <<rcvd, sndq, life, peer>>
  BY HandlingOwner DEF DoRead, ReadEnds, Reset, peerVars, connVars
<1>2. CASE UNCHANGED <<output_buffer_, resp>>
  BY <1>1, <1>2, SameStreams
<1>3. CASE \E reply : Send(c, reply)
  <2>1. StreamParts(c)'
    BY <1>1, <1>3, SendStream
  <2>2. \A d \in Conns \ {c} : output_buffer_'[d] = output_buffer_[d] /\ resp'[d] = resp[d]
    BY <1>3, SendEffect
  <2>. QED
    BY <1>1, <2>1, <2>2, OneStream
<1>. QED
  BY <1>2, <1>3, HandleInputEffect DEF DoRead

\* do_write moves pieces from the output buffer to the socket: s of them are taken,
\* and what is left, if anything, follows.
LEMMA MovedStream ==
    ASSUME TypeOK, Streams, NEW c \in Conns, life[c] = "live", peer[c] \notin Reset,
           NEW n \in 0..Len(output_buffer_[c]),
           sndq'[c] = sndq[c] \o SubSeq(output_buffer_[c], 1, n),
           output_buffer_'[c] = SubSeq(output_buffer_[c], n + 1, Len(output_buffer_[c])),
           UNCHANGED <<rcvd, resp>>
    PROVE  StreamParts(c)'
<1>. DEFINE a == Len(rcvd[c])
            b == sndq[c]
            o == output_buffer_[c]
            total == Pieces * Len(resp[c])
            taken == SubSeq(o, 1, n)
            left  == SubSeq(o, n + 1, Len(o))
<1>1. /\ b \in Seq(Nat) /\ o \in Seq(Nat) /\ total \in Nat
      /\ a \in Nat /\ Len(b) \in Nat /\ Len(o) \in Nat
  BY StreamTypes
<1>2. /\ Run(rcvd[c], 0) /\ Run(b, a) /\ Run(o, a + Len(b))
      /\ a + Len(b) + Len(o) = total
  BY DEF Streams, StreamParts
<1>3. n \in 0..Len(o) /\ sndq'[c] = b \o taken /\ output_buffer_'[c] = left
  OBVIOUS
<1>. HIDE DEF a, b, o, total
<1>4. a + Len(b) \in Nat
  BY <1>1
<1>5. /\ taken \in Seq(Nat) /\ Len(taken) = n /\ Len(left) = Len(o) - n
      /\ Run(taken, a + Len(b)) /\ Run(left, (a + Len(b)) + n)
  BY <1>1, <1>2, <1>3, <1>4, RunCut
<1>. HIDE DEF taken, left
<1>6. Run(b \o taken, a) /\ Len(b \o taken) = Len(b) + n
  BY <1>1, <1>2, <1>5, RunConcat, ConcatProperties
<1>7. /\ (a + Len(b)) + n = a + (Len(b) + n)
      /\ a + (Len(b) + n) <= total /\ a + (Len(b) + n) + (Len(o) - n) = total
  BY <1>1, <1>2, <1>3
<1>8. Run(left, a + Len(b \o taken)) /\ a + Len(b \o taken) <= total
      /\ a + Len(b \o taken) + Len(left) = total
  BY <1>5, <1>6, <1>7
<1>9. total = Pieces * Len(resp'[c]) /\ rcvd'[c] = rcvd[c]
  BY DEF total
<1>. QED
  BY <1>2, <1>3, <1>6, <1>8, <1>9 DEF StreamParts, a

LEMMA WriteAllKeepStreams ==
    ASSUME TypeOK, Ownership, Streams, NEW c \in Conns, WriteAllKeep(c)
    PROVE  Streams'
<1>. USE DEF WriteAllKeep, WriteAll, connVars, peerVars
<1>1. /\ life[c] = "live" /\ peer[c] \notin Reset /\ UNCHANGED <<rcvd, resp, life, peer>>
      /\ output_buffer_[c] \in Seq(Nat) /\ Len(output_buffer_[c]) \in Nat
  BY HandlingOwner, StreamTypes
<1>2. /\ sndq'[c] = sndq[c] \o output_buffer_[c] /\ output_buffer_'[c] = <<>>
      /\ \A d \in Conns \ {c} : sndq'[d] = sndq[d] /\ output_buffer_'[d] = output_buffer_[d]
  BY DEF TypeOK, SockTypes, HttpTypes, Flushed
<1>3. StreamParts(c)'
  <2>. DEFINE o == output_buffer_[c]
  <2>1. o \in Seq(Nat) /\ Len(o) \in Nat
    BY <1>1
  <2>. HIDE DEF o
  <2>2. SubSeq(o, 1, Len(o)) = o /\ SubSeq(o, Len(o) + 1, Len(o)) = <<>> /\ Len(o) \in 0..Len(o)
    BY <2>1, SubSeqFull, SubSeqEmpty
  <2>. QED
    BY <1>1, <1>2, <2>2, MovedStream DEF o
<1>. QED
  BY <1>1, <1>2, <1>3, OneStream

LEMMA WriteSomeStreams ==
    ASSUME TypeOK, Ownership, Streams, NEW c \in Conns, WriteSome(c)
    PROVE  Streams'
<1>1. /\ life[c] = "live" /\ peer[c] \notin Reset /\ UNCHANGED <<rcvd, resp, life, peer>>
      /\ Len(output_buffer_[c]) \in Nat
  BY HandlingOwner, StreamTypes DEF WriteSome, connVars, peerVars
<1>2. /\ Room(c) \in 1..Len(output_buffer_[c]) - 1
      /\ sndq'[c] = sndq[c] \o SubSeq(output_buffer_[c], 1, Room(c))
      /\ output_buffer_'[c] = SubSeq(output_buffer_[c], Room(c) + 1, Len(output_buffer_[c]))
      /\ \A d \in Conns \ {c} : sndq'[d] = sndq[d] /\ output_buffer_'[d] = output_buffer_[d]
  BY WriteSomeEffect
<1>3. Room(c) \in 0..Len(output_buffer_[c])
  BY <1>1, <1>2
<1>4. StreamParts(c)'
  BY <1>1, <1>2, <1>3, MovedStream
<1>. QED
  BY <1>1, <1>2, <1>4, OneStream

\* A close may lose the end of what the socket holds.
LEMMA WriteAllCloseStreams ==
    ASSUME TypeOK, Ownership, Streams, NEW c \in Conns, WriteAllClose(c)
    PROVE  Streams'
<1>. USE DEF WriteAllClose, WriteAll
<1>1. /\ life[c] = "live" /\ peer[c] \notin Reset
      /\ life'[c] = "destroyed" /\ \A d \in Conns \ {c} : life'[d] = life[d]
      /\ UNCHANGED <<rcvd, resp, peer>>
  BY HandlingOwner, HandleCloseEffect DEF TypeOK, ConnTypes
<1>2. PICK kept \in 0..Len(Flushed(c)) :
          sndq' = [sndq EXCEPT ![c] = SubSeq(Flushed(c), 1, kept)]
  OBVIOUS
<1>3. /\ sndq'[c] = SubSeq(Flushed(c), 1, kept)
      /\ \A d \in Conns \ {c} : sndq'[d] = sndq[d] /\ output_buffer_'[d] = output_buffer_[d]
  BY <1>2 DEF TypeOK, SockTypes, HttpTypes
<1>. DEFINE a == Len(rcvd[c])
            b == sndq[c]
            o == output_buffer_[c]
            s == Flushed(c)
            total == Pieces * Len(resp[c])
<1>4. /\ b \in Seq(Nat) /\ o \in Seq(Nat) /\ total \in Nat /\ s = b \o o
      /\ a \in Nat /\ Len(b) \in Nat /\ Len(o) \in Nat
  BY StreamTypes DEF Flushed
<1>5. /\ Run(rcvd[c], 0) /\ Run(b, a) /\ Run(o, a + Len(b))
      /\ a + Len(b) + Len(o) = total /\ kept \in 0..Len(s) /\ sndq'[c] = SubSeq(s, 1, kept)
  BY <1>1, <1>3 DEF Streams, StreamParts
<1>6. total = Pieces * Len(resp'[c]) /\ rcvd'[c] = rcvd[c]
  BY <1>1
<1>. HIDE DEF a, b, o, s, total
<1>7. s \in Seq(Nat) /\ Len(s) = Len(b) + Len(o) /\ Run(s, a)
  BY <1>4, <1>5, RunConcat, ConcatProperties
<1>8. Run(SubSeq(s, 1, kept), a) /\ Len(SubSeq(s, 1, kept)) = kept
  BY <1>4, <1>5, <1>7, RunCut
<1>9. a + kept <= total
  BY <1>4, <1>5, <1>7
<1>10. StreamParts(c)'
  BY <1>1, <1>5, <1>6, <1>8, <1>9 DEF StreamParts, a
<1>. DEFINE C == {c}
<1>11. \A d \in Conns \ C : d \in Conns \ {c}
  OBVIOUS
<1>12. \A d \in Conns \cap C : d = c
  OBVIOUS
<1>. HIDE DEF C
<1>. QED
  BY <1>1, <1>3, <1>10, <1>11, <1>12, StreamsFrame

LEMMA CloseStreams ==
    ASSUME TypeOK, Ownership, Streams, NEW c \in Conns,
           DoReadEnd(c) \/ WriteAllClose(c) \/ WriteReset(c)
    PROVE  Streams'
<1>1. CASE DoReadEnd(c) \/ WriteReset(c)
  <2>1. /\ \A d \in Conns : life'[d] = life[d] \/ life'[d] = "destroyed"
        /\ UNCHANGED <<rcvd, sndq, output_buffer_, resp, peer>>
    BY <1>1, HandleCloseEffect DEF DoReadEnd, WriteReset, httpVars, TypeOK, ConnTypes
  <2>. QED
    BY <2>1, SameStreams
<1>. QED
  BY <1>1, WriteAllCloseStreams

LEMMA InitStreams == Init => Streams
<1>. SUFFICES ASSUME Init PROVE Streams
  OBVIOUS
<1>1. Unserved
  BY InitEdges
<1>2. \A c \in Conns : /\ rcvd[c] = <<>> /\ sndq[c] = <<>> /\ output_buffer_[c] = <<>>
                       /\ resp[c] = <<>>
  BY DEF Init
<1>3. Len(<<>>) = 0 /\ Pieces * 0 = 0
  OBVIOUS
<1>4. \A c \in Conns : StreamParts(c)
  <2>. TAKE c \in Conns
  <2>1. /\ Run(rcvd[c], 0) /\ Run(sndq[c], 0) /\ Run(output_buffer_[c], 0)
        /\ Len(rcvd[c]) = 0 /\ Len(sndq[c]) = 0 /\ Len(output_buffer_[c]) = 0
        /\ Pieces * Len(resp[c]) = 0
    BY <1>2, <1>3, RunEmpty
  <2>. QED
    BY <2>1 DEF StreamParts
<1>. QED
  BY <1>1, <1>4 DEF Streams
-----------------------------------------------------------------------------
(***************************************************************************)
(* What a step may do to the life of a connection.                         *)
(***************************************************************************)
\* ClosesAfterFlush, of one step.
ClosesProperly ==
    \A c \in Conns :
        life[c] = "live" /\ life'[c] = "destroyed" /\ peer[c] = "up"
            => ~keep_alive_[c] /\ resp[c] # <<>> /\ output_buffer_'[c] = <<>>

\* Only handle_close destroys a connection: do_read calls it when the peer went
\* away, do_write when it flushed the last reply or met a reset.
LEMMA CloseProperly ==
    ASSUME TypeOK, Ownership, Streams, NEW c \in Conns,
           DoReadEnd(c) \/ WriteAllClose(c) \/ WriteReset(c)
    PROVE  ClosesProperly
<1>1. \A d \in Conns \ {c} : life'[d] = life[d]
  BY HandleCloseEffect DEF DoReadEnd, WriteReset, WriteAllClose, WriteAll, TypeOK, ConnTypes
<1>2. CASE DoReadEnd(c) \/ WriteReset(c)
  BY <1>1, <1>2 DEF DoReadEnd, ReadEnds, WriteReset, ClosesProperly
<1>3. CASE WriteAllClose(c)
  <2>. USE <1>3 DEF WriteAllClose, WriteAll
  <2>1. /\ ~keep_alive_[c] /\ output_buffer_'[c] = <<>> /\ output_buffer_[c] # <<>>
        /\ life[c] = "live" /\ peer[c] \notin Reset
    BY HandlingOwner DEF TypeOK, HttpTypes
  <2>2. resp[c] # <<>>
    <3>. SUFFICES ASSUME resp[c] = <<>> PROVE FALSE
      OBVIOUS
    <3>1. Len(rcvd[c]) + Len(sndq[c]) + Len(output_buffer_[c]) = Pieces * Len(resp[c])
      BY <2>1 DEF Streams, StreamParts
    <3>2. Pieces * Len(resp[c]) = 0
      OBVIOUS
    <3>. DEFINE i == Len(rcvd[c])
                j == Len(sndq[c])
                k == Len(output_buffer_[c])
    <3>3. i \in Nat /\ j \in Nat /\ output_buffer_[c] \in Seq(Nat)
      BY StreamTypes
    <3>4. k \in Nat \ {0}
      BY <2>1, <3>3, EmptySeq
    <3>5. i + j + k = 0
      BY <3>1, <3>2
    <3>. HIDE DEF i, j, k
    <3>. QED
      BY <3>3, <3>4, <3>5
  <2>. QED
    BY <1>1, <2>1, <2>2 DEF ClosesProperly
<1>. QED
  BY <1>2, <1>3

\* Everything else keeps live connections alive.
LEMMA OtherwiseProperly ==
    ASSUME \A c \in Conns : life[c] = "live" => life'[c] # "destroyed"
    PROVE  ClosesProperly
  BY DEF ClosesProperly

LEMMA EdgesHangup == Edges => HangupIsRead
  BY DEF Edges, HupRead, HangupIsRead
-----------------------------------------------------------------------------
(***************************************************************************)
(* The service.  A reply answers the request whose last segment do_read    *)
(* found, so the requests still to be answered are the ones in the receive *)
(* queue: all later than the last one answered, and all asked.             *)
(***************************************************************************)
\* The requests of which the client sent everything.
Completed(c) == IF asking[c] = NoRequest THEN asked[c] ELSE asked[c] - 1

LastId(c) == IF resp[c] = <<>> THEN 0 ELSE resp[c][Len(resp[c])].id

Numbered(c) ==
    /\ asking[c] # NoRequest => asked[c] > 0
    /\ LastId(c) <= Completed(c)
    /\ \A i \in 1..Len(inq[c]) : inq[c][i].part # "head" =>
           LastId(c) < inq[c][i].id /\ inq[c][i].id <= Completed(c)
    /\ life[c] # "destroyed" => input_buffer_[c] = <<>>

Numbers == \A c \in Conns : Numbered(c)

LEMMA NumberTypes ==
    ASSUME TypeOK, NEW c \in Conns
    PROVE  /\ asked[c] \in Nat /\ inq[c] \in Seq(Tokens) /\ Len(inq[c]) \in Nat
           /\ resp[c] \in Seq(Replies) /\ Len(resp[c]) \in Nat /\ LastId(c) \in Nat
           /\ \A i \in 1..Len(inq[c]) : inq[c][i].id \in Nat
<1>1. /\ asked[c] \in Nat /\ inq[c] \in Seq(Tokens) /\ Len(inq[c]) \in Nat
      /\ resp[c] \in Seq(Replies) /\ Len(resp[c]) \in Nat
  BY LenProperties DEF TypeOK, PeerTypes, SockTypes, HttpTypes
<1>2. ASSUME NEW i \in 1..Len(inq[c]) PROVE inq[c][i].id \in Nat
  <2>1. inq[c][i] \in Tokens
    BY <1>1, ElementOfSeq
  <2>. QED
    BY <2>1 DEF Tokens
<1>3. LastId(c) \in Nat
  <2>1. CASE resp[c] = <<>>
    BY <2>1 DEF LastId
  <2>2. CASE resp[c] # <<>>
    <3>1. Len(resp[c]) \in 1..Len(resp[c])
      BY <1>1, <2>2, EmptySeq
    <3>2. resp[c][Len(resp[c])] \in Replies
      BY <1>1, <3>1, ElementOfSeq
    <3>. QED
      BY <2>2, <3>2 DEF LastId, Replies
  <2>. QED
    BY <2>1, <2>2
<1>. QED
  BY <1>1, <1>2, <1>3

\* Only connection c is concerned.
LEMMA NumbersFrame ==
    ASSUME Numbers, NEW c,
           \A d \in Conns \ {c} :
               /\ asked'[d] = asked[d] /\ asking'[d] = asking[d] /\ resp'[d] = resp[d]
               /\ inq'[d] = inq[d] /\ input_buffer_'[d] = input_buffer_[d]
               /\ life'[d] # "destroyed" => life[d] # "destroyed",
           c \in Conns => Numbered(c)'
    PROVE  Numbers'
<1>1. ASSUME NEW d \in Conns \ {c} PROVE Numbered(d)'
  BY DEF Numbers, Numbered, Completed, LastId
<1>. QED
  BY <1>1 DEF Numbers

LEMMA SameNumbers ==
    ASSUME Numbers, UNCHANGED <<asked, asking, resp, inq, input_buffer_>>,
           \A d \in Conns : life'[d] # "destroyed" => life[d] # "destroyed"
    PROVE  Numbers'
  BY DEF Numbers, Numbered, Completed, LastId

\* A request, or its first or last segment, arrives.
LEMMA ArrivesNumbers ==
    ASSUME TypeOK, Numbers, NEW c \in Conns, NEW r \in Requests,
           SendRequest(c, r) \/ SendHead(c, r) \/ SendTail(c)
    PROVE  Numbers'
<1>. USE DEF Arrives, connVars, httpVars
<1>1. /\ asked[c] \in Nat /\ inq[c] \in Seq(Tokens) /\ Len(inq[c]) \in Nat /\ LastId(c) \in Nat
      /\ asking[c] \in Requests \cup {NoRequest} /\ r # NoRequest
      /\ \A i \in 1..Len(inq[c]) : inq[c][i].id \in Nat
  BY NumberTypes DEF TypeOK, PeerTypes
<1>2. /\ Numbered(c) /\ LastId(c)' = LastId(c)
      /\ UNCHANGED <<resp, input_buffer_, life>>
  BY DEF Numbers, LastId, SendRequest, SendHead, SendTail
<1>3. /\ Completed(c) <= Completed(c)' /\ (asking'[c] # NoRequest => asked'[c] > 0)
      /\ Completed(c) \in Nat /\ Completed(c)' \in Nat
      /\ \A d \in Conns \ {c} : asked'[d] = asked[d] /\ asking'[d] = asking[d]
  BY <1>1, <1>2 DEF SendRequest, SendHead, SendTail, MayAsk, Completed, Numbered, TypeOK, PeerTypes
<1>4. PICK tokens \in Seq(Tokens) :
          /\ inq'[c] = inq[c] \o tokens
          /\ Len(tokens) \in Nat
          /\ \A i \in 1..Len(tokens) : tokens[i].part # "head" =>
                LastId(c) < tokens[i].id /\ tokens[i].id <= Completed(c)'
  <2>1. CASE SendRequest(c, r)
    <3>. DEFINE n == asked[c] + 1
                tokens == <<Token(n, "head", r), Token(n, "tail", r)>>
    <3>1. Completed(c)' = n /\ LastId(c) < n
      BY <1>1, <1>2, <2>1 DEF SendRequest, MayAsk, Completed, Numbered, TypeOK, PeerTypes
    <3>2. n \in Nat
      BY <1>1
    <3>3. tokens \in Seq(Tokens) /\ Len(tokens) \in Nat
      BY <3>2, TokenType
    <3>4. \A i \in 1..Len(tokens) : tokens[i].id = n
      BY DEF Token
    <3>5. inq'[c] = inq[c] \o tokens
      BY <2>1 DEF SendRequest, TypeOK, SockTypes
    <3>. HIDE DEF tokens, n
    <3>6. \A i \in 1..Len(tokens) :
              LastId(c) < tokens[i].id /\ tokens[i].id <= Completed(c)'
      BY <3>1, <3>2, <3>4
    <3>. QED
      BY <3>3, <3>5, <3>6
  <2>2. CASE SendHead(c, r)
    <3>. DEFINE n == asked[c] + 1
                tokens == <<Token(n, "head", r)>>
    <3>1. n \in Nat
      BY <1>1
    <3>2. tokens \in Seq(Tokens) /\ Len(tokens) = 1
      BY <3>1, TokenType
    <3>3. \A i \in 1..Len(tokens) : tokens[i].part = "head"
      BY DEF Token
    <3>. QED
      BY <2>2, <3>2, <3>3 DEF SendHead, TypeOK, SockTypes
  <2>3. CASE SendTail(c)
    <3>0. PICK part \in {"tail", "end"} : Arrives(c, <<Token(asked[c], part, asking[c])>>)
      BY <2>3 DEF SendTail
    <3>. DEFINE n == asked[c]
                tokens == <<Token(n, part, asking[c])>>
    <3>1. Completed(c)' = n /\ LastId(c) < n
      BY <1>1, <1>2, <2>3 DEF SendTail, Completed, Numbered, TypeOK, PeerTypes
    <3>2. n \in Nat /\ asking[c] \in Requests
      BY <1>1, <2>3 DEF SendTail
    <3>3. tokens \in Seq(Tokens) /\ Len(tokens) = 1
      BY <3>2, TokenType
    <3>4. \A i \in 1..Len(tokens) : tokens[i].id = n
      BY DEF Token
    <3>5. inq'[c] = inq[c] \o tokens
      BY <3>0 DEF Arrives, TypeOK, SockTypes
    <3>. HIDE DEF tokens, n
    <3>6. \A i \in 1..Len(tokens) :
              LastId(c) < tokens[i].id /\ tokens[i].id <= Completed(c)'
      BY <3>1, <3>2, <3>4
    <3>. QED
      BY <3>3, <3>5, <3>6
  <2>. QED
    BY <2>1, <2>2, <2>3
<1>. DEFINE q == inq[c]
<1>5. inq'[c] = q \o tokens /\ \A d \in Conns \ {c} : inq'[d] = inq[d]
  BY <1>4 DEF SendRequest, SendHead, SendTail, TypeOK, SockTypes
<1>6. /\ q \in Seq(Tokens) /\ Len(q) \in Nat /\ \A i \in 1..Len(q) : q[i].id \in Nat
      /\ \A i \in 1..Len(q) : q[i].part # "head" => LastId(c) < q[i].id /\ q[i].id <= Completed(c)
      /\ LastId(c) <= Completed(c)
  BY <1>1, <1>2 DEF Numbered
<1>. HIDE DEF q
<1>7. /\ Len(q \o tokens) = Len(q) + Len(tokens)
      /\ \A i \in 1..Len(q) + Len(tokens) :
            (q \o tokens)[i] = IF i <= Len(q) THEN q[i] ELSE tokens[i - Len(q)]
  BY <1>6, ConcatProperties
<1>8. ASSUME NEW i \in 1..Len(q) + Len(tokens), (q \o tokens)[i].part # "head"
      PROVE  LastId(c) < (q \o tokens)[i].id /\ (q \o tokens)[i].id <= Completed(c)'
  <2>1. CASE i <= Len(q)
    <3>1. i \in 1..Len(q) /\ (q \o tokens)[i] = q[i]
      BY <1>6, <1>7, <2>1
    <3>2. LastId(c) < q[i].id /\ q[i].id <= Completed(c) /\ q[i].id \in Nat
      BY <1>6, <1>8, <3>1
    <3>. QED
      BY <1>3, <3>1, <3>2
  <2>2. CASE ~(i <= Len(q))
    <3>1. i - Len(q) \in 1..Len(tokens) /\ (q \o tokens)[i] = tokens[i - Len(q)]
      BY <1>4, <1>6, <1>7, <2>2
    <3>. QED
      BY <1>4, <1>8, <3>1
  <2>. QED
    BY <2>1, <2>2
<1>9. LastId(c) <= Completed(c)'
  BY <1>1, <1>3, <1>6
<1>10. Numbered(c)'
  BY <1>2, <1>3, <1>5, <1>7, <1>8, <1>9 DEF Numbered
<1>. QED
  BY <1>2, <1>3, <1>5, <1>10, NumbersFrame

LEMMA ClientsNumbers ==
    ASSUME TypeOK, Numbers, Clients
    PROVE  Numbers'
<1>. PICK c \in Conns :
        \/ Connect(c)
        \/ \E r \in Requests : SendRequest(c, r) \/ SendHead(c, r)
        \/ SendTail(c)
        \/ Fin(c)
        \/ Rst(c)
        \/ Receive(c)
  BY DEF Clients
<1>1. CASE \E r \in Requests : SendRequest(c, r) \/ SendHead(c, r)
  BY <1>1, ArrivesNumbers
<1>2. CASE SendTail(c)
  <2>1. asking[c] \in Requests
    BY <1>2 DEF SendTail, TypeOK, PeerTypes
  <2>. QED
    BY <1>2, <2>1, ArrivesNumbers
<1>3. CASE Connect(c) \/ Fin(c) \/ Rst(c) \/ Receive(c)
  BY <1>3, SameNumbers DEF Connect, Fin, Rst, Receive, sockVars, connVars, httpVars
<1>. QED
  BY <1>1, <1>2, <1>3

LEMMA NewConnectionNumbers ==
    ASSUME TypeOK, Ownership, Numbers, NEW c \in Conns, NEW f \in Fds, NEW registered \in BOOLEAN,
           NewConnection(c, f, registered),
           UNCHANGED <<asked, asking, inq, input_buffer_, resp>>
    PROVE  Numbers'
<1>1. life[c] = "none"
  <2>1. 1 \in DOMAIN backlog /\ backlog[1] = c
    BY HeadTailProperties, LenProperties DEF TypeOK, SockTypes, NewConnection
  <2>. QED
    BY <2>1 DEF Ownership, BacklogFresh
<1>2. \A d \in Conns : life'[d] = IF d = c THEN "live" ELSE life[d]
  BY DEF NewConnection, TypeOK, ConnTypes
<1>. QED
  BY <1>1, <1>2, SameNumbers

LEMMA AcceptNumbers ==
    ASSUME TypeOK, Ownership, Numbers, Accept
    PROVE  Numbers'
  BY NewConnectionNumbers DEF Accept, peerVars, httpVars

LEMMA LoopNumbers ==
    ASSUME TypeOK, Numbers, NEW from,
           \/ EpollWait(from) \/ DispatchAcceptor
           \/ \E f \in Fds : Dispatch(f)
           \/ \E c \in Conns : WriteBroken(c) \/ WriteAllKeep(c) \/ WriteSome(c)
    PROVE  Numbers'
<1>1. UNCHANGED <<asked, asking, inq, input_buffer_, resp, life>>
  BY DEF EpollWait, DispatchAcceptor, Dispatch, WriteBroken, WriteAllKeep, WriteAll, WriteSome,
         peerVars, sockVars, connVars, httpVars
<1>. QED
  BY <1>1, SameNumbers

\* What the read callback finds in a destroyed object is dropped.
LEMMA RunOnDestroyedNumbers ==
    ASSUME TypeOK, Numbers, RunOnDestroyed
    PROVE  Numbers'
<1>. USE DEF RunOnDestroyed, peerVars, sockVars, connVars
<1>1. /\ UNCHANGED <<asked, asking, inq, resp, life>>
      /\ \A d \in Conns : input_buffer_'[d] = input_buffer_[d] \/ input_buffer_'[d] = <<>>
  BY DEF TypeOK, HttpTypes
<1>. QED
  BY <1>1 DEF Numbers, Numbered, Completed, LastId

LEMMA CloseNumbers ==
    ASSUME TypeOK, Ownership, Numbers, NEW c \in Conns,
           DoReadEnd(c) \/ WriteAllClose(c) \/ WriteReset(c)
    PROVE  Numbers'
<1>1. /\ life'[c] = "destroyed" /\ \A d \in Conns \ {c} : life'[d] = life[d]
      /\ UNCHANGED <<asked, asking>>
  BY HandleCloseEffect DEF DoReadEnd, WriteReset, WriteAllClose, WriteAll, TypeOK, ConnTypes
<1>2. /\ inq'[c] = <<>> /\ UNCHANGED resp
      /\ \A d \in Conns \ {c} : inq'[d] = inq[d] /\ input_buffer_'[d] = input_buffer_[d]
  BY DEF DoReadEnd, WriteReset, WriteAllClose, WriteAll, Released, httpVars,
         TypeOK, SockTypes, HttpTypes
<1>3. Numbered(c)'
  <2>1. Len(<<>>) = 0
    OBVIOUS
  <2>2. Len(inq'[c]) = 0
    BY <1>2, <2>1
  <2>3. /\ asking[c] # NoRequest => asked[c] > 0
        /\ LastId(c) <= Completed(c)
    BY DEF Numbers, Numbered
  <2>. QED
    BY <1>1, <1>2, <2>2, <2>3 DEF Numbered, Completed, LastId
<1>. QED
  BY <1>1, <1>2, <1>3, NumbersFrame

\* What handle_input answers to what is left of a split request.
Refusals == {400, 403, 405}

LEMMA RefusalType ==
    ASSUME NEW token \in Tokens, NEW status \in Refusals
    PROVE  /\ Reply(token, status, TRUE) \in Replies
           /\ Reply(token, status, TRUE).id = token.id
           /\ Reply(token, status, TRUE).status # 200
           /\ Reply(token, status, TRUE).close
<1>1. status \in Statuses /\ TRUE \in BOOLEAN
  BY DEF Refusals, Statuses
<1>2. Reply(token, status, TRUE) \in Replies
  BY <1>1, ReplyType
<1>. QED
  BY <1>2 DEF Reply, Refusals

\* There is no other answer to it.
LEMMA GarbledRefused ==
    ASSUME NEW c \in Conns, NEW buf \in Seq(Tokens), NEW i \in DOMAIN buf,
           HandleGarbled(c, buf, i)
    PROVE  \E status \in Refusals : Send(c, Reply(buf[i], status, TRUE))
<1>1. CASE Send(c, Reply(buf[i], 400, TRUE))
  BY <1>1 DEF Refusals
<1>2. CASE \E status \in {403, 405} : Send(c, Reply(buf[i], status, TRUE))
  BY <1>2 DEF Refusals
<1>. QED
  BY <1>1, <1>2 DEF HandleGarbled

\* What handle_input answers: the request whose last segment it found.
LEMMA AnsweredRequest ==
    ASSUME TypeOK, NEW c \in Conns, NEW buf \in Seq(Tokens), HandleInput(c, buf)
    PROVE  \/ /\ UNCHANGED <<output_buffer_, resp, epi, ready>>
              /\ proc' = proc \/ proc' = "threw"
           \/ \E reply \in Replies : \E i \in DOMAIN buf :
                 Send(c, reply) /\ reply.id = buf[i].id /\ buf[i].part # "head"
<1>1. CASE HandleIncomplete(c, buf)
  BY <1>1 DEF HandleIncomplete
<1>2. ASSUME NEW i \in DOMAIN buf, HandleGarbled(c, buf, i) \/ HandleWhole(c, buf, i)
      PROVE  \/ UNCHANGED <<output_buffer_, resp, epi, ready>> /\ proc' = "threw"
             \/ \E reply \in Replies :
                   Send(c, reply) /\ reply.id = buf[i].id /\ buf[i].part # "head"
  <2>1. buf[i].part # "head"
    BY <1>2 DEF HandleGarbled, HandleWhole, FirstHeaderEnd, HeaderEnds
  <2>2. buf[i] \in Tokens /\ buf[i].req \in Requests
    BY TokenFieldTypes
  <2>3. CASE HandleGarbled(c, buf, i)
    <3>1. PICK status \in Refusals : Send(c, Reply(buf[i], status, TRUE))
      BY <2>3, GarbledRefused
    <3>2. Reply(buf[i], status, TRUE) \in Replies /\ Reply(buf[i], status, TRUE).id = buf[i].id
      BY <2>2, RefusalType
    <3>. QED
      BY <2>1, <3>1, <3>2
  <2>4. CASE HandleWhole(c, buf, i)
    <3>. DEFINE stored == MergedHeaders(headers_[c], buf[i].req)
    <3>1. (ErrorReply(buf[i].req) \/ ~KeepAlive(stored, buf[i].req)) \in BOOLEAN
      OBVIOUS
    <3>2. ReplyTo(buf, i, stored) \in Replies /\ ReplyTo(buf, i, stored).id = buf[i].id
      BY <2>2, <3>1, StatusType, ReplyType DEF ReplyTo, Reply
    <3>. QED
      BY <2>1, <2>4, <3>2 DEF HandleWhole
  <2>. QED
    BY <1>2, <2>3, <2>4
<1>. QED
  BY <1>1, <1>2 DEF HandleInput

\* A live connection keeps no input between two reads, so the handler sees what the
\* socket had, and all of it.
LEMMA DoReadInput ==
    ASSUME TypeOK, Ownership, Numbers, NEW c \in Conns, DoRead(c)
    PROVE  /\ HandleInput(c, inq[c]) /\ inq[c] \in Seq(Tokens)
           /\ inq'[c] = <<>> /\ \A d \in Conns \ {c} : inq'[d] = inq[d]
<1>. USE DEF DoRead
<1>1. inq[c] \in Seq(Tokens) /\ Len(inq[c]) \in Nat
  BY NumberTypes
<1>2. input_buffer_[c] = <<>>
  BY HandlingOwner DEF Numbers, Numbered
<1>3. /\ Drained(c)[c] = <<>> /\ inq' = Drained(c)
      /\ \A d \in Conns \ {c} : inq'[d] = inq[d]
  BY DEF Drained, TypeOK, SockTypes
<1>4. Collected(c) = inq[c]
  <2>1. Len(inq[c]) - Len(Drained(c)[c]) = Len(inq[c])
    BY <1>1, <1>3
  <2>2. SubSeq(inq[c], 1, Len(inq[c])) = inq[c]
    BY <1>1, SubSeqFull
  <2>. QED
    BY <2>1, <2>2 DEF Collected
<1>5. input_buffer_[c] \o Collected(c) = inq[c]
  BY <1>1, <1>2, <1>4, ConcatEmptySeq
<1>. QED
  BY <1>1, <1>3, <1>5

\* do_read answers at most one request, a later one than the last, and one that was
\* asked; what is left in the queue is gone.
LEMMA DoReadNumbers ==
    ASSUME TypeOK, Ownership, Numbers, NEW c \in Conns, DoRead(c)
    PROVE  /\ Numbers'
           /\ UNCHANGED <<rcvd, life, asked>> /\ life[c] = "live"
           /\ \/ UNCHANGED resp
              \/ \E reply \in Replies : /\ resp' = [resp EXCEPT ![c] = Append(@, reply)]
                                        /\ LastId(c) < reply.id /\ reply.id <= asked[c]
<1>. USE DEF DoRead, peerVars, connVars
<1>1. /\ Numbered(c) /\ life[c] = "live"
      /\ UNCHANGED <<asked, asking, rcvd, life>>
  BY HandlingOwner DEF Numbers
<1>2. /\ inq'[c] = <<>> /\ input_buffer_'[c] = <<>>
      /\ \A d \in Conns \ {c} : inq'[d] = inq[d] /\ input_buffer_'[d] = input_buffer_[d]
  BY DEF Drained, ClearedInput, TypeOK, SockTypes, HttpTypes
<1>3. HandleInput(c, inq[c]) /\ inq[c] \in Seq(Tokens)
  BY DoReadInput
<1>4. /\ asked[c] \in Nat /\ LastId(c) \in Nat
      /\ asking[c] # NoRequest => asked[c] > 0
      /\ LastId(c) <= Completed(c) /\ Completed(c) <= asked[c] /\ Completed(c) \in Nat
  BY <1>1, NumberTypes DEF Numbered, Completed
<1>5. Len(<<>>) = 0
  OBVIOUS
<1>6. CASE UNCHANGED resp
  <2>1. Numbered(c)'
    BY <1>1, <1>2, <1>4, <1>5, <1>6 DEF Numbered, Completed, LastId
  <2>. QED
    BY <1>1, <1>2, <1>6, <2>1, NumbersFrame
<1>7. ASSUME NEW reply \in Replies, NEW i \in DOMAIN inq[c],
             Send(c, reply), reply.id = inq[c][i].id, inq[c][i].part # "head"
      PROVE  /\ Numbers' /\ resp' = [resp EXCEPT ![c] = Append(@, reply)]
             /\ LastId(c) < reply.id /\ reply.id <= asked[c]
  <2>1. i \in 1..Len(inq[c])
    BY <1>3, <1>7, LenProperties
  <2>2. LastId(c) < reply.id /\ reply.id <= Completed(c) /\ reply.id \in Nat
    BY <1>1, <1>7, <2>1 DEF Numbered, Replies
  <2>3. /\ resp'[c] = Append(resp[c], reply) /\ resp[c] \in Seq(Replies)
        /\ \A d \in Conns \ {c} : resp'[d] = resp[d]
        /\ resp' = [resp EXCEPT ![c] = Append(@, reply)]
    BY <1>7, SendEffect DEF Send
  <2>4. LastId(c)' = reply.id
    <3>1. /\ Append(resp[c], reply) # <<>> /\ Len(Append(resp[c], reply)) = Len(resp[c]) + 1
          /\ Append(resp[c], reply)[Len(resp[c]) + 1] = reply
      BY <1>7, <2>3, AppendProperties
    <3>. QED
      BY <2>3, <3>1 DEF LastId
  <2>5. Numbered(c)'
    BY <1>1, <1>2, <1>4, <1>5, <2>2, <2>4 DEF Numbered, Completed
  <2>6. Numbers'
    BY <1>1, <1>2, <2>3, <2>5, NumbersFrame
  <2>. QED
    BY <1>4, <2>2, <2>3, <2>6
<1>8. \/ UNCHANGED resp
      \/ \E reply \in Replies : \E i \in DOMAIN inq[c] :
             Send(c, reply) /\ reply.id = inq[c][i].id /\ inq[c][i].part # "head"
  BY <1>3, AnsweredRequest
<1>. QED
  BY <1>1, <1>6, <1>7, <1>8

LEMMA InitNumbers == Init => Numbers
<1>. SUFFICES ASSUME Init, NEW c \in Conns PROVE Numbered(c)
  BY DEF Numbers
<1>1. /\ asked[c] = 0 /\ asking[c] = NoRequest /\ inq[c] = <<>> /\ resp[c] = <<>>
      /\ input_buffer_[c] = <<>>
  BY DEF Init
<1>2. Len(<<>>) = 0
  OBVIOUS
<1>. QED
  BY <1>1, <1>2 DEF Numbered, Completed, LastId
-----------------------------------------------------------------------------
(***************************************************************************)
(* Each step is one of HttpService, or is not visible there.               *)
(***************************************************************************)
\* HttpService's "answered" and "ended", as EpollReactor's Service defines them.
Answers == [c \in Conns |-> [k \in DOMAIN resp[c] |-> resp[c][k].id]]
Ends    == [c \in Conns |-> life[c] = "destroyed"]

LEMMA QuietServes ==
    ASSUME UNCHANGED <<asked, resp, rcvd>>,
           \A c \in Conns : life'[c] = "destroyed" <=> life[c] = "destroyed"
    PROVE  UNCHANGED Service!vars
<1>1. Ends' = Ends
  <2>1. \A c \in Conns : (life'[c] = "destroyed") = (life[c] = "destroyed")
    OBVIOUS
  <2>. QED
    BY <2>1 DEF Ends
<1>2. Answers' = Answers
  BY DEF Answers
<1>. QED
  BY <1>1, <1>2 DEF Service!vars, Answers, Ends

LEMMA AskServes ==
    ASSUME NEW c \in Conns, life[c] # "destroyed", asked' = [asked EXCEPT ![c] = @ + 1],
           UNCHANGED <<resp, rcvd, life>>
    PROVE  Service!Next
<1>1. ~[d \in Conns |-> life[d] = "destroyed"][c]
  OBVIOUS
<1>2. Service!Ask(c)
  BY <1>1 DEF Service!Ask
<1>. QED
  BY <1>2 DEF Service!Next

LEMMA ReceiveServes ==
    ASSUME TypeOK, Streams, NEW c \in Conns, Receive(c)
    PROVE  Service!Next
<1>1. /\ Head(sndq[c]) = Len(rcvd[c]) + 1 /\ Len(rcvd[c]) < Pieces * Len(resp[c])
      /\ rcvd' = [rcvd EXCEPT ![c] = Append(@, Head(sndq[c]))]
      /\ UNCHANGED <<asked, resp, life>>
  BY ReceiveStreams DEF Receive, connVars, httpVars
<1>2. Len(Answers[c]) = Len(resp[c])
  <2>1. resp[c] \in Seq(Replies) /\ Len(resp[c]) \in Nat /\ DOMAIN resp[c] = 1..Len(resp[c])
    BY StreamTypes, LenProperties
  <2>. DEFINE r == resp[c]
              n == Len(resp[c])
  <2>2. Answers[c] = [k \in 1..n |-> r[k].id] /\ n \in Nat
    BY <2>1 DEF Answers
  <2>. HIDE DEF r, n
  <2>3. Len([k \in 1..n |-> r[k].id]) = n
    BY <2>2
  <2>. QED
    BY <2>2, <2>3 DEF n
<1>3. rcvd' = [rcvd EXCEPT ![c] = Append(@, Len(@) + 1)]
  BY <1>1
<1>4. Service!Deliver(c)
  BY <1>1, <1>2, <1>3 DEF Service!Deliver, Answers
<1>. QED
  BY <1>4 DEF Service!Next

LEMMA AnswerServes ==
    ASSUME TypeOK, NEW c \in Conns, life[c] # "destroyed", NEW reply \in Replies,
           resp' = [resp EXCEPT ![c] = Append(@, reply)],
           LastId(c) < reply.id, reply.id <= asked[c], UNCHANGED <<asked, rcvd, life>>
    PROVE  Service!Next
<1>. DEFINE r == resp[c]
            n == reply.id
<1>1. /\ r \in Seq(Replies) /\ Len(r) \in Nat /\ DOMAIN r = 1..Len(r)
      /\ asked[c] \in Nat /\ n \in Nat /\ LastId(c) \in Nat
  BY NumberTypes, LenProperties DEF Replies
<1>. DEFINE ids == [k \in DOMAIN r |-> r[k].id]
            more == [k \in DOMAIN Append(r, reply) |-> Append(r, reply)[k].id]
<1>2. /\ Append(r, reply) \in Seq(Replies) /\ Len(Append(r, reply)) = Len(r) + 1
      /\ DOMAIN Append(r, reply) = 1..Len(r) + 1
      /\ \A k \in 1..Len(r) : Append(r, reply)[k] = r[k]
      /\ Append(r, reply)[Len(r) + 1] = reply
  BY <1>1, AppendProperties, LenProperties
<1>3. ids \in Seq(Nat) /\ Len(ids) = Len(r) /\ \A k \in 1..Len(r) : ids[k] = r[k].id
  <2>1. ASSUME NEW k \in 1..Len(r) PROVE r[k].id \in Nat
    <3>1. r[k] \in Replies
      <4>. HIDE DEF r
      <4>. QED
        BY <1>1, ElementOfSeq
    <3>. HIDE DEF r
    <3>. QED
      BY <3>1 DEF Replies
  <2>. DEFINE m == Len(r)
  <2>2. ids = [k \in 1..m |-> r[k].id] /\ m \in Nat
    BY <1>1
  <2>. HIDE DEF m, r
  <2>3. Len([k \in 1..m |-> r[k].id]) = m
    BY <2>2
  <2>4. ids \in [1..m -> Nat]
    BY <2>1, <2>2 DEF m
  <2>. QED
    BY <2>2, <2>3, <2>4 DEF m
<1>4. more = Append(ids, n)
  <2>1. Len(Append(ids, n)) = Len(r) + 1 /\ Append(ids, n) \in Seq(Nat)
        /\ \A k \in 1..Len(r) : Append(ids, n)[k] = ids[k]
        /\ Append(ids, n)[Len(r) + 1] = n
    BY <1>1, <1>3, AppendProperties
  <2>2. DOMAIN Append(ids, n) = 1..Len(r) + 1
    BY <2>1, LenProperties
  <2>3. \A k \in 1..Len(r) + 1 : k \in 1..Len(r) \/ k = Len(r) + 1
    <3>. DEFINE m == Len(r)
    <3>. HIDE DEF m
    <3>1. m \in Nat => \A k \in 1..m + 1 : k \in 1..m \/ k = m + 1
      OBVIOUS
    <3>. QED
      BY <1>1, <3>1 DEF m
  <2>4. \A k \in 1..Len(r) + 1 : Append(r, reply)[k].id = Append(ids, n)[k]
    BY <1>2, <1>3, <2>1, <2>3
  <2>5. Append(ids, n) = [k \in 1..Len(r) + 1 |-> Append(ids, n)[k]]
    BY <2>1, <2>2, LenProperties
  <2>6. more = [k \in 1..Len(r) + 1 |-> Append(r, reply)[k].id]
    BY <1>2
  <2>. HIDE DEF ids, more, r, n
  <2>. QED
    BY <2>4, <2>5, <2>6
<1>5. Answers[c] = ids /\ \A d \in Conns : Answers'[d] = IF d = c THEN Append(ids, n) ELSE Answers[d]
  <2>1. Answers[c] = ids
    BY DEF Answers
  <2>2. \A d \in Conns : resp'[d] = IF d = c THEN Append(r, reply) ELSE resp[d]
    BY DEF TypeOK, HttpTypes
  <2>3. \A d \in Conns : Answers'[d] = [k \in DOMAIN resp'[d] |-> resp'[d][k].id]
    BY DEF Answers
  <2>4. Answers'[c] = more
    <3>. DEFINE longer == Append(r, reply)
    <3>1. resp'[c] = longer
      BY <2>2
    <3>2. Answers'[c] = [k \in DOMAIN resp'[c] |-> resp'[c][k].id]
      BY <2>3
    <3>3. more = [k \in DOMAIN longer |-> longer[k].id]
      OBVIOUS
    <3>. HIDE DEF longer, more
    <3>. QED
      BY <3>1, <3>2, <3>3
  <2>5. \A d \in Conns \ {c} : Answers'[d] = Answers[d]
    BY <2>2, <2>3 DEF Answers
  <2>. HIDE DEF ids, more
  <2>. QED
    BY <1>4, <2>1, <2>4, <2>5
<1>6. Answers' = [Answers EXCEPT ![c] = Append(@, n)]
  <2>1. /\ Answers' = [d \in Conns |-> Answers'[d]]
        /\ Answers = [d \in Conns |-> Answers[d]]
    BY DEF Answers
  <2>. HIDE DEF ids, n
  <2>. QED
    BY <1>5, <2>1
<1>7. LastId(c) = IF Answers[c] = <<>> THEN 0 ELSE Answers[c][Len(Answers[c])]
  <2>1. ids = <<>> <=> r = <<>>
    <3>1. Len(<<>>) = 0
      OBVIOUS
    <3>. HIDE DEF ids, r
    <3>2. ids = <<>> <=> Len(ids) = 0
      BY <1>3, <3>1, EmptySeq
    <3>3. r = <<>> <=> Len(r) = 0
      BY <1>1, <3>1, EmptySeq
    <3>. QED
      BY <1>3, <3>2, <3>3
  <2>2. r # <<>> => Len(r) \in 1..Len(r)
    BY <1>1, EmptySeq
  <2>. HIDE DEF ids
  <2>. QED
    BY <1>3, <1>5, <2>1, <2>2 DEF LastId
<1>8. Service!Answer(c, n)
  <2>1. ~Ends[c] /\ Ends' = Ends
    BY DEF Ends
  <2>2. Service!LastAnswered(c) = LastId(c)
    BY <1>7 DEF Service!LastAnswered, Answers
  <2>. HIDE DEF n
  <2>3. LastId(c) < n /\ n <= asked[c]
    BY DEF n
  <2>. QED
    BY <1>6, <2>1, <2>2, <2>3 DEF Service!Answer, Answers, Ends
<1>9. n \in 1..asked[c]
  BY <1>1
<1>. QED
  BY <1>8, <1>9 DEF Service!Next

LEMMA CloseServes ==
    ASSUME TypeOK, Ownership, NEW c \in Conns,
           DoReadEnd(c) \/ WriteAllClose(c) \/ WriteReset(c)
    PROVE  Service!Next
<1>1. /\ life[c] = "live" /\ life' = [life EXCEPT ![c] = "destroyed"]
      /\ UNCHANGED <<asked, resp, rcvd>>
  BY HandlingOwner, HandleCloseEffect DEF DoReadEnd, WriteReset, WriteAllClose, WriteAll, httpVars
<1>2. \A d \in Conns : (life'[d] = "destroyed") = (IF d = c THEN TRUE ELSE life[d] = "destroyed")
  BY <1>1 DEF TypeOK, ConnTypes
<1>3. Ends' = [Ends EXCEPT ![c] = TRUE] /\ ~Ends[c]
  BY <1>1, <1>2 DEF Ends
<1>4. Answers' = Answers
  BY <1>1 DEF Answers
<1>5. Service!End(c)
  BY <1>1, <1>3, <1>4 DEF Service!End, Ends, Answers
<1>. QED
  BY <1>5 DEF Service!Next

LEMMA ClientsServes ==
    ASSUME TypeOK, Streams, Clients
    PROVE  Service!Next \/ UNCHANGED Service!vars
<1>. USE DEF connVars, httpVars
<1>. PICK c \in Conns :
        \/ Connect(c)
        \/ \E r \in Requests : SendRequest(c, r) \/ SendHead(c, r)
        \/ SendTail(c)
        \/ Fin(c)
        \/ Rst(c)
        \/ Receive(c)
  BY DEF Clients
<1>1. CASE \E r \in Requests : SendRequest(c, r) \/ SendHead(c, r)
  BY <1>1, AskServes DEF SendRequest, SendHead, MayAsk, AtServer, Arrives
<1>2. CASE Connect(c) \/ SendTail(c) \/ Fin(c) \/ Rst(c)
  BY <1>2, QuietServes DEF Connect, SendTail, Fin, Rst, Arrives
<1>. QED
  BY <1>1, <1>2, ReceiveServes

LEMMA DoReadServes ==
    ASSUME TypeOK, Ownership, Numbers, NEW c \in Conns, DoRead(c)
    PROVE  Service!Next \/ UNCHANGED Service!vars
<1>1. UNCHANGED <<rcvd, life, asked>> /\ life[c] # "destroyed"
  BY DoReadNumbers
<1>2. CASE UNCHANGED resp
  BY <1>1, <1>2, QuietServes
<1>3. ASSUME NEW reply \in Replies, resp' = [resp EXCEPT ![c] = Append(@, reply)],
             LastId(c) < reply.id, reply.id <= asked[c]
      PROVE  Service!Next
  BY <1>1, <1>3, AnswerServes
<1>. QED
  BY <1>2, <1>3, DoReadNumbers

LEMMA NewConnectionServes ==
    ASSUME TypeOK, Ownership, NEW c \in Conns, NEW f \in Fds, NEW registered \in BOOLEAN,
           NewConnection(c, f, registered), UNCHANGED <<asked, resp, rcvd>>
    PROVE  UNCHANGED Service!vars
<1>1. life[c] = "none"
  <2>1. 1 \in DOMAIN backlog /\ backlog[1] = c
    BY HeadTailProperties, LenProperties DEF TypeOK, SockTypes, NewConnection
  <2>. QED
    BY <2>1 DEF Ownership, BacklogFresh
<1>2. \A d \in Conns : life'[d] = IF d = c THEN "live" ELSE life[d]
  BY DEF NewConnection, TypeOK, ConnTypes
<1>. QED
  BY <1>1, <1>2, QuietServes

LEMMA LoopServes ==
    ASSUME NEW from,
           \/ EpollWait(from) \/ DispatchAcceptor \/ RunOnDestroyed
           \/ \E f \in Fds : Dispatch(f)
           \/ \E c \in Conns : WriteBroken(c) \/ WriteAllKeep(c) \/ WriteSome(c)
    PROVE  UNCHANGED Service!vars
<1>1. UNCHANGED <<asked, resp, rcvd, life>>
  BY DEF EpollWait, DispatchAcceptor, RunOnDestroyed, Dispatch, WriteBroken, WriteAllKeep,
         WriteAll, WriteSome, peerVars, connVars, httpVars
<1>. QED
  BY <1>1, QuietServes

LEMMA InitServes == Init => Service!Init
<1>. SUFFICES ASSUME Init PROVE Service!Init
  OBVIOUS
<1>. USE DEF Init
<1>1. Answers = [c \in Conns |-> <<>>]
  <2>1. \A c \in Conns : resp[c] = <<>> /\ DOMAIN resp[c] = {}
    OBVIOUS
  <2>2. \A c \in Conns : [k \in DOMAIN resp[c] |-> resp[c][k].id] = <<>>
    BY <2>1
  <2>. QED
    BY <2>2 DEF Answers
<1>2. Ends = [c \in Conns |-> FALSE]
  <2>1. \A c \in Conns : (life[c] = "destroyed") = FALSE
    OBVIOUS
  <2>. QED
    BY <2>1 DEF Ends
<1>. QED
  BY <1>1, <1>2 DEF Service!Init, Answers, Ends
-----------------------------------------------------------------------------
(***************************************************************************)
(* What decides that a reply closes.  LastHeaderDecides picks the last     *)
(* header among the replies; what is inductive is that headers_ has it as  *)
(* long as every request was answered 200, and that each of those replies  *)
(* was decided by the one in force then.                                   *)
(***************************************************************************)
\* h is what the last "Connection" header of the first k requests of s said.
Says(s, k, h) ==
    IF h = "absent"
    THEN \A j \in 1..k : s[j].req.connection = "absent"
    ELSE \E j \in 1..k : /\ s[j].req.connection = h
                         /\ \A i \in 1..k : i > j => s[i].req.connection = "absent"

AllFound(s, k) == \A j \in 1..k : s[j].status = 200

AsksToClose(h, req) == IF h = "absent" THEN req.version = "1.0" ELSE h = "close"

Decided(c) ==
    /\ \A k \in 1..Len(resp[c]) : AllFound(resp[c], k) =>
           \E h \in ConnectionValues : /\ Says(resp[c], k, h)
                                       /\ resp[c][k].close = AsksToClose(h, resp[c][k].req)
    /\ proc = "running" /\ AllFound(resp[c], Len(resp[c])) =>
           Says(resp[c], Len(resp[c]), headers_[c])

Decisions == \A c \in Conns : Decided(c)

\* What one call of handle_input does to a connection's flag and headers: a reply that
\* closes clears keep_alive_, and a 200 is decided by the header in force.
LEMMA HandledRequest ==
    ASSUME TypeOK, NEW c \in Conns, NEW buf \in Seq(Tokens), HandleInput(c, buf)
    PROVE  /\ \A d \in Conns \ {c} : keep_alive_'[d] = keep_alive_[d] /\ headers_'[d] = headers_[d]
           /\ \/ UNCHANGED <<output_buffer_, keep_alive_, headers_, resp, proc>>
              \/ \E i \in DOMAIN buf :
                    /\ buf[i].part # "head" /\ proc' = "threw"
                    /\ UNCHANGED <<output_buffer_, resp>>
              \/ \E i \in DOMAIN buf : \E reply \in Replies :
                    /\ buf[i].part # "head" /\ reply.id = buf[i].id /\ Send(c, reply)
                    /\ keep_alive_'[c] = ~reply.close
                    /\ reply.status = 200 =>
                          /\ headers_'[c] = MergedHeaders(headers_[c], reply.req)
                          /\ reply.close = ~KeepAlive(headers_'[c], reply.req)
<1>0. keep_alive_ \in [Conns -> BOOLEAN] /\ headers_ \in [Conns -> ConnectionValues]
  BY DEF TypeOK, HttpTypes
<1>1. CASE HandleIncomplete(c, buf)
  BY <1>1 DEF HandleIncomplete
<1>2. ASSUME NEW i \in DOMAIN buf, HandleGarbled(c, buf, i)
      PROVE  /\ \A d \in Conns \ {c} :
                   keep_alive_'[d] = keep_alive_[d] /\ headers_'[d] = headers_[d]
             /\ \E reply \in Replies :
                   /\ buf[i].part # "head" /\ reply.id = buf[i].id /\ Send(c, reply)
                   /\ keep_alive_'[c] = ~reply.close /\ reply.status # 200
  <2>1. buf[i].part # "head" /\ buf[i] \in Tokens
    BY <1>2, TokenFieldTypes DEF HandleGarbled, FirstHeaderEnd, HeaderEnds
  <2>2. keep_alive_'[c] = FALSE /\ \A d \in Conns \ {c} : keep_alive_'[d] = keep_alive_[d]
    BY <1>0, <1>2 DEF HandleGarbled
  <2>3. \A d \in Conns \ {c} : headers_'[d] = headers_[d]
    <3>. DEFINE merged == MergedHeaders(headers_[c], buf[i].req)
    <3>1. headers_' = headers_ \/ headers_' = [headers_ EXCEPT ![c] = merged]
      BY <1>2 DEF HandleGarbled
    <3>. HIDE DEF merged
    <3>. QED
      BY <1>0, <3>1
  <2>4. PICK status \in Refusals : Send(c, Reply(buf[i], status, TRUE))
    BY <1>2, GarbledRefused
  <2>. DEFINE reply == Reply(buf[i], status, TRUE)
  <2>5. /\ reply \in Replies /\ reply.id = buf[i].id
        /\ reply.status # 200 /\ reply.close
    BY <2>1, RefusalType
  <2>6. Send(c, reply)
    BY <2>4
  <2>. HIDE DEF reply
  <2>7. keep_alive_'[c] = ~reply.close
    BY <2>2, <2>5
  <2>. QED
    BY <2>1, <2>2, <2>3, <2>5, <2>6, <2>7
<1>3. ASSUME NEW i \in DOMAIN buf, HandleWhole(c, buf, i)
      PROVE  /\ \A d \in Conns \ {c} :
                   keep_alive_'[d] = keep_alive_[d] /\ headers_'[d] = headers_[d]
             /\ \/ /\ buf[i].part # "head" /\ proc' = "threw"
                   /\ UNCHANGED <<output_buffer_, resp>>
                \/ \E reply \in Replies :
                      /\ buf[i].part # "head" /\ reply.id = buf[i].id /\ Send(c, reply)
                      /\ keep_alive_'[c] = ~reply.close
                      /\ reply.status = 200 =>
                            /\ headers_'[c] = MergedHeaders(headers_[c], reply.req)
                            /\ reply.close = ~KeepAlive(headers_'[c], reply.req)
  <2>. DEFINE req == buf[i].req
              stored == MergedHeaders(headers_[c], req)
              reply == ReplyTo(buf, i, stored)
  <2>1. buf[i].part # "head" /\ buf[i] \in Tokens
    BY <1>3, TokenFieldTypes DEF HandleWhole, FirstHeaderEnd, HeaderEnds
  <2>2. /\ headers_' = [headers_ EXCEPT ![c] = stored]
        /\ keep_alive_' = [keep_alive_ EXCEPT ![c] = KeepAliveAfter(stored, req)]
        /\ \/ UNCHANGED <<output_buffer_, resp>> /\ proc' = "threw"
           \/ Send(c, reply)
    BY <1>3 DEF HandleWhole
  <2>3. /\ headers_'[c] = stored /\ keep_alive_'[c] = KeepAliveAfter(stored, req)
        /\ \A d \in Conns \ {c} : keep_alive_'[d] = keep_alive_[d] /\ headers_'[d] = headers_[d]
    <3>. HIDE DEF stored, req
    <3>. QED
      BY <1>0, <2>2
  <2>4. /\ reply.id = buf[i].id /\ reply.req = req /\ reply.status = ResponseStatus(req)
        /\ reply.close = (ErrorReply(req) \/ ~KeepAlive(stored, req))
    BY DEF ReplyTo, Reply
  <2>5. reply \in Replies
    <3>1. (ErrorReply(req) \/ ~KeepAlive(stored, req)) \in BOOLEAN
      OBVIOUS
    <3>. QED
      BY <2>1, <3>1, StatusType, ReplyType DEF ReplyTo
  <2>6. KeepAliveAfter(stored, req) = ~reply.close
    BY <2>4 DEF KeepAliveAfter
  <2>7. reply.status = 200 => reply.close = ~KeepAlive(stored, req)
    BY <2>4 DEF ErrorReply
  <2>. HIDE DEF reply
  <2>8. Send(c, reply) =>
            /\ buf[i].part # "head" /\ reply.id = buf[i].id /\ Send(c, reply)
            /\ keep_alive_'[c] = ~reply.close
            /\ reply.status = 200 =>
                  /\ headers_'[c] = MergedHeaders(headers_[c], reply.req)
                  /\ reply.close = ~KeepAlive(headers_'[c], reply.req)
    BY <2>1, <2>3, <2>4, <2>6, <2>7
  <2>. QED
    BY <2>1, <2>2, <2>3, <2>5, <2>8
<1>. QED
  BY <1>1, <1>2, <1>3 DEF HandleInput

LEMMA SaysLast ==
    ASSUME NEW c \in Conns, NEW k \in Nat, NEW h \in ConnectionValues, Says(resp[c], k, h)
    PROVE  LastHeader(c, k) = h
<1>. DEFINE said == {j \in 1..k : resp[c][j].req.connection # "absent"}
<1>1. CASE h = "absent"
  <2>1. said = {}
    BY <1>1 DEF Says
  <2>. QED
    BY <1>1, <2>1 DEF LastHeader
<1>2. CASE h # "absent"
  <2>1. PICK j \in 1..k : /\ resp[c][j].req.connection = h
                          /\ \A i \in 1..k : i > j => resp[c][i].req.connection = "absent"
    BY <1>2 DEF Says
  <2>2. j \in said /\ \A i \in said : i <= j
    BY <1>2, <2>1
  <2>3. \A m \in said : (\A i \in said : i <= m) => m = j
    BY <2>2
  <2>. HIDE DEF said
  <2>4. (CHOOSE m \in said : \A i \in said : i <= m) = j
    BY <2>2, <2>3
  <2>. QED
    BY <2>1, <2>2, <2>4 DEF LastHeader, said
<1>. QED
  BY <1>1, <1>2

\* parse_request overwrites the stored header with the request's, if it has one.
LEMMA MergedSays ==
    ASSUME NEW s \in Seq(Replies), NEW reply \in Replies, NEW h \in ConnectionValues,
           Says(s, Len(s), h)
    PROVE  Says(Append(s, reply), Len(s) + 1, MergedHeaders(h, reply.req))
<1>. DEFINE t == Append(s, reply)
            n == Len(s)
            v == reply.req.connection
<1>1. n \in Nat /\ t[n + 1] = reply /\ \A j \in 1..n : t[j] = s[j]
  BY AppendProperties, LenProperties
<1>2. Says(s, n, h)
  OBVIOUS
<1>3. MergedHeaders(h, reply.req) = IF v = "absent" THEN h ELSE v
  BY DEF MergedHeaders
<1>4. t[n + 1].req.connection = v
  BY <1>1
<1>. HIDE DEF t, n, v
<1>5. /\ \A j \in 1..n + 1 : j \in 1..n \/ j = n + 1
      /\ \A j \in 1..n : j \in 1..n + 1 /\ n + 1 > j
      /\ n + 1 \in 1..n + 1
  BY <1>1
<1>6. CASE v # "absent"
  <2>1. \A i \in 1..n + 1 : ~(i > n + 1)
    BY <1>1
  <2>2. Says(t, n + 1, v)
    BY <1>4, <1>5, <1>6, <2>1 DEF Says
  <2>. QED
    BY <1>3, <1>6, <2>2 DEF t, n
<1>7. CASE v = "absent" /\ h = "absent"
  <2>1. Says(t, n + 1, h)
    BY <1>1, <1>2, <1>4, <1>5, <1>7 DEF Says
  <2>. QED
    BY <1>3, <1>7, <2>1 DEF t, n
<1>8. CASE v = "absent" /\ h # "absent"
  <2>1. PICK j \in 1..n : /\ s[j].req.connection = h
                          /\ \A i \in 1..n : i > j => s[i].req.connection = "absent"
    BY <1>2, <1>8 DEF Says
  <2>2. t[j].req.connection = h /\ j \in 1..n + 1
    BY <1>1, <1>5, <2>1
  <2>3. \A i \in 1..n + 1 : i > j => t[i].req.connection = "absent"
    BY <1>1, <1>4, <1>5, <1>8, <2>1
  <2>4. Says(t, n + 1, h)
    BY <1>8, <2>2, <2>3 DEF Says
  <2>. QED
    BY <1>3, <1>8, <2>4 DEF t, n
<1>. QED
  BY <1>6, <1>7, <1>8

LEMMA AsksToCloseIs ==
    ASSUME NEW h \in ConnectionValues, NEW req \in Requests
    PROVE  ~KeepAlive(h, req) <=> AsksToClose(h, req)
<1>1. req.version \in {"1.0", "1.1"} /\ h \in {"absent", "keep-alive", "close"}
  BY RequestAssumption DEF RequestRecords, Versions, ConnectionValues
<1>. QED
  BY <1>1 DEF KeepAlive, AsksToClose

\* One more reply, decided by the header it leaves in headers_ unless it is an error.
LEMMA ReplyDecided ==
    ASSUME TypeOK, Decisions, proc = "running", NEW c \in Conns, NEW reply \in Replies,
           resp'[c] = Append(resp[c], reply), headers_'[c] \in ConnectionValues,
           reply.status = 200 =>
               /\ headers_'[c] = MergedHeaders(headers_[c], reply.req)
               /\ reply.close = ~KeepAlive(headers_'[c], reply.req)
    PROVE  Decided(c)'
<1>. DEFINE s == resp[c]
            t == resp'[c]
            n == Len(resp[c])
            g == headers_'[c]
<1>1. /\ s \in Seq(Replies) /\ n \in Nat /\ headers_[c] \in ConnectionValues
      /\ t = Append(s, reply) /\ Len(t) = n + 1 /\ t[n + 1] = reply
      /\ \A j \in 1..n : t[j] = s[j]
  <2>1. s \in Seq(Replies) /\ n \in Nat /\ headers_[c] \in ConnectionValues
    BY LenProperties DEF TypeOK, HttpTypes
  <2>. QED
    BY <2>1, AppendProperties
<1>2. /\ \A k \in 1..n : AllFound(s, k) =>
             \E h \in ConnectionValues : Says(s, k, h) /\ s[k].close = AsksToClose(h, s[k].req)
      /\ AllFound(s, n) => Says(s, n, headers_[c])
  BY DEF Decisions, Decided
<1>3. AllFound(s, n) /\ reply.status = 200 => Says(t, n + 1, g)
  BY <1>1, <1>2, MergedSays
<1>4. reply.status = 200 => reply.close = AsksToClose(g, reply.req)
  <2>1. reply.req \in Requests
    BY DEF Replies
  <2>2. (~KeepAlive(g, reply.req)) = AsksToClose(g, reply.req)
    <3>1. ~KeepAlive(g, reply.req) <=> AsksToClose(g, reply.req)
      BY <2>1, AsksToCloseIs
    <3>. QED
      BY <3>1 DEF AsksToClose, KeepAlive
  <2>. QED
    BY <2>2
<1>5. g \in ConnectionValues
  OBVIOUS
<1>. HIDE DEF s, t, n, g
<1>6. /\ \A j \in 1..n + 1 : j \in 1..n \/ j = n + 1
      /\ n + 1 \in 1..n + 1 /\ \A k \in 1..n : \A j \in 1..k : j \in 1..n
      /\ \A j \in 1..n : j \in 1..n + 1
  BY <1>1
<1>7. /\ \A k \in 1..n : AllFound(t, k) => AllFound(s, k)
      /\ AllFound(t, n + 1) => AllFound(s, n) /\ reply.status = 200
  BY <1>1, <1>6 DEF AllFound
<1>8. \A k \in 1..n : \A h \in ConnectionValues : Says(s, k, h) => Says(t, k, h)
  BY <1>1, <1>6 DEF Says
<1>9. ASSUME NEW k \in 1..n + 1, AllFound(t, k)
      PROVE  \E h \in ConnectionValues : Says(t, k, h) /\ t[k].close = AsksToClose(h, t[k].req)
  <2>1. CASE k \in 1..n
    BY <1>1, <1>2, <1>7, <1>8, <1>9, <2>1
  <2>2. CASE k = n + 1
    BY <1>1, <1>3, <1>4, <1>5, <1>7, <1>9, <2>2
  <2>. QED
    BY <1>6, <2>1, <2>2
<1>10. AllFound(t, n + 1) => Says(t, n + 1, g)
  BY <1>3, <1>7
<1>. QED
  BY <1>1, <1>9, <1>10 DEF Decided, t, g

LEMMA SameDecisions ==
    ASSUME Decisions, UNCHANGED <<resp, headers_>>, proc' = "running" => proc = "running"
    PROVE  Decisions'
  BY DEF Decisions, Decided

LEMMA DoReadDecisions ==
    ASSUME TypeOK, TypeOK', Ownership, Numbers, Decisions, NEW c \in Conns, DoRead(c)
    PROVE  Decisions'
<1>1. HandleInput(c, inq[c]) /\ inq[c] \in Seq(Tokens) /\ proc = "running"
  BY DoReadInput DEF DoRead, Handling
<1>2. headers_'[c] \in ConnectionValues
  BY DEF TypeOK, HttpTypes
<1>3. \A d \in Conns \ {c} : headers_'[d] = headers_[d]
  BY <1>1, HandledRequest
<1>4. \A d \in Conns : d = c \/ d \in Conns \ {c}
  OBVIOUS
<1>5. CASE UNCHANGED <<headers_, resp>>
  BY <1>1, <1>5, SameDecisions
<1>6. CASE UNCHANGED resp /\ proc' = "threw"
  BY <1>6 DEF Decisions, Decided
<1>7. ASSUME NEW reply \in Replies, Send(c, reply),
             reply.status = 200 =>
                 /\ headers_'[c] = MergedHeaders(headers_[c], reply.req)
                 /\ reply.close = ~KeepAlive(headers_'[c], reply.req)
      PROVE  Decisions'
  <2>1. /\ resp'[c] = Append(resp[c], reply)
        /\ \A d \in Conns \ {c} : resp'[d] = resp[d]
    BY <1>7, SendEffect
  <2>2. Decided(c)'
    BY <1>1, <1>2, <1>7, <2>1, ReplyDecided
  <2>3. ASSUME NEW d \in Conns \ {c} PROVE Decided(d)'
    BY <1>1, <1>3, <2>1 DEF Decisions, Decided
  <2>. QED
    BY <1>4, <2>2, <2>3 DEF Decisions
<1>. QED
  BY <1>1, <1>5, <1>6, <1>7, HandledRequest

LEMMA InitDecisions == Init => Decisions
<1>. SUFFICES ASSUME Init, NEW c \in Conns PROVE Decided(c)
  BY DEF Decisions
<1>1. resp[c] = <<>> /\ headers_[c] = "absent" /\ Len(<<>>) = 0
  BY DEF Init
<1>. QED
  BY <1>1 DEF Decided, Says

LEMMA DecisionsDecide == TypeOK /\ Decisions => LastHeaderDecides
<1>. SUFFICES ASSUME TypeOK, Decisions, NEW c \in Conns, NEW k \in DOMAIN resp[c],
                     \A j \in 1..k : resp[c][j].status = 200
              PROVE  resp[c][k].close = IF LastHeader(c, k) = "absent"
                                        THEN resp[c][k].req.version = "1.0"
                                        ELSE LastHeader(c, k) = "close"
  BY DEF LastHeaderDecides
<1>1. k \in 1..Len(resp[c]) /\ k \in Nat
  BY LenProperties DEF TypeOK, HttpTypes
<1>2. PICK h \in ConnectionValues : /\ Says(resp[c], k, h)
                                    /\ resp[c][k].close = AsksToClose(h, resp[c][k].req)
  BY <1>1 DEF Decisions, Decided, AllFound
<1>3. LastHeader(c, k) = h
  BY <1>1, <1>2, SaysLast
<1>. QED
  BY <1>2, <1>3 DEF AsksToClose
-----------------------------------------------------------------------------
(***************************************************************************)
(* A reply that closes is the last one.  Without pipelining nothing is     *)
(* asked before all of the last answer is read, so a request in the queue  *)
(* is the last one asked, and no request follows a reply that closes: its  *)
(* pieces stay in output_buffer_, with keep_alive_ false, until do_write   *)
(* closes the connection.                                                  *)
(***************************************************************************)
Closes(c) == \E k \in DOMAIN resp[c] : resp[c][k].close

LastWords(c) ==
    /\ \A i \in 1..Len(inq[c]) : inq[c][i].part # "head" => inq[c][i].id = asked[c]
    /\ life[c] = "live" /\ Closes(c) =>
           /\ ~keep_alive_[c] /\ output_buffer_[c] # <<>>
           /\ LastId(c) = asked[c] /\ asked[c] > 0

Farewells == \A c \in Conns : LastWords(c)

\* Only connection c is concerned.
LEMMA FarewellsFrame ==
    ASSUME Farewells, NEW c,
           \A d \in Conns \ {c} :
               /\ asked'[d] = asked[d] /\ inq'[d] = inq[d] /\ resp'[d] = resp[d]
               /\ keep_alive_'[d] = keep_alive_[d] /\ output_buffer_'[d] = output_buffer_[d]
               /\ life'[d] = "live" => life[d] = "live",
           c \in Conns => LastWords(c)'
    PROVE  Farewells'
<1>1. ASSUME NEW d \in Conns \ {c} PROVE LastWords(d)'
  BY DEF Farewells, LastWords, Closes, LastId
<1>. QED
  BY <1>1 DEF Farewells

LEMMA SameFarewells ==
    ASSUME Farewells, UNCHANGED <<asked, inq, resp, keep_alive_, output_buffer_>>,
           \A d \in Conns : life'[d] = "live" => life[d] = "live" \/ resp[d] = <<>>
    PROVE  Farewells'
<1>1. DOMAIN <<>> = {}
  OBVIOUS
<1>. QED
  BY <1>1 DEF Farewells, LastWords, Closes, LastId

\* A client that may ask has no earlier request in the queue, and no reply that closes.
LEMMA AskerIsServed ==
    ASSUME TypeOK, Streams, Numbers, Farewells, "pipeline" \notin PeerMoves,
           NEW c \in Conns, MayAsk(c)
    PROVE  /\ \A i \in 1..Len(inq[c]) : inq[c][i].part = "head"
           /\ life[c] = "live" => ~Closes(c)
<1>1. /\ asked[c] \in Nat /\ LastId(c) \in Nat
      /\ \A i \in 1..Len(inq[c]) : inq[c][i].id \in Nat
  BY NumberTypes
<1>2. \/ asked[c] = 0
      \/ LastId(c) = asked[c] /\ Len(rcvd[c]) = Pieces * Len(resp[c])
  BY DEF MayAsk, LastId
<1>3. /\ \A i \in 1..Len(inq[c]) : inq[c][i].part # "head" =>
             LastId(c) < inq[c][i].id /\ inq[c][i].id <= asked[c]
  BY <1>1 DEF MayAsk, Numbers, Numbered, Completed
<1>4. ASSUME NEW i \in 1..Len(inq[c]), inq[c][i].part # "head" PROVE FALSE
  BY <1>1, <1>2, <1>3, <1>4
<1>5. ASSUME life[c] = "live", Closes(c) PROVE FALSE
  <2>1. output_buffer_[c] # <<>> /\ asked[c] > 0
    BY <1>5 DEF Farewells, LastWords
  <2>. DEFINE n == Pieces * Len(resp[c])
              x == Len(rcvd[c])
              y == Len(sndq[c])
              z == Len(output_buffer_[c])
  <2>2. x \in Nat /\ y \in Nat /\ z \in Nat /\ n \in Nat /\ output_buffer_[c] \in Seq(Nat)
    BY StreamTypes
  <2>3. x + y + z = n
    BY <1>5 DEF Streams, StreamParts, MayAsk, Reset
  <2>4. x = n
    BY <1>1, <1>2, <2>1
  <2>5. z # 0
    BY <2>1, <2>2, EmptySeq
  <2>. HIDE DEF n, x, y, z
  <2>. QED
    BY <2>2, <2>3, <2>4, <2>5
<1>. QED
  BY <1>4, <1>5

LEMMA ArrivesFarewells ==
    ASSUME TypeOK, Streams, Numbers, Farewells, "pipeline" \notin PeerMoves,
           NEW c \in Conns, NEW r \in Requests,
           SendRequest(c, r) \/ SendHead(c, r) \/ SendTail(c)
    PROVE  Farewells'
<1>. USE DEF Arrives, connVars, httpVars
<1>1. /\ UNCHANGED <<resp, keep_alive_, output_buffer_, life>>
      /\ asked[c] \in Nat /\ inq[c] \in Seq(Tokens) /\ Len(inq[c]) \in Nat
      /\ \A d \in Conns \ {c} : asked'[d] = asked[d] /\ inq'[d] = inq[d]
  BY NumberTypes DEF SendRequest, SendHead, SendTail, TypeOK, PeerTypes, SockTypes
<1>2. /\ \A i \in 1..Len(inq[c]) : inq[c][i].part # "head" => inq[c][i].id = asked'[c]
      /\ life[c] = "live" /\ Closes(c) => asked'[c] = asked[c]
  <2>1. CASE SendRequest(c, r) \/ SendHead(c, r)
    BY <2>1, AskerIsServed DEF SendRequest, SendHead
  <2>2. CASE SendTail(c)
    BY <2>2 DEF SendTail, Farewells, LastWords
  <2>. QED
    BY <2>1, <2>2
<1>3. PICK tokens \in Seq(Tokens) :
          /\ inq'[c] = inq[c] \o tokens
          /\ Len(tokens) \in Nat
          /\ \A i \in 1..Len(tokens) : tokens[i].part # "head" => tokens[i].id = asked'[c]
  <2>1. CASE SendRequest(c, r)
    <3>. DEFINE n == asked[c] + 1
                tokens == <<Token(n, "head", r), Token(n, "tail", r)>>
    <3>1. n \in Nat /\ asked'[c] = n
      BY <1>1, <2>1 DEF SendRequest, TypeOK, PeerTypes
    <3>2. tokens \in Seq(Tokens) /\ Len(tokens) \in Nat
      BY <3>1, TokenType
    <3>3. \A i \in 1..Len(tokens) : tokens[i].id = n
      BY DEF Token
    <3>4. inq'[c] = inq[c] \o tokens
      BY <2>1 DEF SendRequest, TypeOK, SockTypes
    <3>. HIDE DEF tokens, n
    <3>5. \A i \in 1..Len(tokens) : tokens[i].id = asked'[c]
      BY <3>1, <3>3
    <3>. QED
      BY <3>2, <3>4, <3>5
  <2>2. CASE SendHead(c, r)
    <3>. DEFINE n == asked[c] + 1
                tokens == <<Token(n, "head", r)>>
    <3>1. n \in Nat
      BY <1>1
    <3>2. tokens \in Seq(Tokens) /\ Len(tokens) \in Nat
      BY <3>1, TokenType
    <3>3. \A i \in 1..Len(tokens) : tokens[i].part = "head"
      BY DEF Token
    <3>4. inq'[c] = inq[c] \o tokens
      BY <2>2 DEF SendHead, TypeOK, SockTypes
    <3>. HIDE DEF tokens, n
    <3>5. \A i \in 1..Len(tokens) : tokens[i].part = "head"
      BY <3>3
    <3>. QED
      BY <3>2, <3>4, <3>5
  <2>3. CASE SendTail(c)
    <3>0. PICK part \in {"tail", "end"} : Arrives(c, <<Token(asked[c], part, asking[c])>>)
      BY <2>3 DEF SendTail
    <3>. DEFINE n == asked[c]
                q == asking[c]
                tokens == <<Token(n, part, q)>>
    <3>1. n \in Nat /\ q \in Requests /\ asked'[c] = n
      BY <1>1, <2>3 DEF SendTail, TypeOK, PeerTypes
    <3>2. tokens \in Seq(Tokens) /\ Len(tokens) \in Nat
      BY <3>1, TokenType
    <3>3. \A i \in 1..Len(tokens) : tokens[i].id = n
      BY DEF Token
    <3>4. inq'[c] = inq[c] \o tokens
      BY <3>0 DEF Arrives, TypeOK, SockTypes
    <3>. HIDE DEF tokens, n, q
    <3>5. \A i \in 1..Len(tokens) : tokens[i].id = asked'[c]
      BY <3>1, <3>3
    <3>. QED
      BY <3>2, <3>4, <3>5
  <2>. QED
    BY <2>1, <2>2, <2>3
<1>. DEFINE q == inq[c]
            m == asked'[c]
<1>4. /\ q \in Seq(Tokens) /\ Len(q) \in Nat /\ inq'[c] = q \o tokens
      /\ \A i \in 1..Len(q) : q[i].part # "head" => q[i].id = m
      /\ \A i \in 1..Len(tokens) : tokens[i].part # "head" => tokens[i].id = m
  BY <1>1, <1>2, <1>3
<1>. HIDE DEF q, m
<1>5. /\ Len(q \o tokens) = Len(q) + Len(tokens)
      /\ \A i \in 1..Len(q) + Len(tokens) :
            (q \o tokens)[i] = IF i <= Len(q) THEN q[i] ELSE tokens[i - Len(q)]
  BY <1>4, ConcatProperties
<1>6. ASSUME NEW i \in 1..Len(q) + Len(tokens), (q \o tokens)[i].part # "head"
      PROVE  (q \o tokens)[i].id = m
  <2>1. CASE i <= Len(q)
    BY <1>4, <1>5, <1>6, <2>1
  <2>2. CASE ~(i <= Len(q))
    <3>1. i - Len(q) \in 1..Len(tokens) /\ (q \o tokens)[i] = tokens[i - Len(q)]
      BY <1>3, <1>4, <1>5, <2>2
    <3>. QED
      BY <1>4, <1>6, <3>1
  <2>. QED
    BY <2>1, <2>2
<1>7. \A i \in 1..Len(inq'[c]) : inq'[c][i].part # "head" => inq'[c][i].id = asked'[c]
  BY <1>4, <1>5, <1>6 DEF m
<1>8. life[c] = "live" /\ Closes(c) =>
          /\ ~keep_alive_[c] /\ output_buffer_[c] # <<>>
          /\ LastId(c) = asked'[c] /\ asked'[c] > 0
  BY <1>2 DEF Farewells, LastWords
<1>9. LastWords(c)'
  BY <1>1, <1>7, <1>8 DEF LastWords, Closes, LastId
<1>. QED
  BY <1>1, <1>9, FarewellsFrame

LEMMA ClientsFarewells ==
    ASSUME TypeOK, Streams, Numbers, Farewells, "pipeline" \notin PeerMoves, Clients
    PROVE  Farewells'
<1>. PICK c \in Conns :
        \/ Connect(c)
        \/ \E r \in Requests : SendRequest(c, r) \/ SendHead(c, r)
        \/ SendTail(c)
        \/ Fin(c)
        \/ Rst(c)
        \/ Receive(c)
  BY DEF Clients
<1>1. CASE \E r \in Requests : SendRequest(c, r) \/ SendHead(c, r)
  BY <1>1, ArrivesFarewells
<1>2. CASE SendTail(c)
  <2>1. asking[c] \in Requests
    BY <1>2 DEF SendTail, TypeOK, PeerTypes
  <2>. QED
    BY <1>2, <2>1, ArrivesFarewells
<1>3. CASE Connect(c) \/ Fin(c) \/ Rst(c) \/ Receive(c)
  BY <1>3, SameFarewells DEF Connect, Fin, Rst, Receive, sockVars, connVars, httpVars
<1>. QED
  BY <1>1, <1>2, <1>3

LEMMA NewConnectionFarewells ==
    ASSUME TypeOK, Ownership, Streams, Farewells,
           NEW c \in Conns, NEW f \in Fds, NEW registered \in BOOLEAN,
           NewConnection(c, f, registered),
           UNCHANGED <<asked, inq, resp, keep_alive_, output_buffer_>>
    PROVE  Farewells'
<1>1. life[c] = "none"
  <2>1. 1 \in DOMAIN backlog /\ backlog[1] = c
    BY HeadTailProperties, LenProperties DEF TypeOK, SockTypes, NewConnection
  <2>. QED
    BY <2>1 DEF Ownership, BacklogFresh
<1>2. resp[c] = <<>>
  BY <1>1 DEF Streams, Unserved
<1>3. \A d \in Conns : life'[d] = IF d = c THEN "live" ELSE life[d]
  BY DEF NewConnection, TypeOK, ConnTypes
<1>. QED
  BY <1>2, <1>3, SameFarewells

LEMMA LoopFarewells ==
    ASSUME TypeOK, Farewells, NEW from,
           \/ EpollWait(from) \/ DispatchAcceptor \/ RunOnDestroyed
           \/ \E f \in Fds : Dispatch(f)
           \/ \E c \in Conns : WriteBroken(c)
    PROVE  Farewells'
<1>1. UNCHANGED <<asked, inq, resp, keep_alive_, output_buffer_, life>>
  BY DEF EpollWait, DispatchAcceptor, RunOnDestroyed, Dispatch, WriteBroken,
         peerVars, sockVars, connVars, httpVars
<1>. QED
  BY <1>1, SameFarewells

\* do_write empties the buffer of a connection only if it is kept alive, and so none
\* of its replies closes.
LEMMA WriteFarewells ==
    ASSUME TypeOK, Ownership, Farewells, NEW c \in Conns, WriteAllKeep(c) \/ WriteSome(c)
    PROVE  Farewells'
<1>. USE DEF peerVars, connVars
<1>1. /\ UNCHANGED <<asked, inq, resp, keep_alive_, life>>
      /\ \A d \in Conns \ {c} : output_buffer_'[d] = output_buffer_[d]
  BY DEF WriteAllKeep, WriteAll, WriteSome, TypeOK, HttpTypes
<1>2. keep_alive_[c] \/ output_buffer_'[c] # <<>>
  BY WriteSomeEffect DEF WriteAllKeep
<1>3. LastWords(c)'
  BY <1>1, <1>2 DEF Farewells, LastWords, Closes, LastId
<1>. QED
  BY <1>1, <1>3, FarewellsFrame

LEMMA CloseFarewells ==
    ASSUME TypeOK, Ownership, Farewells, NEW c \in Conns,
           DoReadEnd(c) \/ WriteAllClose(c) \/ WriteReset(c)
    PROVE  Farewells'
<1>1. /\ life'[c] = "destroyed" /\ \A d \in Conns \ {c} : life'[d] = life[d]
      /\ UNCHANGED asked
  BY HandleCloseEffect DEF DoReadEnd, WriteReset, WriteAllClose, WriteAll, TypeOK, ConnTypes
<1>2. /\ inq'[c] = <<>> /\ UNCHANGED <<resp, keep_alive_>>
      /\ \A d \in Conns \ {c} : inq'[d] = inq[d] /\ output_buffer_'[d] = output_buffer_[d]
  BY DEF DoReadEnd, WriteReset, WriteAllClose, WriteAll, Released, httpVars,
         TypeOK, SockTypes, HttpTypes
<1>3. Len(<<>>) = 0
  OBVIOUS
<1>4. LastWords(c)'
  BY <1>1, <1>2, <1>3 DEF LastWords
<1>. QED
  BY <1>1, <1>2, <1>4, FarewellsFrame

\* do_read answers only where no reply closes yet, and answers the last request.
LEMMA DoReadFarewells ==
    ASSUME TypeOK, Ownership, Numbers, Farewells, NEW c \in Conns, DoRead(c)
    PROVE  Farewells'
<1>1. /\ HandleInput(c, inq[c]) /\ inq[c] \in Seq(Tokens)
      /\ inq'[c] = <<>> /\ \A d \in Conns \ {c} : inq'[d] = inq[d]
      /\ life[c] = "live" /\ UNCHANGED <<asked, life>>
  BY DoReadInput, HandlingOwner DEF DoRead, peerVars, connVars
<1>2. \A d \in Conns \ {c} : keep_alive_'[d] = keep_alive_[d]
  BY <1>1, HandledRequest
<1>3. Len(<<>>) = 0
  OBVIOUS
<1>4. ASSUME NEW i \in DOMAIN inq[c], inq[c][i].part # "head"
      PROVE  inq[c][i].id = asked[c] /\ asked[c] > 0 /\ ~Closes(c)
  <2>1. i \in 1..Len(inq[c])
    BY <1>1, <1>4, LenProperties
  <2>2. /\ inq[c][i].id = asked[c] /\ LastId(c) < inq[c][i].id
        /\ asked[c] \in Nat /\ LastId(c) \in Nat
    BY <1>4, <2>1, NumberTypes DEF Numbers, Numbered, Farewells, LastWords
  <2>3. LastId(c) # asked[c]
    BY <2>2
  <2>. QED
    BY <1>1, <2>2, <2>3 DEF Farewells, LastWords
<1>5. CASE UNCHANGED <<output_buffer_, keep_alive_, headers_, resp, proc>>
  <2>1. LastWords(c)'
    BY <1>1, <1>3, <1>5 DEF Farewells, LastWords, Closes, LastId
  <2>. QED
    BY <1>1, <1>5, <2>1, FarewellsFrame
<1>6. ASSUME NEW i \in DOMAIN inq[c], inq[c][i].part # "head", UNCHANGED <<output_buffer_, resp>>
      PROVE  Farewells'
  <2>1. LastWords(c)'
    BY <1>1, <1>3, <1>4, <1>6 DEF LastWords, Closes
  <2>. QED
    BY <1>1, <1>2, <1>6, <2>1, FarewellsFrame
<1>7. ASSUME NEW i \in DOMAIN inq[c], NEW reply \in Replies, inq[c][i].part # "head",
             reply.id = inq[c][i].id, Send(c, reply), keep_alive_'[c] = ~reply.close
      PROVE  Farewells'
  <2>1. reply.id = asked[c] /\ asked[c] > 0 /\ ~Closes(c)
    BY <1>4, <1>7
  <2>2. /\ resp'[c] = Append(resp[c], reply) /\ resp[c] \in Seq(Replies)
        /\ output_buffer_'[c] # <<>>
        /\ \A d \in Conns \ {c} : output_buffer_'[d] = output_buffer_[d] /\ resp'[d] = resp[d]
    BY <1>7, SendEffect
  <2>. DEFINE s == resp[c]
              t == resp'[c]
              n == Len(resp[c])
  <2>3. /\ n \in Nat /\ t \in Seq(Replies) /\ t # <<>> /\ Len(t) = n + 1
        /\ t[n + 1] = reply /\ \A k \in 1..n : t[k] = s[k]
        /\ DOMAIN s = 1..n /\ DOMAIN t = 1..n + 1
    <3>1. t = Append(s, reply) /\ s \in Seq(Replies)
      BY <2>2
    <3>. HIDE DEF s, t
    <3>2. /\ t \in Seq(Replies) /\ t # <<>> /\ Len(t) = Len(s) + 1
          /\ t[Len(s) + 1] = reply /\ \A k \in 1..Len(s) : t[k] = s[k]
      BY <1>7, <3>1, AppendProperties
    <3>3. Len(s) \in Nat /\ DOMAIN s = 1..Len(s) /\ DOMAIN t = 1..Len(t)
      BY <3>1, <3>2, LenProperties
    <3>. QED
      BY <3>2, <3>3 DEF s
  <2>4. \A k \in DOMAIN s : ~s[k].close
    BY <2>1 DEF Closes
  <2>5. (\E k \in DOMAIN t : t[k].close) => reply.close
    <3>. HIDE DEF s, t, n
    <3>1. \A k \in 1..n + 1 : k \in 1..n \/ k = n + 1
      BY <2>3
    <3>. QED
      BY <2>3, <2>4, <3>1
  <2>6. LastId(c)' = reply.id
    BY <2>3 DEF LastId
  <2>7. Closes(c)' => reply.close
    BY <2>5 DEF Closes
  <2>8. reply.close => ~keep_alive_'[c]
    BY <1>7
  <2>9. asked'[c] = asked[c] /\ LastId(c)' = asked[c]
    BY <1>1, <2>1, <2>6
  <2>10. LastWords(c)'
    <3>. HIDE DEF s, t, n
    <3>1. inq'[c] = <<>> /\ 1..Len(inq'[c]) = {}
      BY <1>1, <1>3
    <3>. QED
      BY <1>1, <2>1, <2>2, <2>7, <2>8, <2>9, <3>1 DEF LastWords
  <2>. QED
    BY <1>1, <1>2, <2>2, <2>10, FarewellsFrame
<1>. QED
  BY <1>1, <1>5, <1>6, <1>7, HandledRequest

LEMMA InitFarewells == Init => Farewells
<1>. SUFFICES ASSUME Init, NEW c \in Conns PROVE LastWords(c)
  BY DEF Farewells
<1>1. inq[c] = <<>> /\ life[c] = "none" /\ Len(<<>>) = 0
  BY DEF Init
<1>. QED
  BY <1>1 DEF LastWords

LEMMA FarewellsClose == Farewells => NonKeepAliveCloses
  BY DEF Farewells, LastWords, Closes, NonKeepAliveCloses
=============================================================================

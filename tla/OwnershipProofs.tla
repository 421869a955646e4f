--------------------------- MODULE OwnershipProofs ---------------------------
(***************************************************************************)
(* One lemma per action of EpollReactor: the action preserves Ownership.   *)
(*                                                                         *)
(* BacklogFresh is there because accept4 must not return a connection that *)
(* already has an object, RegisteredOpen because epoll_wait must not       *)
(* report a descriptor that was closed; Coherent and EventsHaveOwners are  *)
(* not inductive without them.                                             *)
(***************************************************************************)
EXTENDS EpollReactorProofs

USE FdAssumption, ConnAssumption, RequestAssumption, BoundAssumption

LEMMA SameOwners ==
    ASSUME TypeOK, Ownership
    PROVE  /\ UNCHANGED <<fdt, callbacks_, life, fd_>> => Coherent'
           /\ /\ UNCHANGED <<backlog, life>>
              /\ \A c \in Conns : peer'[c] = "idle" <=> peer[c] = "idle"
              => BacklogFresh'
           /\ UNCHANGED <<fdt, epi, ready>> => RegisteredOpen'
           /\ UNCHANGED <<fdt, life, fd_, batch, cur, evs, at>> => EventsHaveOwners'
<1>. USE DEF Ownership
<1>1. UNCHANGED <<fdt, callbacks_, life, fd_>> => Coherent'
  BY DEF Coherent
<1>2. /\ UNCHANGED <<backlog, life>>
      /\ \A c \in Conns : peer'[c] = "idle" <=> peer[c] = "idle"
      => BacklogFresh'
  <2>1. \A i \in DOMAIN backlog : backlog[i] \in Conns
    BY ElementOfSeq, LenProperties DEF TypeOK, SockTypes
  <2>. QED
    BY <2>1 DEF BacklogFresh
<1>3. UNCHANGED <<fdt, epi, ready>> => RegisteredOpen'
  BY DEF RegisteredOpen
<1>4. UNCHANGED <<fdt, life, fd_, batch, cur, evs, at>> => EventsHaveOwners'
  BY DEF EventsHaveOwners
<1>. QED
  BY <1>1, <1>2, <1>3, <1>4

LEMMA InitOwners == Init => Ownership
<1>. SUFFICES ASSUME Init PROVE Ownership
  OBVIOUS
<1>. USE DEF Init
<1>1. Coherent
  BY FdAssumption DEF Coherent, NoFd
<1>2. BacklogFresh
  BY DEF BacklogFresh
<1>3. RegisteredOpen /\ EventsHaveOwners
  BY DEF RegisteredOpen, EventsHaveOwners, Watched
<1>. QED
  BY <1>1, <1>2, <1>3 DEF Ownership

\* A wake-up only queues descriptors that are registered.
LEMMA WakeOwners ==
    ASSUME Ownership, NEW c, NEW e, ready' = Wake(c, e), UNCHANGED <<fdt, epi>>
    PROVE  RegisteredOpen'
  BY DEF Ownership, RegisteredOpen, Wake
-----------------------------------------------------------------------------
(***************************************************************************)
(* The clients.                                                            *)
(***************************************************************************)
LEMMA ConnectOwners ==
    ASSUME TypeOK, Ownership, NEW c \in Conns, Connect(c)
    PROVE  Ownership'
<1>. USE DEF Connect
<1>1. Coherent' /\ EventsHaveOwners'
  BY SameOwners DEF connVars, loopVars
<1>2. RegisteredOpen'
  BY DEF Ownership, RegisteredOpen
<1>3. BacklogFresh'
  <2>. backlog \in Seq(Conns)
    BY DEF TypeOK, SockTypes
  <2>1. \A i \in DOMAIN backlog : backlog[i] \in Conns
    BY ElementOfSeq, LenProperties
  <2>2. \A i \in DOMAIN backlog : backlog[i] # c
    BY DEF Ownership, BacklogFresh
  <2>3. /\ Len(backlog') = Len(backlog) + 1
        /\ DOMAIN backlog = 1..Len(backlog)
        /\ DOMAIN backlog' = 1..Len(backlog)+1
        /\ backlog'[Len(backlog) + 1] = c
        /\ \A i \in 1..Len(backlog) : backlog'[i] = backlog[i]
    BY AppendProperties, LenProperties
  <2>4. peer' = [peer EXCEPT ![c] = "up"] /\ UNCHANGED life
    BY DEF connVars
  <2>5. \A d \in Conns : peer'[d] = IF d = c THEN "up" ELSE peer[d]
    BY <2>4 DEF TypeOK, PeerTypes
  <2>6. \A d \in Conns : peer'[d] = "idle" => life'[d] = "none"
    BY <2>4, <2>5 DEF Ownership, BacklogFresh
  <2>7. life[c] = "none"
    BY DEF Ownership, BacklogFresh
  <2>8. \A i \in DOMAIN backlog' :
            life'[backlog'[i]] = "none" /\ peer'[backlog'[i]] # "idle"
    BY <2>1, <2>3, <2>4, <2>5, <2>7 DEF Ownership, BacklogFresh
  <2>9. \A i, j \in DOMAIN backlog' : backlog'[i] = backlog'[j] => i = j
    BY <2>2, <2>3 DEF Ownership, BacklogFresh
  <2>. QED
    BY <2>6, <2>8, <2>9 DEF BacklogFresh
<1>. QED
  BY <1>1, <1>2, <1>3 DEF Ownership

LEMMA ArrivesOwners ==
    ASSUME TypeOK, Ownership, NEW c \in Conns, NEW tokens, Arrives(c, tokens)
    PROVE  Ownership'
<1>. USE DEF Arrives
<1>1. Coherent' /\ BacklogFresh' /\ EventsHaveOwners'
  BY SameOwners DEF connVars, loopVars
<1>2. RegisteredOpen'
  BY WakeOwners
<1>. QED
  BY <1>1, <1>2 DEF Ownership

\* The peer shuts its side, resets, or reads.
LEMMA PeerOwners ==
    ASSUME TypeOK, Ownership, NEW c \in Conns, Fin(c) \/ Rst(c) \/ Receive(c)
    PROVE  Ownership'
<1>1. UNCHANGED <<fdt, epi, backlog, connVars, loopVars>>
  BY DEF Fin, Rst, Receive, sockVars
<1>2. \A d \in Conns : peer'[d] = "idle" <=> peer[d] = "idle"
  BY DEF Fin, Rst, Receive, TypeOK, PeerTypes, Reset
<1>3. Coherent' /\ BacklogFresh' /\ EventsHaveOwners'
  BY <1>1, <1>2, SameOwners DEF connVars, loopVars
<1>4. RegisteredOpen'
  <2>1. ready' = Wake(c, "IN") \/ ready' = Wake(c, "OUT") \/ ready' = ready
    BY DEF Fin, Rst, Receive
  <2>. QED
    BY <1>1, <2>1, WakeOwners, SameOwners
<1>. QED
  BY <1>3, <1>4 DEF Ownership

LEMMA ClientsOwners ==
    ASSUME TypeOK, Ownership, Clients
    PROVE  Ownership'
<1>. PICK c \in Conns :
        \/ Connect(c)
        \/ \E r \in Requests : SendRequest(c, r) \/ SendHead(c, r)
        \/ SendTail(c)
        \/ Fin(c)
        \/ Rst(c)
        \/ Receive(c)
  BY DEF Clients
<1>1. CASE (\E r \in Requests : SendRequest(c, r) \/ SendHead(c, r)) \/ SendTail(c)
  BY <1>1, ArrivesOwners DEF SendRequest, SendHead, SendTail
<1>. QED
  BY <1>1, ConnectOwners, PeerOwners
-----------------------------------------------------------------------------
(***************************************************************************)
(* The loop and the acceptor.                                              *)
(***************************************************************************)
\* A closed descriptor is not on the ready list, so epoll_wait does not report it.
LEMMA EpollWaitOwners ==
    ASSUME TypeOK, Ownership, NEW from \in {"loop", "wait"}, EpollWait(from)
    PROVE  Ownership'
<1>. USE DEF EpollWait
<1>1. Coherent' /\ BacklogFresh'
  BY SameOwners DEF connVars, sockVars, peerVars
<1>2. RegisteredOpen'
  BY DEF Ownership, RegisteredOpen
<1>3. EventsHaveOwners'
  <2>1. ASSUME NEW f \in Fds, batch'[f] # {}
        PROVE  fdt'[f] # NoConn
    <3>1. PICK picked \in SUBSET ready :
            batch' = [g \in Watched |-> IF g \in picked THEN Reported(g) ELSE {}]
      OBVIOUS
    <3>2. f \in ready /\ f # Listen
      BY <2>1, <3>1 DEF Watched
    <3>. QED
      BY <3>2 DEF Ownership, RegisteredOpen
  <2>2. at' # "event"
    OBVIOUS
  <2>. QED
    BY <2>1, <2>2 DEF EventsHaveOwners
<1>. QED
  BY <1>1, <1>2, <1>3 DEF Ownership

LEMMA DispatchOwners ==
    ASSUME TypeOK, Ownership, NEW f \in Fds, Dispatch(f)
    PROVE  Ownership'
<1>. USE DEF Dispatch
<1>1. Coherent' /\ BacklogFresh' /\ RegisteredOpen'
  BY SameOwners DEF connVars, sockVars, peerVars, pollVars
<1>2. EventsHaveOwners'
  <2>1. batch' = [batch EXCEPT ![f] = {}] /\ f \in Watched /\ batch \in [Watched -> SUBSET Events]
    BY DEF Watched, TypeOK, LoopTypes
  <2>2. \A g \in Fds : batch'[g] # {} => fdt'[g] # NoConn
    BY <2>1 DEF Ownership, EventsHaveOwners, Watched, pollVars
  <2>3. callbacks_[f] = fdt[f] /\ fdt[f] # NoConn
    BY DEF Ownership, Coherent, EventsHaveOwners
  <2>4. cur' = fdt[f] /\ evs' = batch[f]
    BY <2>3
  <2>5. evs' # {} /\ life'[cur'] = "live" /\ fd_'[cur'] = f /\ batch'[f] = {}
    BY <2>1, <2>3, <2>4 DEF Ownership, Coherent, connVars
  <2>. QED
    BY <2>2, <2>5 DEF EventsHaveOwners
<1>. QED
  BY <1>1, <1>2 DEF Ownership

LEMMA DispatchAcceptorOwners ==
    ASSUME TypeOK, Ownership, DispatchAcceptor
    PROVE  Ownership'
<1>. USE DEF DispatchAcceptor
<1>1. Coherent' /\ BacklogFresh' /\ RegisteredOpen'
  BY SameOwners DEF connVars, sockVars, peerVars, pollVars
<1>2. \A g \in Fds : batch'[g] = batch[g]
  BY DEF TypeOK, LoopTypes, Watched
<1>3. EventsHaveOwners'
  BY <1>2 DEF EventsHaveOwners, Ownership, pollVars
<1>. QED
  BY <1>1, <1>3 DEF Ownership

\* The descriptor accept4 returns is free everywhere: in the table, so in the map,
\* the objects and the batch.  emplace therefore always inserts.
LEMMA NewConnectionOwners ==
    ASSUME TypeOK, Ownership, NEW c \in Conns, NEW f \in Fds, NEW registered \in BOOLEAN,
           NewConnection(c, f, registered), at \in {"accept", "blocked"}, at' # "event",
           UNCHANGED <<batch, peer>>
    PROVE  Ownership'
<1>. USE DEF NewConnection
<1>. backlog \in Seq(Conns)
  BY DEF TypeOK, SockTypes
<1>1. \A i \in DOMAIN backlog : backlog[i] \in Conns
  BY ElementOfSeq, LenProperties
<1>2. fdt[f] = NoConn
  BY DEF LowestFree, FreeFds
<1>3. /\ DOMAIN backlog = 1..Len(backlog)
      /\ Len(backlog) \in Nat /\ Len(backlog) > 0
      /\ Len(backlog') = Len(backlog) - 1
      /\ DOMAIN backlog' = 1..Len(backlog) - 1
      /\ backlog[1] = c
      /\ \A i \in DOMAIN backlog' : i + 1 \in DOMAIN backlog /\ backlog'[i] = backlog[i + 1]
  <2>1. backlog # <<>> /\ backlog' = Tail(backlog) /\ c = Head(backlog)
    OBVIOUS
  <2>2. backlog' \in Seq(Conns) /\ Len(backlog') = Len(backlog) - 1
    BY <2>1, HeadTailProperties
  <2>. QED
    BY <2>1, <2>2, HeadTailProperties, LenProperties
<1>4. life[c] = "none" /\ peer[c] # "idle"
  BY <1>3 DEF Ownership, BacklogFresh
<1>5. callbacks_' = [callbacks_ EXCEPT ![f] = c]
  BY <1>2 DEF Emplaced, Ownership, Coherent
<1>6. Coherent'
  <2>1. /\ fdt' = [fdt EXCEPT ![f] = c] /\ life' = [life EXCEPT ![c] = "live"]
        /\ fd_' = [fd_ EXCEPT ![c] = f]
        /\ fdt \in [Fds -> Conns \cup {NoConn}] /\ callbacks_ \in [Fds -> Conns \cup {NoConn}]
        /\ life \in [Conns -> {"none", "live", "destroyed"}]
        /\ fd_ \in [Conns -> Fds \cup {NoFd}]
    BY DEF TypeOK, PollTypes, ConnTypes
  <2>2. \A g \in Fds : callbacks_'[g] = fdt'[g]
    BY <1>5, <2>1 DEF Ownership, Coherent
  <2>3. \A g \in Fds : fdt'[g] # NoConn => life'[fdt'[g]] = "live" /\ fd_'[fdt'[g]] = g
    BY <1>4, <2>1 DEF Ownership, Coherent
  <2>4. \A d \in Conns : fd_'[d] \in Fds => fdt'[fd_'[d]] = d
    BY <1>2, <2>1 DEF Ownership, Coherent
  <2>5. \A d \in Conns : life'[d] = "live" => fd_'[d] \in Fds
    BY <2>1 DEF Ownership, Coherent
  <2>. QED
    BY <2>2, <2>3, <2>4, <2>5 DEF Coherent
<1>7. BacklogFresh'
  <2>1. \A d \in Conns : life'[d] = IF d = c THEN "live" ELSE life[d]
    BY DEF TypeOK, ConnTypes
  <2>2. \A i \in DOMAIN backlog' : backlog'[i] # c
    BY <1>3 DEF Ownership, BacklogFresh
  <2>3. \A i \in DOMAIN backlog' :
            life'[backlog'[i]] = "none" /\ peer'[backlog'[i]] # "idle"
    BY <1>1, <1>3, <2>1, <2>2 DEF Ownership, BacklogFresh
  <2>4. \A i, j \in DOMAIN backlog' : backlog'[i] = backlog'[j] => i = j
    BY <1>3 DEF Ownership, BacklogFresh
  <2>5. \A d \in Conns : peer'[d] = "idle" => life'[d] = "none"
    BY <1>4, <2>1 DEF Ownership, BacklogFresh
  <2>. QED
    BY <2>3, <2>4, <2>5 DEF BacklogFresh
<1>8. RegisteredOpen'
  <2>1. \A g \in Fds : fdt'[g] # NoConn <=> fdt[g] # NoConn \/ g = f
    BY DEF TypeOK, PollTypes
  <2>2. CASE registered
    <3>1. epi' = [epi EXCEPT ![f] = {"IN"}] /\ ready' \subseteq ready \cup {f}
      BY <2>2 DEF Repolled
    <3>2. \A g \in Fds : epi'[g] = IF g = f THEN {"IN"} ELSE epi[g]
      BY <3>1 DEF TypeOK, PollTypes
    <3>3. \A g \in ready \ {Listen} : g \in Fds
      BY DEF TypeOK, PollTypes, Watched
    <3>4. \A g \in Fds : epi'[g] # {} => fdt'[g] # NoConn
      BY <2>1, <3>2 DEF RegisteredOpen, Ownership
    <3>5. ASSUME NEW g \in ready', g # Listen PROVE epi'[g] # {}
      <4>1. CASE g = f
        BY <3>2, <4>1
      <4>2. CASE g # f
        <5>1. g \in ready \ {Listen} /\ g \in Fds
          BY <3>1, <3>3, <3>5, <4>2
        <5>2. epi[g] # {}
          BY <5>1 DEF RegisteredOpen, Ownership
        <5>. QED
          BY <3>2, <4>2, <5>1, <5>2
      <4>. QED
        BY <4>1, <4>2
    <3>. QED
      BY <3>4, <3>5 DEF RegisteredOpen
  <2>3. CASE ~registered
    BY <2>1, <2>3 DEF RegisteredOpen, Ownership
  <2>. QED
    BY <2>2, <2>3
<1>9. EventsHaveOwners'
  BY DEF EventsHaveOwners, Ownership, TypeOK, PollTypes
<1>. QED
  BY <1>6, <1>7, <1>8, <1>9 DEF Ownership

LEMMA AcceptOwners ==
    ASSUME TypeOK, Ownership, Accept
    PROVE  Ownership'
  BY NewConnectionOwners DEF Accept, AcceptMore, peerVars
-----------------------------------------------------------------------------
(***************************************************************************)
(* handle_event and what it calls.                                         *)
(***************************************************************************)
\* modify_fd changes what a descriptor is registered for, never whether it is.
LEMMA ModifyFdOwners ==
    ASSUME TypeOK, Ownership, NEW f, NEW interest, interest # {}, NEW polled,
           ModifyFd(f, interest, polled), UNCHANGED fdt
    PROVE  RegisteredOpen'
<1>1. CASE Registered(f)
  <2>1. \A g \in Fds : epi'[g] # {} <=> epi[g] # {}
    BY <1>1 DEF ModifyFd, Registered, TypeOK, PollTypes
  <2>2. ready' \subseteq ready \cup {f}
    BY <1>1 DEF ModifyFd, Repolled
  <2>3. \A g \in ready \ {Listen} : g \in Fds
    BY DEF TypeOK, PollTypes, Watched
  <2>. QED
    BY <1>1, <2>1, <2>2, <2>3 DEF RegisteredOpen, Ownership, Registered
<1>2. CASE ~Registered(f)
  BY <1>2, SameOwners DEF ModifyFd
<1>. QED
  BY <1>1, <1>2

LEMMA HandledOwners ==
    ASSUME TypeOK, Ownership, NEW c \in Conns, NEW e, Handling(c, e), Handled(e),
           UNCHANGED <<fdt, life, fd_>>
    PROVE  EventsHaveOwners'
  BY DEF Ownership, EventsHaveOwners, Handling, Handled

\* handle_close takes the connection out of the table, the map and the epoll set
\* in one handler, and its batch entry is the one being handled.
LEMMA HandleCloseOwners ==
    ASSUME TypeOK, Ownership, NEW c \in Conns, NEW e, Handling(c, e), HandleClose(c)
    PROVE  Ownership'
<1>. DEFINE f == fd_[c]
<1>. USE DEF HandleClose
<1>1. f \in Fds /\ fdt[f] = c /\ batch[f] = {}
  BY DEF Handling, Ownership, Coherent, EventsHaveOwners
<1>2. /\ fdt' = [fdt EXCEPT ![f] = NoConn] /\ callbacks_' = [callbacks_ EXCEPT ![f] = NoConn]
      /\ fd_' = [fd_ EXCEPT ![c] = NoFd]
      /\ fdt \in [Fds -> Conns \cup {NoConn}] /\ callbacks_ \in [Fds -> Conns \cup {NoConn}]
      /\ life \in [Conns -> {"none", "live", "destroyed"}]
      /\ fd_ \in [Conns -> Fds \cup {NoFd}]
  BY DEF Erased, TypeOK, PollTypes, ConnTypes
<1>3. \A g \in Fds : callbacks_'[g] # c
  BY <1>1, <1>2 DEF Ownership, Coherent
<1>4. life' = [life EXCEPT ![c] = "destroyed"]
  BY <1>2, <1>3
<1>5. Coherent'
  <2>. USE <1>1, <1>2, <1>4 DEF Ownership, Coherent
  <2>1. \A g \in Fds : callbacks_'[g] = fdt'[g]
    OBVIOUS
  <2>2. \A g \in Fds : fdt'[g] # NoConn => life'[fdt'[g]] = "live" /\ fd_'[fdt'[g]] = g
    OBVIOUS
  <2>3. NoFd \notin Fds
    BY DEF NoFd
  <2>4. \A d \in Conns : fd_'[d] \in Fds => fdt'[fd_'[d]] = d
    BY <2>3
  <2>5. \A d \in Conns : life'[d] = "live" => fd_'[d] \in Fds
    OBVIOUS
  <2>. QED
    BY <2>1, <2>2, <2>4, <2>5
<1>6. BacklogFresh'
  <2>1. life[c] = "live"
    BY <1>1 DEF Ownership, Coherent
  <2>2. \A d \in Conns : life'[d] = "none" <=> life[d] = "none"
    BY <1>2, <1>4, <2>1
  <2>3. \A i \in DOMAIN backlog : backlog[i] \in Conns
    BY ElementOfSeq, LenProperties DEF TypeOK, SockTypes
  <2>4. UNCHANGED <<backlog, peer>>
    BY DEF peerVars
  <2>. QED
    BY <2>2, <2>3, <2>4 DEF Ownership, BacklogFresh
<1>7. RegisteredOpen'
  <2>1. \A g \in Fds : epi'[g] = IF g = f THEN {} ELSE epi[g]
    BY DEF TypeOK, PollTypes
  <2>2. \A g \in ready \ {Listen} : g \in Fds
    BY DEF TypeOK, PollTypes, Watched
  <2>. QED
    BY <1>1, <1>2, <2>1, <2>2 DEF Ownership, RegisteredOpen
<1>8. EventsHaveOwners'
  BY <1>1, <1>2 DEF Ownership, EventsHaveOwners
<1>. QED
  BY <1>5, <1>6, <1>7, <1>8 DEF Ownership

LEMMA RunOnDestroyedOwners ==
    ASSUME TypeOK, Ownership, RunOnDestroyed
    PROVE  Ownership'
<1>. USE DEF RunOnDestroyed
<1>1. Coherent' /\ BacklogFresh' /\ RegisteredOpen'
  BY SameOwners DEF connVars, sockVars, peerVars, pollVars
<1>2. EventsHaveOwners'
  BY DEF Ownership, EventsHaveOwners, pollVars
<1>. QED
  BY <1>1, <1>2 DEF Ownership

LEMMA DoReadOwners ==
    ASSUME TypeOK, Ownership, NEW c \in Conns, DoRead(c)
    PROVE  Ownership'
<1>. USE DEF DoRead
<1>1. Coherent' /\ BacklogFresh'
  BY SameOwners DEF connVars, peerVars
<1>2. RegisteredOpen'
  <2>1. UNCHANGED <<epi, ready>>
        \/ \E reply : Send(c, reply)
    BY DEF HandleInput, HandleIncomplete, HandleGarbled, HandleWhole
  <2>. QED
    BY <2>1, ModifyFdOwners, SameOwners DEF Send, WhileWriting
<1>3. EventsHaveOwners'
  BY HandledOwners DEF connVars
<1>. QED
  BY <1>1, <1>2, <1>3 DEF Ownership

LEMMA CloseOwners ==
    ASSUME TypeOK, Ownership, NEW c \in Conns,
           DoReadEnd(c) \/ WriteAllClose(c) \/ WriteReset(c)
    PROVE  Ownership'
  BY HandleCloseOwners DEF DoReadEnd, WriteAllClose, WriteAll, WriteReset

LEMMA WriteAllKeepOwners ==
    ASSUME TypeOK, Ownership, NEW c \in Conns, WriteAllKeep(c)
    PROVE  Ownership'
<1>. USE DEF WriteAllKeep
<1>1. Coherent' /\ BacklogFresh'
  BY SameOwners DEF connVars, peerVars
<1>2. RegisteredOpen'
  BY ModifyFdOwners DEF AfterFlush
<1>3. EventsHaveOwners'
  BY HandledOwners DEF connVars, WriteAll
<1>. QED
  BY <1>1, <1>2, <1>3 DEF Ownership

LEMMA WriteSomeOwners ==
    ASSUME TypeOK, Ownership, NEW c \in Conns, WriteSome(c), RegisteredOpen'
    PROVE  Ownership'
<1>. USE DEF WriteSome
<1>1. Coherent' /\ BacklogFresh'
  BY SameOwners DEF connVars, peerVars
<1>2. EventsHaveOwners'
  BY HandledOwners DEF connVars
<1>. QED
  BY <1>1, <1>2 DEF Ownership

LEMMA WriteBrokenOwners ==
    ASSUME TypeOK, Ownership, NEW c \in Conns, WriteBroken(c)
    PROVE  Ownership'
  BY SameOwners DEF WriteBroken, Ownership, connVars, peerVars, sockVars, pollVars
=============================================================================

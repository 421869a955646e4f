--------------------------- MODULE AsioServerProofs ---------------------------
(***************************************************************************)
(* My_WebServer_v2 for any number of connections and descriptors.          *)
(*                                                                         *)
(* DescriptorsHeld is not inductive: it speaks of the connections in       *)
(* active_connections, but what keeps two of them from holding one number  *)
(* is that the descriptor table and the sockets in use name each other     *)
(* (Held), that a connection is accepted once (Waiting), and that only one *)
(* is in the callback (Served).  Replied is what HttpService needs.        *)
(***************************************************************************)
EXTENDS AsioServer, SequenceTheorems, TLAPS

USE AsioDataAssumption, AsioBoundAssumption

InUse(c) == life[c] \in {"open", "answered"}

Held ==
    /\ \A f \in Fds : fdt[f] # NoConn => InUse(fdt[f]) /\ socket_[fdt[f]] = f
    /\ \A c \in Conns : InUse(c) => socket_[c] \in Fds /\ fdt[socket_[c]] = c
    /\ \A c \in Conns : c \in active_connections => life[c] # "none"

Waiting ==
    /\ \A i \in DOMAIN backlog :
          life[backlog[i]] = "none" /\ peer[backlog[i]] # "idle"
    /\ \A i, j \in DOMAIN backlog : backlog[i] = backlog[j] => i = j
    /\ \A c \in Conns : peer[c] = "idle" => life[c] = "none"

Served ==
    /\ at \in {"read", "write"} <=> cur # NoConn
    /\ \A c \in Conns : life[c] = "open" <=> c = cur
    /\ at = "setup" => listener # "watched"

\* What was written never exceeds the reply, and there is none before status.
Replied ==
    \A c \in Conns :
        /\ rcvd[c] + sndq[c] + (IF c = cur /\ at = "write" THEN owed ELSE 0)
              <= (IF status[c] = 0 THEN 0 ELSE Pieces)
        /\ life[c] = "none" \/ (c = cur /\ at = "read") => status[c] = 0

AsioInv == TypeOK /\ Held /\ Waiting /\ Served /\ Replied

LEMMA HeldBothWays ==
    ASSUME AsioInv
    PROVE  /\ \A g \in Fds : fdt[g] # NoConn =>
                  /\ fdt[g] \in Conns /\ life[fdt[g]] \in {"open", "answered"}
                  /\ socket_[fdt[g]] = g
           /\ \A d \in Conns : life[d] \in {"open", "answered"} =>
                  socket_[d] \in Fds /\ fdt[socket_[d]] = d
  BY DEF AsioInv, TypeOK, Held, InUse

LEMMA InvDescriptors == AsioInv => DescriptorsHeld
<1>. SUFFICES ASSUME AsioInv PROVE DescriptorsHeld
  OBVIOUS
<1>. USE DEF AsioInv
<1>. USE DEF AsioDataAssumption
<1>1. \A c \in Conns : Open(c) <=> InUse(c)
  <2>. TAKE c \in Conns
  <2>1. Open(c) => InUse(c)
    BY DEF Open, Held
  <2>2. InUse(c) => Open(c)
    BY DEF Open, Held
  <2>. QED
    BY <2>1, <2>2
<1>2. \A c \in Conns : InUse(c) <=> c = cur \/ life[c] = "answered"
  BY DEF Served, InUse
<1>3. \A c \in active_connections : Open(c) => fdt[socket_[c]] = c
  BY <1>1 DEF Held, TypeOK
<1>4. \A c, d \in active_connections :
          c # d /\ socket_[c] = socket_[d] => life[c] = "closed" \/ life[d] = "closed"
  <2>. active_connections \subseteq Conns
    BY DEF TypeOK
  <2>1. \A c \in Conns : life[c] \in {"none", "open", "answered", "closed"}
    BY DEF TypeOK
  <2>2. \A c \in active_connections : life[c] = "closed" \/ InUse(c)
    BY <2>1 DEF Held, InUse
  <2>. QED
    BY <2>2 DEF Held
<1>. QED
  BY <1>1, <1>2, <1>3, <1>4 DEF DescriptorsHeld

LEMMA InitAsio == Init => AsioInv
<1>. SUFFICES ASSUME Init PROVE AsioInv
  OBVIOUS
<1>. USE DEF Init
<1>1. TypeOK
  <2>1. backlog \in Seq(Conns) /\ active_connections \subseteq Conns
    OBVIOUS
  <2>2. 0 \in 0..Pieces /\ 0 \in 0..SndCap
    BY DEF AsioBoundAssumption
  <2>. QED
    BY <2>1, <2>2 DEF TypeOK, Stages, NoFd
<1>2. Held /\ Served
  BY DEF Held, Served, InUse, AsioDataAssumption
<1>3. Waiting /\ Replied
  BY DEF Waiting, Replied
<1>. QED
  BY <1>1, <1>2, <1>3 DEF AsioInv
-----------------------------------------------------------------------------
(***************************************************************************)
(* What a step keeps by leaving variables alone.                           *)
(***************************************************************************)
LEMMA SameAsio ==
    ASSUME AsioInv
    PROVE  /\ UNCHANGED <<fdt, life, socket_, active_connections>> => Held'
           /\ UNCHANGED <<backlog, life, peer>> => Waiting'
           /\ UNCHANGED <<life, cur, at, listener>> => Served'
           /\ UNCHANGED <<rcvd, sndq, owed, status, life, cur, at>> => Replied'
<1>. USE DEF AsioInv
<1>1. UNCHANGED <<fdt, life, socket_, active_connections>> => Held'
  BY DEF Held, InUse
<1>2. UNCHANGED <<backlog, life, peer>> => Waiting'
  BY DEF Waiting
<1>3. UNCHANGED <<life, cur, at, listener>> => Served'
  BY DEF Served
<1>4. UNCHANGED <<rcvd, sndq, owed, status, life, cur, at>> => Replied'
  BY DEF Replied
<1>. QED
  BY <1>1, <1>2, <1>3, <1>4

LEMMA ConnectAsio ==
    ASSUME AsioInv, NEW c \in Conns, Connect(c)
    PROVE  AsioInv'
<1>. USE DEF AsioInv, Connect, connVars, threadVars
<1>1. TypeOK'
  BY DEF TypeOK, Stages
<1>2. Held' /\ Served' /\ Replied'
  BY SameAsio
<1>3. Waiting'
  <2>. backlog \in Seq(Conns)
    BY DEF TypeOK
  <2>1. \A i \in DOMAIN backlog : backlog[i] \in Conns
    BY ElementOfSeq, LenProperties
  <2>2. life[c] = "none" /\ \A i \in DOMAIN backlog : backlog[i] # c
    BY DEF Waiting
  <2>3. /\ Len(backlog) \in Nat /\ DOMAIN backlog = 1..Len(backlog)
        /\ DOMAIN backlog' = 1..Len(backlog)+1
        /\ backlog'[Len(backlog) + 1] = c
        /\ \A i \in 1..Len(backlog) : backlog'[i] = backlog[i]
    BY AppendProperties, LenProperties
  <2>4. \A d \in Conns : peer'[d] = IF d = c THEN "up" ELSE peer[d]
    BY DEF TypeOK
  <2>5. \A i \in DOMAIN backlog' :
            life'[backlog'[i]] = "none" /\ peer'[backlog'[i]] # "idle"
    BY <2>1, <2>2, <2>3, <2>4 DEF Waiting
  <2>6. \A i, j \in DOMAIN backlog' : backlog'[i] = backlog'[j] => i = j
    BY <2>2, <2>3 DEF Waiting
  <2>7. \A d \in Conns : peer'[d] = "idle" => life'[d] = "none"
    BY <2>4 DEF Waiting
  <2>. QED
    BY <2>5, <2>6, <2>7 DEF Waiting
<1>. QED
  BY <1>1, <1>2, <1>3

LEMMA SendsAsio ==
    ASSUME AsioInv, NEW c \in Conns, Ask(c) \/ Finish(c)
    PROVE  AsioInv'
<1>1. PICK to \in {"part", "whole", "bad"} : \E from : Sends(c, from, to)
  BY DEF Ask, Finish
<1>. USE <1>1 DEF AsioInv, Sends, kernelVars, connVars, threadVars
<1>2. TypeOK'
  BY DEF TypeOK, Stages
<1>. QED
  BY <1>2, SameAsio

LEMMA LeavesAsio ==
    ASSUME AsioInv, NEW c \in Conns, Fin(c) \/ Rst(c)
    PROVE  AsioInv'
<1>1. PICK p \in {"fin", "rst"} : Leaves(c, p) /\ peer[c] # "idle"
  BY DEF Fin, Rst, MaySend
<1>. USE <1>1 DEF AsioInv, Leaves, connVars, threadVars
<1>2. TypeOK'
  BY DEF TypeOK, Stages
<1>3. Held' /\ Served'
  BY SameAsio
<1>4. Waiting'
  <2>1. \A i \in DOMAIN backlog : backlog[i] \in Conns
    BY ElementOfSeq, LenProperties DEF TypeOK
  <2>2. \A d \in Conns : peer'[d] = "idle" <=> peer[d] = "idle"
    BY DEF TypeOK
  <2>. QED
    BY <2>1, <2>2 DEF Waiting
<1>5. Replied'
  <2>1. \A d \in Conns : sndq'[d] \in {0, sndq[d]}
    BY DEF TypeOK
  <2>2. /\ \A d \in Conns : rcvd[d] \in Nat /\ sndq[d] \in Nat
        /\ owed \in Nat
    BY DEF TypeOK, AsioBoundAssumption
  <2>. QED
    BY <2>1, <2>2 DEF Replied, AsioBoundAssumption
<1>. QED
  BY <1>2, <1>3, <1>4, <1>5

LEMMA ReceiveAsio ==
    ASSUME AsioInv, NEW c \in Conns, Receive(c)
    PROVE  AsioInv'
<1>. USE DEF AsioInv, Receive, connVars, threadVars
<1>. USE DEF AsioBoundAssumption
<1>0. /\ \A d \in Conns : rcvd[d] \in Nat /\ sndq[d] \in 0..SndCap
      /\ owed \in Nat
  BY DEF TypeOK
<1>1. rcvd[c] + sndq[c] <= Pieces
  BY <1>0 DEF Replied
<1>2. \A d \in Conns : /\ rcvd'[d] = IF d = c THEN rcvd[c] + 1 ELSE rcvd[d]
                       /\ sndq'[d] = IF d = c THEN sndq[c] - 1 ELSE sndq[d]
  BY DEF TypeOK
<1>3. rcvd' \in [Conns -> 0..Pieces] /\ sndq' \in [Conns -> 0..SndCap]
  <2>1. rcvd[c] + 1 \in 0..Pieces /\ sndq[c] - 1 \in 0..SndCap
    BY <1>0, <1>1
  <2>. QED
    BY <2>1 DEF TypeOK
<1>4. TypeOK'
  BY <1>3 DEF TypeOK
<1>5. Held' /\ Waiting' /\ Served'
  BY SameAsio
<1>6. Replied'
  BY <1>0, <1>2 DEF Replied
<1>. QED
  BY <1>4, <1>5, <1>6

LEMMA SetUpAsio ==
    ASSUME AsioInv, SetUp \/ SetUpFails
    PROVE  AsioInv'
<1>. USE DEF AsioInv, SetUp, SetUpFails, clientVars, connVars
<1>1. listener' \in Stages /\ edge' \in BOOLEAN /\ at' \in {"setup", "wait"} /\ at = "setup"
  <2>. USE DEF TypeOK, PolledOnAdd
  <2>1. listener # "watched"
    BY DEF Served
  <2>2. listener' \in Stages
    BY <2>1 DEF Stages, NextStage
  <2>3. edge' \in BOOLEAN /\ at' \in {"setup", "wait"}
    OBVIOUS
  <2>. QED
    BY <2>2, <2>3
<1>2. proc' \in {"running", "failed", "segv"}
  BY DEF TypeOK, MainReturns
<1>3. TypeOK'
  BY <1>1, <1>2 DEF TypeOK
<1>4. Held' /\ Waiting'
  BY SameAsio
<1>5. Served'
  BY <1>1 DEF Served, NextStage, TypeOK, Stages
<1>6. Replied'
  BY <1>1 DEF Replied
<1>. QED
  BY <1>3, <1>4, <1>5, <1>6

\* The loop's own steps and the acceptor's ways out.
LEMMA LoopAsio ==
    ASSUME AsioInv, EpollWait \/ AcceptAgain \/ AcceptThrows
    PROVE  AsioInv'
<1>. USE DEF AsioInv, EpollWait, AcceptAgain, AcceptThrows, Accepting, clientVars, connVars, kernelVars
<1>1. at' \in {"wait", "accept"} /\ at \in {"wait", "accept"} /\ edge' \in BOOLEAN
  BY DEF TypeOK
<1>2. proc' \in {"running", "failed", "segv"}
  BY DEF TypeOK, MainReturns
<1>3. TypeOK'
  BY <1>1, <1>2 DEF TypeOK
<1>4. Held' /\ Waiting'
  BY SameAsio
<1>5. Served' /\ Replied'
  BY <1>1 DEF Served, Replied, TypeOK
<1>. QED
  BY <1>3, <1>4, <1>5

\* One connection leaves the backlog and gets an object or is closed at once.
LEMMA TakenAsio ==
    ASSUME AsioInv, backlog # <<>>, backlog' = Tail(backlog), UNCHANGED peer,
           NEW l \in {"open", "closed"}, life' = [life EXCEPT ![Head(backlog)] = l]
    PROVE  /\ Waiting' /\ backlog' \in Seq(Conns)
           /\ Head(backlog) \in Conns /\ life[Head(backlog)] = "none"
<1>. USE DEF AsioInv
<1>. DEFINE c == Head(backlog)
<1>1. backlog \in Seq(Conns)
  BY DEF TypeOK
<1>2. /\ c \in Conns /\ backlog' \in Seq(Conns) /\ c = backlog[1] /\ 1 \in DOMAIN backlog
      /\ Len(backlog) \in Nat /\ DOMAIN backlog = 1..Len(backlog)
      /\ DOMAIN backlog' = 1..Len(backlog) - 1
      /\ \A i \in DOMAIN backlog' : i + 1 \in DOMAIN backlog /\ backlog'[i] = backlog[i + 1]
  BY <1>1, HeadTailProperties, LenProperties
<1>. HIDE DEF c
<1>3. \A i \in DOMAIN backlog : backlog[i] \in Conns
  BY <1>1, ElementOfSeq, LenProperties
<1>4. life[c] = "none" /\ peer[c] # "idle"
  BY <1>2 DEF Waiting
<1>5. \A d \in Conns : life'[d] = IF d = c THEN l ELSE life[d]
  BY <1>2 DEF TypeOK, c
<1>6. \A i \in DOMAIN backlog' : backlog'[i] # c
  BY <1>2 DEF Waiting
<1>7. \A i \in DOMAIN backlog' :
          life'[backlog'[i]] = "none" /\ peer'[backlog'[i]] # "idle"
  BY <1>2, <1>3, <1>5, <1>6 DEF Waiting
<1>8. \A i, j \in DOMAIN backlog' : backlog'[i] = backlog'[j] => i = j
  BY <1>2 DEF Waiting
<1>9. \A d \in Conns : peer'[d] = "idle" => life'[d] = "none"
  BY <1>4, <1>5 DEF Waiting
<1>. QED
  BY <1>2, <1>4, <1>7, <1>8, <1>9 DEF Waiting, c

LEMMA AcceptAsio ==
    ASSUME AsioInv, Accept
    PROVE  AsioInv'
<1>. USE DEF AsioInv
<1>1. PICK c \in Conns, f \in FreeFds :
        /\ backlog # <<>> /\ c = Head(backlog)
        /\ fdt' = [fdt EXCEPT ![f] = c]
        /\ socket_' = [socket_ EXCEPT ![c] = f]
        /\ life' = [life EXCEPT ![c] = "open"]
        /\ active_connections' = active_connections \cup {c}
        /\ cur' = c
  BY DEF Accept
<1>2. /\ backlog' = Tail(backlog) /\ at = "accept" /\ at' = "read"
      /\ UNCHANGED <<listener, edge, sndq, clientVars, req_, status, owed, proc>>
  BY DEF Accept, Accepting
<1>3. Waiting' /\ backlog' \in Seq(Conns) /\ life[c] = "none"
  BY <1>1, <1>2, TakenAsio DEF clientVars
<1>4. f \in Fds /\ fdt[f] = NoConn
  BY DEF FreeFds
<1>5. TypeOK'
  BY <1>1, <1>2, <1>3, <1>4 DEF TypeOK, clientVars
<1>6. /\ \A d \in Conns : life'[d] = IF d = c THEN "open" ELSE life[d]
      /\ \A d \in Conns : socket_'[d] = IF d = c THEN f ELSE socket_[d]
      /\ \A g \in Fds : fdt'[g] = IF g = f THEN c ELSE fdt[g]
  BY <1>1, <1>4 DEF TypeOK
<1>7. Held'
  <2>1. ASSUME NEW g \in Fds, fdt'[g] # NoConn
        PROVE  life'[fdt'[g]] \in {"open", "answered"} /\ socket_'[fdt'[g]] = g
    <3>1. CASE g = f
      BY <3>1, <1>6
    <3>2. CASE g # f
      <4>1. fdt'[g] = fdt[g] /\ fdt[g] # NoConn
        BY <2>1, <3>2, <1>6
      <4>2. fdt[g] \in Conns /\ life[fdt[g]] \in {"open", "answered"} /\ socket_[fdt[g]] = g
        BY <4>1, HeldBothWays
      <4>. QED
        BY <4>1, <4>2, <1>3, <1>6
    <3>. QED
      BY <3>1, <3>2
  <2>2. ASSUME NEW d \in Conns, life'[d] \in {"open", "answered"}
        PROVE  socket_'[d] \in Fds /\ fdt'[socket_'[d]] = d
    <3>1. CASE d = c
      BY <3>1, <1>4, <1>6
    <3>2. CASE d # c
      <4>1. life[d] \in {"open", "answered"} /\ socket_'[d] = socket_[d]
        BY <2>2, <3>2, <1>6
      <4>2. socket_[d] \in Fds /\ fdt[socket_[d]] = d
        BY <4>1, HeldBothWays
      <4>. QED
        BY <4>1, <4>2, <1>4, <1>6
    <3>. QED
      BY <3>1, <3>2
  <2>3. \A d \in Conns : d \in active_connections' => life'[d] # "none"
    BY <1>1, <1>6 DEF Held
  <2>. QED
    BY <2>1, <2>2, <2>3 DEF Held, InUse
<1>8. Served'
  BY <1>1, <1>2, <1>6 DEF Served, AsioDataAssumption
<1>9. Replied'
  BY <1>1, <1>2, <1>3, <1>6 DEF Replied, Served, TypeOK, clientVars
<1>. QED
  BY <1>3, <1>5, <1>7, <1>8, <1>9

LEMMA AssignFailsAsio ==
    ASSUME AsioInv, AssignFails
    PROVE  AsioInv'
<1>. USE DEF AsioInv, AssignFails, Accepting, clientVars, threadVars
<1>. DEFINE c == Head(backlog)
<1>1. Waiting' /\ backlog' \in Seq(Conns) /\ c \in Conns /\ life[c] = "none"
  BY TakenAsio
<1>2. TypeOK'
  BY <1>1 DEF TypeOK
<1>3. \A d \in Conns : life'[d] = IF d = c THEN "closed" ELSE life[d]
  BY <1>1 DEF TypeOK
<1>. HIDE DEF c
<1>4. Held'
  BY <1>1, <1>3 DEF Held, InUse, TypeOK
<1>5. Served' /\ Replied'
  BY <1>1, <1>3 DEF Served, Replied, TypeOK
<1>. QED
  BY <1>1, <1>2, <1>4, <1>5
-----------------------------------------------------------------------------
(***************************************************************************)
(* The callback.                                                           *)
(***************************************************************************)
LEMMA StatusValue ==
    ASSUME NEW r \in Requests
    PROVE  Status(r) \in {200, 404, 405}
  BY DEF Status, GetStatus, ResolveThrows, Methods

LEMMA ReadAsio ==
    ASSUME AsioInv, NEW c \in Conns, ReadRequest(c)
    PROVE  AsioInv'
<1>. USE DEF AsioInv, ReadRequest, InCallback, clientVars, kernelVars
<1>1. PICK r \in Requests : status' = [status EXCEPT ![c] = Status(r)]
  OBVIOUS
<1>2. Status(r) \in {200, 404, 405}
  BY StatusValue
<1>3. TypeOK'
  BY <1>1, <1>2 DEF TypeOK
<1>4. Held' /\ Waiting'
  BY SameAsio
<1>5. Served'
  BY DEF Served
<1>6. Replied'
  <2>1. \A d \in Conns : status'[d] = IF d = c THEN Status(r) ELSE status[d]
    BY <1>1 DEF TypeOK
  <2>2. status[c] = 0 /\ life[c] = "open"
    BY DEF Replied, Served
  <2>3. rcvd[c] + sndq[c] + owed' <= Pieces
    BY <2>2 DEF Replied, TypeOK
  <2>. QED
    BY <1>2, <2>1, <2>2, <2>3 DEF Replied, TypeOK
<1>. QED
  BY <1>3, <1>4, <1>5, <1>6

\* The connection in the callback leaves it, with its descriptor or without.
LEMMA LeftAsio ==
    ASSUME AsioInv, NEW c \in Conns, c = cur, at \in {"read", "write"}, at' = "accept",
           NEW l \in {"answered", "closed"}, life' = [life EXCEPT ![c] = l],
           owed' = 0, cur' = NoConn,
           UNCHANGED <<clientVars, listener, backlog, edge, sndq>>,
           UNCHANGED <<active_connections, socket_, req_, status, proc>>,
           fdt' = IF l = "closed" THEN Closed(c) ELSE fdt
    PROVE  AsioInv'
<1>. USE DEF AsioInv, clientVars
<1>1. life[c] = "open" /\ socket_[c] \in Fds /\ fdt[socket_[c]] = c
  BY DEF Served, Held, InUse
<1>2. TypeOK'
  BY <1>1 DEF TypeOK, Closed
<1>3. \A d \in Conns : life'[d] = IF d = c THEN l ELSE life[d]
  BY DEF TypeOK
<1>4. \A g \in Fds : fdt'[g] = IF l = "closed" /\ g = socket_[c] THEN NoConn ELSE fdt[g]
  BY DEF TypeOK, Closed
<1>5. Held'
  <2>1. ASSUME NEW g \in Fds, fdt'[g] # NoConn
        PROVE  life'[fdt'[g]] \in {"open", "answered"} /\ socket_'[fdt'[g]] = g
    <3>1. fdt'[g] = fdt[g] /\ fdt[g] # NoConn
      BY <2>1, <1>4
    <3>2. fdt[g] \in Conns /\ life[fdt[g]] \in {"open", "answered"} /\ socket_[fdt[g]] = g
      BY <3>1, HeldBothWays
    <3>. QED
      BY <2>1, <3>1, <3>2, <1>3, <1>4
  <2>2. ASSUME NEW d \in Conns, life'[d] \in {"open", "answered"}
        PROVE  socket_'[d] \in Fds /\ fdt'[socket_'[d]] = d
    <3>1. life[d] \in {"open", "answered"} /\ (d = c => l = "answered")
      BY <2>2, <1>1, <1>3
    <3>2. socket_[d] \in Fds /\ fdt[socket_[d]] = d
      BY <3>1, HeldBothWays
    <3>. QED
      BY <3>1, <3>2, <1>1, <1>4
  <2>3. \A d \in Conns : d \in active_connections' => life'[d] # "none"
    BY <1>3 DEF Held
  <2>. QED
    BY <2>1, <2>2, <2>3 DEF Held, InUse
<1>6. Waiting'
  <2>1. \A i \in DOMAIN backlog : backlog[i] \in Conns
    BY ElementOfSeq, LenProperties DEF TypeOK
  <2>. QED
    BY <1>1, <1>3, <2>1 DEF Waiting
<1>7. Served'
  BY <1>1, <1>3 DEF Served, AsioDataAssumption
<1>9. /\ \A d \in Conns : rcvd[d] \in Nat /\ sndq[d] \in Nat
      /\ owed \in Nat
  BY DEF TypeOK, AsioBoundAssumption
<1>8. Replied'
  BY <1>1, <1>3, <1>9 DEF Replied
<1>. QED
  BY <1>2, <1>5, <1>6, <1>7, <1>8

LEMMA WriteAsio ==
    ASSUME AsioInv, NEW c \in Conns, Write(c)
    PROVE  AsioInv'
<1>. USE DEF AsioInv, Write, InCallback, LeftToWrite, clientVars, connVars
<1>1. TypeOK'
  BY DEF TypeOK
<1>2. Held' /\ Waiting' /\ Served'
  BY SameAsio
<1>3. Replied'
  <2>1. \A d \in Conns : sndq'[d] = IF d = c THEN sndq[c] + 1 ELSE sndq[d]
    BY DEF TypeOK
  <2>. QED
    BY <2>1 DEF Replied, TypeOK
<1>. QED
  BY <1>1, <1>2, <1>3

LEMMA CallbackAsio ==
    ASSUME AsioInv, NEW c \in Conns, Callback(c)
    PROVE  AsioInv'
<1>1. CASE ReadThrows(c) \/ WriteThrows(c)
  BY <1>1, LeftAsio DEF ReadThrows, WriteThrows, CallbackCatches, InCallback
<1>2. CASE ShutdownSend(c)
  BY <1>2, LeftAsio DEF ShutdownSend, InCallback, kernelVars
<1>. QED
  BY <1>1, <1>2, ReadAsio, WriteAsio DEF Callback

LEMMA AsioStep == AsioInv /\ [Next]_vars => AsioInv'
<1>. SUFFICES ASSUME AsioInv, [Next]_vars PROVE AsioInv'
  OBVIOUS
<1>1. CASE Clients
  BY <1>1, ConnectAsio, SendsAsio, LeavesAsio, ReceiveAsio DEF Clients
<1>2. CASE Server
  BY <1>2, SetUpAsio, LoopAsio, AcceptAsio, AssignFailsAsio, CallbackAsio DEF Server
<1>3. CASE UNCHANGED vars
  <2>. USE <1>3 DEF vars, clientVars, kernelVars, connVars, threadVars, AsioInv
  <2>1. TypeOK'
    BY DEF TypeOK
  <2>. QED
    BY <2>1, SameAsio
<1>. QED
  BY <1>1, <1>2, <1>3 DEF Next

\* A descriptor is held by the connection in the callback and by the answered ones, and
\* by nobody else: none is leaked by a failing read, write or assign, none is closed
\* twice, and the stale number in active_connections never names a connection that is
\* in use (the callback in main, send_response).
THEOREM AsioDescriptors == Spec => [](TypeOK /\ DescriptorsHeld)
<1>1. AsioInv => TypeOK /\ DescriptorsHeld
  BY InvDescriptors DEF AsioInv
<1>. QED
  BY InitAsio, AsioStep, <1>1, PTL DEF Spec
-----------------------------------------------------------------------------
(***************************************************************************)
(* The service.  Nothing the clients of HttpService see changes but by     *)
(* asking, by the reply that read_request and process_request set, by a    *)
(* piece received, and by the descriptor's close.                          *)
(***************************************************************************)
LEMMA Quiet ==
    ASSUME UNCHANGED <<sent, status, rcvd, life>>
    PROVE  UNCHANGED Service!vars
  BY DEF Service!vars

\* The step leaves these connections' ends as they are.
LEMMA SameEnds ==
    ASSUME NEW c \in Conns, life \in [Conns -> {"none", "open", "answered", "closed"}],
           NEW l \in {"open", "answered"}, life[c] # "closed",
           life' = [life EXCEPT ![c] = l]
    PROVE  [d \in Conns |-> life'[d] = "closed"] = [d \in Conns |-> life[d] = "closed"]
<1>1. \A d \in Conns : (life'[d] = "closed") = (life[d] = "closed")
  OBVIOUS
<1>. QED
  BY <1>1

LEMMA AskServes ==
    ASSUME AsioInv, NEW c \in Conns, Ask(c) \/ Finish(c)
    PROVE  Service!Next \/ UNCHANGED Service!vars
<1>. USE DEF AsioInv, Sends, kernelVars, connVars, threadVars
<1>1. CASE Finish(c)
  <2>1. \A d \in Conns : sent'[d] = "none" <=> sent[d] = "none"
    BY <1>1 DEF Finish, TypeOK
  <2>2. UNCHANGED <<status, rcvd, life>>
    BY <1>1 DEF Finish
  <2>. QED
    BY <2>1, <2>2 DEF Service!vars
<1>2. CASE Ask(c)
  <2>1. /\ life[c] # "closed" /\ sent[c] = "none"
        /\ \A d \in Conns : sent'[d] = "none" <=> d # c /\ sent[d] = "none"
    BY <1>2 DEF Ask, MaySend, TypeOK
  <2>2. UNCHANGED <<status, rcvd, life>>
    BY <1>2 DEF Ask
  <2>3. [d \in Conns |-> IF sent'[d] = "none" THEN 0 ELSE 1]
           = [[d \in Conns |-> IF sent[d] = "none" THEN 0 ELSE 1] EXCEPT ![c] = @ + 1]
    <3>. DEFINE begun == [d \in Conns |-> IF sent[d] = "none" THEN 0 ELSE 1]
    <3>1. \A d \in Conns : begun'[d] = IF d = c THEN 1 ELSE begun[d]
      BY <2>1
    <3>2. begun[c] + 1 = 1
      BY <2>1
    <3>3. begun' = [begun EXCEPT ![c] = begun[c] + 1]
      BY <3>1, <3>2
    <3>. QED
      BY <3>3
  <2>4. ~[d \in Conns |-> life[d] = "closed"][c]
    BY <2>1
  <2>5. Service!Ask(c)
    BY <2>2, <2>3, <2>4 DEF Service!Ask
  <2>. QED
    BY <2>5 DEF Service!Next
<1>. QED
  BY <1>1, <1>2

LEMMA ReceiveServes ==
    ASSUME AsioInv, NEW c \in Conns, Receive(c)
    PROVE  Service!Next
<1>. USE DEF AsioInv, Receive, connVars, threadVars
<1>. USE DEF AsioBoundAssumption
<1>1. /\ \A d \in Conns : rcvd[d] \in Nat /\ sndq[d] \in Nat
      /\ owed \in Nat
  BY DEF TypeOK
<1>2. rcvd[c] < Pieces /\ status[c] # 0
  BY <1>1 DEF Replied
<1>3. \A d \in Conns : rcvd'[d] = IF d = c THEN rcvd[c] + 1 ELSE rcvd[d]
  BY DEF TypeOK
<1>. DEFINE got == [d \in Conns |-> [i \in 1..rcvd[d] |-> i]]
<1>4. Len(got[c]) = rcvd[c] /\ got[c] = [i \in 1..rcvd[c] |-> i]
  BY <1>1
<1>5. [i \in 1..rcvd[c] + 1 |-> i] = Append(got[c], rcvd[c] + 1)
  BY <1>1, <1>4
<1>6. got' = [got EXCEPT ![c] = Append(@, Len(@) + 1)]
  <2>1. \A d \in Conns : got'[d] = IF d = c THEN Append(got[c], Len(got[c]) + 1) ELSE got[d]
    <3>. TAKE d \in Conns
    <3>1. got'[d] = [i \in 1..rcvd'[d] |-> i] /\ got[d] = [i \in 1..rcvd[d] |-> i]
      OBVIOUS
    <3>. QED
      BY <3>1, <1>3, <1>4, <1>5
  <2>. QED
    BY <2>1
<1>7. Len(got[c]) < Pieces * Len([d \in Conns |-> IF status[d] = 0 THEN <<>> ELSE <<1>>][c])
  BY <1>1, <1>2, <1>4
<1>8. Service!Deliver(c)
  <2>. HIDE DEF got
  <2>. QED
    BY <1>6, <1>7 DEF Service!Deliver, got
<1>. QED
  BY <1>8 DEF Service!Next

LEMMA AnswerServes ==
    ASSUME AsioInv, NEW c \in Conns, ReadRequest(c)
    PROVE  Service!Next
<1>. USE DEF AsioInv, ReadRequest, InCallback, clientVars, kernelVars
<1>1. PICK r \in Requests : status' = [status EXCEPT ![c] = Status(r)]
  OBVIOUS
<1>2. Status(r) \in {200, 404, 405}
  BY StatusValue
<1>3. life[c] = "open" /\ status[c] = 0 /\ sent[c] # "none"
  BY DEF Served, Replied
<1>4. \A d \in Conns : status'[d] = IF d = c THEN Status(r) ELSE status[d]
  BY <1>1 DEF TypeOK
<1>. DEFINE answers == [d \in Conns |-> IF status[d] = 0 THEN <<>> ELSE <<1>>]
            begun   == [d \in Conns |-> IF sent[d] = "none" THEN 0 ELSE 1]
<1>5. answers[c] = <<>> /\ begun[c] = 1
  BY <1>3
<1>6. answers' = [answers EXCEPT ![c] = Append(@, 1)]
  <2>1. Append(<<>>, 1) = <<1>>
    OBVIOUS
  <2>2. \A d \in Conns : answers'[d] = IF d = c THEN <<1>> ELSE answers[d]
    BY <1>2, <1>4
  <2>. QED
    BY <1>5, <2>1, <2>2
<1>. HIDE DEF answers, begun
<1>8. begun' = begun /\ UNCHANGED <<rcvd, life>>
  BY DEF begun
<1>7. Service!Answer(c, 1)
  <2>1. ~[d \in Conns |-> life[d] = "closed"][c]
    BY <1>3
  <2>2. Service!LastAnswered(c) < 1
    BY <1>5 DEF Service!LastAnswered, answers
  <2>3. /\ begun[c] = [d \in Conns |-> IF sent[d] = "none" THEN 0 ELSE 1][c]
        /\ answers = [d \in Conns |-> IF status[d] = 0 THEN <<>> ELSE <<1>>]
        /\ answers' = [d \in Conns |-> IF status'[d] = 0 THEN <<>> ELSE <<1>>]
    BY DEF answers, begun
  <2>. QED
    BY <1>5, <1>6, <1>8, <2>1, <2>2, <2>3 DEF Service!Answer, begun
<1>. QED
  <2>1. 1 \in 1..[d \in Conns |-> IF sent[d] = "none" THEN 0 ELSE 1][c]
    BY <1>3
  <2>. QED
    BY <1>7, <2>1 DEF Service!Next

\* The callback's catch, and the close after a failed assign.
LEMMA EndServes ==
    ASSUME AsioInv, NEW c \in Conns, life[c] # "closed",
           life' = [life EXCEPT ![c] = "closed"], UNCHANGED <<sent, status, rcvd>>
    PROVE  Service!Next
<1>1. \A d \in Conns : (life'[d] = "closed") = (IF d = c THEN TRUE ELSE life[d] = "closed")
  BY DEF AsioInv, TypeOK
<1>2. [d \in Conns |-> life'[d] = "closed"]
         = [[d \in Conns |-> life[d] = "closed"] EXCEPT ![c] = TRUE]
  BY <1>1
<1>3. Service!End(c)
  BY <1>2 DEF Service!End
<1>. QED
  BY <1>3 DEF Service!Next

LEMMA AsioServes ==
    AsioInv /\ [Next]_vars => Service!Next \/ UNCHANGED Service!vars
<1>. SUFFICES ASSUME AsioInv, [Next]_vars
              PROVE  Service!Next \/ UNCHANGED Service!vars
  OBVIOUS
<1>1. CASE Clients
  <2>1. PICK c \in Conns : Connect(c) \/ Ask(c) \/ Finish(c) \/ Fin(c) \/ Rst(c) \/ Receive(c)
    BY <1>1 DEF Clients
  <2>2. CASE Connect(c) \/ Fin(c) \/ Rst(c)
    BY <2>2, Quiet DEF Connect, Fin, Rst, Leaves, connVars
  <2>. QED
    BY <2>1, <2>2, AskServes, ReceiveServes
<1>2. CASE SetUp \/ SetUpFails \/ EpollWait \/ AcceptAgain \/ AcceptThrows
  BY <1>2, Quiet DEF SetUp, SetUpFails, EpollWait, AcceptAgain, AcceptThrows, clientVars, connVars
<1>3. CASE Accept
  <2>1. PICK c \in Conns : /\ c = Head(backlog) /\ backlog # <<>>
                           /\ life' = [life EXCEPT ![c] = "open"]
    BY <1>3 DEF Accept
  <2>2. backlog' = Tail(backlog) /\ UNCHANGED <<peer, sent, status, rcvd>>
    BY <1>3 DEF Accept, clientVars
  <2>3. life[c] = "none"
    BY <2>1, <2>2, TakenAsio
  <2>. QED
    BY <2>1, <2>2, <2>3, SameEnds DEF Service!vars, AsioInv, TypeOK
<1>4. CASE AssignFails
  <2>. USE <1>4 DEF AssignFails, clientVars
  <2>1. life[Head(backlog)] = "none" /\ Head(backlog) \in Conns
    BY TakenAsio
  <2>. QED
    BY <2>1, EndServes
<1>5. ASSUME NEW c \in Conns, Callback(c)
      PROVE  Service!Next \/ UNCHANGED Service!vars
  <2>1. CASE ReadRequest(c)
    BY <2>1, AnswerServes
  <2>2. CASE ReadThrows(c) \/ WriteThrows(c)
    <3>. USE <2>2 DEF ReadThrows, WriteThrows, CallbackCatches, InCallback, clientVars
    <3>1. life[c] = "open"
      BY DEF AsioInv, Served
    <3>. QED
      BY <3>1, EndServes
  <2>3. CASE Write(c)
    BY <2>3, Quiet DEF Write, clientVars, connVars
  <2>4. CASE ShutdownSend(c)
    <3>. USE <2>4 DEF ShutdownSend, InCallback, clientVars
    <3>1. life[c] = "open"
      BY DEF AsioInv, Served
    <3>. QED
      BY <3>1, SameEnds DEF Service!vars, AsioInv, TypeOK
  <2>. QED
    BY <1>5, <2>1, <2>2, <2>3, <2>4 DEF Callback
<1>6. CASE UNCHANGED vars
  BY <1>6, Quiet DEF vars, clientVars, connVars
<1>. QED
  BY <1>1, <1>2, <1>3, <1>4, <1>5, <1>6 DEF Next, Server

LEMMA InitServes == Init => Service!Init
<1>. SUFFICES ASSUME Init PROVE Service!Init
  OBVIOUS
<1>. USE DEF Init
<1>1. [i \in 1..0 |-> i] = <<>>
  OBVIOUS
<1>2. [c \in Conns |-> [i \in 1..rcvd[c] |-> i]] = [c \in Conns |-> <<>>]
  <2>1. \A c \in Conns : [i \in 1..rcvd[c] |-> i] = <<>>
    BY <1>1
  <2>. QED
    BY <2>1
<1>3. [c \in Conns |-> life[c] = "closed"] = [c \in Conns |-> FALSE]
  <2>1. \A c \in Conns : (life[c] = "closed") = FALSE
    OBVIOUS
  <2>. QED
    BY <2>1
<1>4. /\ [c \in Conns |-> IF sent[c] = "none" THEN 0 ELSE 1] = [c \in Conns |-> 0]
      /\ [c \in Conns |-> IF status[c] = 0 THEN <<>> ELSE <<1>>] = [c \in Conns |-> <<>>]
  OBVIOUS
<1>. QED
  BY <1>2, <1>3, <1>4 DEF Service!Init

\* Every behaviour of the third server is one of HttpService: a client is answered once,
\* after it asked and before its descriptor is closed, and what it receives is a prefix
\* of that one answer, whatever accept4, assign, http::read and http::write throw
\* (handle_accept, read_request, send_response).
THEOREM AsioImplementsService == Spec => ImplementsService
<1>1. AsioInv /\ [Next]_vars => [Service!Next]_(Service!vars)
  BY AsioServes
<1>. QED
  BY InitAsio, AsioStep, InitServes, <1>1, PTL DEF Spec, ImplementsService, Service!Spec
=============================================================================

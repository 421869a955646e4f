---------------------------- MODULE WorkerServer ----------------------------
(***************************************************************************)
(* One worker of My_WebServer_v1.  The listening socket comes from         *)
(* create_socket, is blocking, and is shared with the other workers; the   *)
(* loop ends when SIGTERM made EpollReactor::stop clear running_.          *)
(*                                                                         *)
(* at = "tested":  running_ was read, epoll_wait not yet entered.          *)
(* at = "wait":    asleep in epoll_wait.                                   *)
(* at = "accept":  about to call accept4.                                  *)
(* at = "blocked": asleep in accept4, or woken by a connection.            *)
(***************************************************************************)
EXTENDS EpollReactor

VARIABLE running_

vars == <<peerVars, sockVars, pollVars, connVars, httpVars, loopVars, running_>>

WorkerTypeOK == TypeOK /\ running_ \in BOOLEAN

WorkerInit == Init /\ running_ = TRUE

Calm == UNCHANGED running_
-----------------------------------------------------------------------------
(***************************************************************************)
(* EpollReactor::run.                                                      *)
(***************************************************************************)
BatchDone == \A f \in Watched : batch[f] = {}

TestRunning ==
    /\ at = "loop" /\ proc = "running" /\ BatchDone
    /\ IF running_
       THEN at' = "tested" /\ UNCHANGED proc
       ELSE proc' = "stopped" /\ UNCHANGED at
    /\ UNCHANGED <<batch, cur, evs, peerVars, sockVars, pollVars, connVars, httpVars>>
    /\ Calm

EnterEpollWait ==
    /\ at = "tested" /\ proc = "running"
    /\ at' = "wait"
    /\ UNCHANGED <<batch, cur, evs, proc, peerVars, sockVars, pollVars, connVars, httpVars>>
    /\ Calm

(***************************************************************************)
(* worker_signal_handler.  A sleeping epoll_wait returns EINTR and the     *)
(* loop continues, a sleeping accept4 returns EINTR and handle_accept      *)
(* breaks; anywhere else only the flag changes, also just before accept4   *)
(* goes to sleep.  accept4 looks at the backlog before it looks at         *)
(* signals.  The master sends SIGTERM once.                                *)
(***************************************************************************)
RestartsAccept == at = "wait"                                       \* mutant

Asleep == at \in {"wait", "blocked"}

Sigterm ==
    /\ proc = "running" /\ running_
    /\ ~(at = "blocked" /\ backlog # <<>>)
    /\ running_' = FALSE
    /\ at' = IF Asleep THEN "loop" ELSE at
    /\ UNCHANGED <<batch, cur, evs, proc, peerVars, sockVars, pollVars, connVars, httpVars>>

\* Another worker, woken for the same connection, takes it first (external).
TakenByOther ==
    /\ proc = "running" /\ backlog # <<>>
    /\ backlog' = Tail(backlog)
    /\ peer' = [peer EXCEPT ![Head(backlog)] = "elsewhere"]
    /\ UNCHANGED <<asked, asking, rcvd, inq, sndq, pollVars, connVars, httpVars, loopVars>>
    /\ Calm
-----------------------------------------------------------------------------
(***************************************************************************)
(* handle_accept on the blocking socket.                                   *)
(***************************************************************************)
AcceptSleeps ==
    /\ at = "accept" /\ proc = "running" /\ backlog = <<>> /\ FreeFds # {}
    /\ at' = "blocked"
    /\ UNCHANGED <<batch, cur, evs, proc, peerVars, sockVars, pollVars, connVars, httpVars>>
    /\ Calm

\* accept4 takes a descriptor before it looks at the backlog: out of descriptors it
\* fails at once.  Other errors come at any time but in its sleep.
AcceptFails ==
    \/ at = "accept" /\ FreeFds = {}
    \/ at = "accept" /\ "accept" \in Faults
    \/ at = "blocked" /\ backlog # <<>> /\ "accept" \in Faults

\* Any error ends the loop; what is left in the backlog waits for a new edge.
AcceptBreaks ==
    /\ proc = "running" /\ AcceptFails
    /\ at' = "loop"
    /\ UNCHANGED <<batch, cur, evs, proc, peerVars, sockVars, pollVars, connVars, httpVars>>
    /\ Calm

\* A failing epoll_ctl is thrown; nothing catches it in the worker but main.
AcceptThrows ==
    /\ at \in {"accept", "blocked"} /\ proc = "running" /\ "add" \in Faults
    /\ \E c \in Conns, f \in Fds : NewConnection(c, f, FALSE)
    /\ proc' = "threw"
    /\ UNCHANGED <<batch, cur, evs, at, peerVars, inq, sndq, httpVars>>
    /\ Calm

(***************************************************************************)
(* do_write loops until output_buffer_ is empty or write returns -1.  Its  *)
(* first write takes something: only the thread itself fills the buffer of *)
(* a socket that polled writable.                                          *)
(***************************************************************************)
\* A partial write is followed by EAGAIN, which arms EPOLLOUT again.
WritePart(c) ==
    /\ WriteSome(c)
    /\ ModifyFd(fd_[c], WhileWriting, Polled(inq[c], sndq'[c], peer[c]))

DoWrite(c) ==
    \/ WriteAllKeep(c)
    \/ WriteAllClose(c)
    \/ WritePart(c)
    \/ WriteReset(c)
    \/ WriteBroken(c)

Reactor ==
    \/ EpollWait("wait")
    \/ DispatchAcceptor
    \/ Accept
    \/ RunOnDestroyed
    \/ \E f \in Fds : Dispatch(f)
    \/ \E c \in Conns : DoRead(c) \/ DoReadEnd(c) \/ DoWrite(c)

Worker ==
    \/ Reactor /\ Calm
    \/ TestRunning
    \/ EnterEpollWait
    \/ AcceptSleeps
    \/ AcceptBreaks
    \/ AcceptThrows

Next == (Clients /\ Calm) \/ Worker \/ Sigterm \/ TakenByOther

Spec == WorkerInit /\ [][Next]_vars

\* The worker runs whenever a system call lets it, clients read what they are
\* sent.  SIGTERM and the other workers owe nothing.
LiveSpec == Spec /\ WF_vars(Worker) /\ \A c \in Conns : WF_vars(Receive(c) /\ Calm)
-----------------------------------------------------------------------------
\* The place WorkerPlaces gives the worker.
Place ==
    CASE proc # "running"                      -> "dead"
      [] proc = "running" /\ at = "accept"     -> "serving"
      [] proc = "running" /\ at = "blocked"    -> IF backlog = <<>> THEN "accept" ELSE "serving"
      [] proc = "running" /\ at \in {"tested", "wait"} -> at
      [] OTHER -> IF batch[Listen] # {} THEN "serving"
                  ELSE IF at = "loop" /\ BatchDone THEN "loop" ELSE "draining"

\* The worker does nothing to its master that WorkerLife does not have: where it
\* sleeps, what wakes it, and where SIGTERM takes it (run, handle_accept,
\* worker_signal_handler).  ProcessMaster's workers take the same steps.
Life == INSTANCE WorkerLife WITH place <- Place

ImplementsLife == Life!Spec

\* The blocking accept4 is the only place where a reply can be held up: unless the
\* worker sleeps there, or SIGTERM ends its loop, what was answered reaches a
\* client that stays, also when it took several writes (run, send, do_write).
RepliedUnlessAsleep ==
    \A c \in Conns :
        Len(rcvd[c]) < Pieces * Len(resp[c]) ~>
            \/ Len(rcvd[c]) = Pieces * Len(resp[c])
            \/ peer[c] # "up" \/ proc # "running" \/ ~running_
            \/ at = "blocked"
=============================================================================

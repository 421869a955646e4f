---------------------------- MODULE SingleServer ----------------------------
(***************************************************************************)
(* My_WebServer: one process, one thread, a non-blocking listening socket  *)
(* and one write per EPOLLOUT event.                                       *)
(***************************************************************************)
EXTENDS EpollReactor

vars == <<peerVars, sockVars, pollVars, connVars, httpVars, loopVars>>

(***************************************************************************)
(* handle_accept loops until accept4 returns -1.                           *)
(***************************************************************************)
AcceptAgain ==
    /\ at = "accept" /\ proc = "running" /\ backlog = <<>> /\ FreeFds # {}
    /\ at' = "loop"
    /\ UNCHANGED <<batch, cur, evs, proc, peerVars, sockVars, pollVars, connVars, httpVars>>

\* Any other error is thrown: main returns 1.  accept4 takes a descriptor before it
\* looks at the backlog, so EMFILE comes with an empty one too.
AcceptThrows ==
    /\ at = "accept" /\ proc = "running"
    /\ FreeFds = {} \/ "accept" \in Faults
    /\ proc' = "threw"
    /\ UNCHANGED <<batch, cur, evs, at, peerVars, sockVars, pollVars, connVars, httpVars>>

\* add_fd only logs a failing epoll_ctl: the callback stays in the map.
AcceptUnregistered ==
    /\ at = "accept" /\ proc = "running" /\ "add" \in Faults
    /\ \E c \in Conns, f \in Fds : NewConnection(c, f, FALSE)
    /\ UNCHANGED <<loopVars, peerVars, inq, sndq, httpVars>>

(***************************************************************************)
(* do_write leaves the registration alone unless everything was written.   *)
(* EAGAIN at its single write has no step: only the thread itself fills    *)
(* the buffer of a socket that polled writable.                            *)
(***************************************************************************)
WritePart(c) == WriteSome(c) /\ UNCHANGED <<epi, ready, proc>>

DoWrite(c) ==
    \/ WriteAllKeep(c)
    \/ WriteAllClose(c)
    \/ WritePart(c)
    \/ WriteReset(c)
    \/ WriteBroken(c)

Server ==
    \/ EpollWait("loop")
    \/ DispatchAcceptor
    \/ Accept
    \/ AcceptAgain
    \/ AcceptThrows
    \/ AcceptUnregistered
    \/ RunOnDestroyed
    \/ \E f \in Fds : Dispatch(f)
    \/ \E c \in Conns : DoRead(c) \/ DoReadEnd(c) \/ DoWrite(c)

Next == Clients \/ Server

Spec == Init /\ [][Next]_vars

\* The thread keeps running, and clients read what they are sent.
LiveSpec == Spec /\ WF_vars(Server) /\ \A c \in Conns : WF_vars(Receive(c))
-----------------------------------------------------------------------------
\* The thread has nothing to return from epoll_wait with.
Sleeps ==
    /\ at = "loop" /\ proc = "running" /\ ready = {}
    /\ \A f \in Watched : batch[f] = {}

\* With edge triggers everywhere, epoll_wait never sleeps on work that is left: nobody
\* waits to be accepted, and no registered connection has input, an end of its
\* stream or a reset to be read, or output its socket has room for (run,
\* handle_accept, do_read, do_write).
SleepsOnlyWhenIdle ==
    Sleeps =>
        /\ backlog = <<>>
        /\ \A f \in Fds : Registered(f) =>
              LET c == fdt[f]
              IN  /\ inq[c] = <<>> /\ peer[c] = "up"
                  /\ output_buffer_[c] = <<>> \/ Len(sndq[c]) >= SndCap
=============================================================================

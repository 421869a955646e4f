---------------------------- MODULE WorkerPlaces ----------------------------
(***************************************************************************)
(* Where a worker of My_WebServer_v1 is in its loop, as a signal finds it, *)
(* and where it can go from there.  WorkerLife, which WorkerServer         *)
(* implements, and ProcessMaster are both built from these operators.      *)
(***************************************************************************)

\* "loop":     about to test running_
\* "tested":   running_ was read, epoll_wait not entered
\* "wait":     asleep in epoll_wait
\* "serving":  in a batch that still has connections to accept
\* "draining": in a batch with no call of accept4 left
\* "accept":   asleep in accept4
LoopPlaces == {"loop", "tested", "wait", "serving", "draining", "accept"}

Ignored(running) == {"tested"}                                      \* mutant

\* while (running_); a worker whose flag is clear returns from run and exits.
Tested(running) == IF running THEN {"tested"} ELSE {"dead"}

\* What the worker does by itself: the test, epoll_wait, the callbacks.
\* The accept loop ends asleep in accept4; only an error takes it further.
OwnStep(place, running) ==
    CASE place = "loop"     -> Tested(running)
      [] place = "tested"   -> {"wait"}
      [] place = "serving"  -> {"accept", "draining", "loop"}
      [] place = "draining" -> {"loop"}
      [] OTHER              -> {}

\* What a connection or a request does to a worker that sleeps.
Woken(place) ==
    CASE place = "wait"   -> {"serving", "draining"}
      [] place = "accept" -> {"serving"}
      [] OTHER            -> {}

RestartedCalls(place) ==                                         \* mutant
    IF place = "wait" THEN {"loop"} ELSE {place}

\* Where SIGTERM leaves it.  Both sleeping calls return EINTR, because sa_flags
\* lacks SA_RESTART: epoll_wait goes back to the test of running_, accept4 ends
\* the accept loop and with it perhaps the batch.
Interrupted(place) ==
    CASE place = "wait"   -> {"loop"}
      [] place = "accept" -> {"loop", "draining"}
      [] OTHER            -> {place}
=============================================================================

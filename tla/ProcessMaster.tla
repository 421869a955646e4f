---------------------------- MODULE ProcessMaster ----------------------------
(***************************************************************************)
(* master_worker.cpp of My_WebServer_v1: the master forks the workers,     *)
(* waits for SIGINT or SIGTERM, sends SIGTERM to each worker and reaps     *)
(* them.  What a worker does is reduced to the places where a signal finds *)
(* it; WorkerServer has the rest, and implements the reduction.            *)
(***************************************************************************)
EXTENDS WorkerPlaces, Naturals

CONSTANTS
    WorkerCount,
    Faults      \* which of "fork" (fork fails), "crash" (a worker dies) happen

ASSUME WorkerCountAssumption == WorkerCount \in Nat \ {0}

Workers == 1..WorkerCount

VARIABLES
    master,     \* where ProcessMaster::run is
    created,    \* workers.size()
    turn,       \* the worker the kill or waitpid loop has come to
    master_keep_running,
    requested,  \* history: the user asked for the shutdown
    pending,    \* a shutdown signal not delivered to the master yet
    worker,     \* where each worker is
    running_,   \* EpollReactor::running_ of each worker
    term,       \* SIGTERM not delivered to the worker yet
    missed,     \* history: where a worker was when SIGTERM did not wake it
    reaped      \* waitpid returned for the worker

masterVars == <<master, created, turn, master_keep_running, pending>>
workerVars == <<worker, running_, missed>>
vars == <<masterVars, requested, workerVars, term, reaped>>

MasterPlaces == {"create", "created", "test", "looping", "suspended", "kill", "wait", "exited", "threw"}

\* "forked":  SIGTERM still has the master's handler
\* "handler": worker_signal_handler is installed, g_reactor is null
WorkerStates == {"none", "forked", "handler", "dead"} \cup LoopPlaces

TypeOK ==
    /\ master \in MasterPlaces
    /\ created \in 0..WorkerCount
    /\ turn \in Workers
    /\ master_keep_running \in BOOLEAN
    /\ requested \in BOOLEAN
    /\ pending \in BOOLEAN
    /\ worker \in [Workers -> WorkerStates]
    /\ running_ \in [Workers -> BOOLEAN]
    /\ term \in [Workers -> BOOLEAN]
    /\ missed \in [Workers -> WorkerStates]
    /\ reaped \in [Workers -> BOOLEAN]

\* The constructor has installed signal_handler.
Init ==
    /\ master = "create"
    /\ created = 0
    /\ turn = 1
    /\ master_keep_running = TRUE
    /\ requested = FALSE
    /\ pending = FALSE
    /\ worker = [w \in Workers |-> "none"]
    /\ running_ = [w \in Workers |-> TRUE]
    /\ term = [w \in Workers |-> FALSE]
    /\ missed = [w \in Workers |-> "none"]
    /\ reaped = [w \in Workers |-> FALSE]
-----------------------------------------------------------------------------
(***************************************************************************)
(* The master.                                                             *)
(***************************************************************************)
\* Ctrl-C or kill, once.
Request ==
    /\ ~requested /\ master \notin {"exited", "threw"}
    /\ requested' = TRUE
    /\ pending' = TRUE
    /\ UNCHANGED <<master, created, turn, master_keep_running, workerVars, term, reaped>>

NotMasked(place) ==                                                 \* mutant
    place \in {"create", "created", "test", "looping", "suspended"}

\* sigprocmask blocks the signals before the flag is tested; sigsuspend lets
\* them in while it sleeps, and only then.
Unmasked(place) == place \in {"create", "created", "suspended"}

SignalHandler ==
    /\ pending /\ Unmasked(master)
    /\ pending' = FALSE
    /\ master_keep_running' = FALSE
    /\ master' = IF master = "suspended" THEN "test" ELSE master
    /\ UNCHANGED <<created, turn, requested, workerVars, term, reaped>>

Fork ==
    /\ master = "create" /\ created < WorkerCount
    /\ created' = created + 1
    /\ worker' = [worker EXCEPT ![created + 1] = "forked"]
    /\ UNCHANGED <<master, turn, master_keep_running, requested, pending>>
    /\ UNCHANGED <<running_, missed, term, reaped>>

\* The exception leaves run; main returns 1.
ForkFails ==
    /\ master = "create" /\ created < WorkerCount /\ "fork" \in Faults
    /\ master' = "threw"
    /\ UNCHANGED <<created, turn, master_keep_running, requested, pending>>
    /\ UNCHANGED <<workerVars, term, reaped>>

Goto(from, to) ==
    /\ master = from
    /\ master' = to
    /\ UNCHANGED <<created, turn, master_keep_running, requested, pending>>
    /\ UNCHANGED <<workerVars, term, reaped>>

\* create_workers returns, sigprocmask, the while loop.
WorkersCreated == created = WorkerCount /\ Goto("create", "created")
BlockSignals   == Goto("created", "test")
TestFlag       == master_keep_running /\ Goto("test", "looping")
Sigsuspend     == Goto("looping", "suspended")
LeaveLoop      == ~master_keep_running /\ Goto("test", "kill")

PastTheEnd(t) == t > WorkerCount                                    \* mutant

LastOne(t) == t = WorkerCount

\* kill(pid, SIGTERM) for each worker in turn; a dead one is a zombie.
KillNext ==
    /\ master = "kill"
    /\ term' = [term EXCEPT ![turn] = worker[turn] # "dead"]
    /\ IF LastOne(turn)
       THEN master' = "wait" /\ turn' = 1
       ELSE turn' = turn + 1 /\ UNCHANGED master
    /\ UNCHANGED <<created, master_keep_running, requested, pending, workerVars, reaped>>

PolledOnly(w) == worker[w] # "none"                                 \* mutant

\* waitpid without WNOHANG.
Waitable(w) == worker[w] = "dead"

WaitNext ==
    /\ master = "wait" /\ Waitable(turn)
    /\ reaped' = [reaped EXCEPT ![turn] = TRUE]
    /\ IF LastOne(turn)
       THEN master' = "exited" /\ UNCHANGED turn
       ELSE turn' = turn + 1 /\ UNCHANGED master
    /\ UNCHANGED <<created, master_keep_running, requested, pending, workerVars, term>>

Master ==
    \/ SignalHandler
    \/ Fork
    \/ ForkFails
    \/ WorkersCreated
    \/ BlockSignals
    \/ TestFlag
    \/ Sigsuspend
    \/ LeaveLoop
    \/ KillNext
    \/ WaitNext
-----------------------------------------------------------------------------
(***************************************************************************)
(* A worker.                                                               *)
(***************************************************************************)
Moves(w, from, to) ==
    /\ worker[w] = from
    /\ worker' = [worker EXCEPT ![w] = to]
    /\ UNCHANGED <<masterVars, requested, running_, missed, term, reaped>>

InstallHandler(w) == Moves(w, "forked", "handler")
SetReactor(w)     == Moves(w, "handler", "loop")

\* EpollReactor::run.
Runs(w, place) ==
    /\ place \in OwnStep(worker[w], running_[w])
    /\ Moves(w, worker[w], place)

\* Environment: a connection or a request arrives, or the worker dies.
Wakes(w, place) ==
    /\ place \in Woken(worker[w])
    /\ Moves(w, worker[w], place)

Crash(w) ==
    /\ "crash" \in Faults
    /\ worker[w] \notin {"none", "dead"}
    /\ Moves(w, worker[w], "dead")

\* A signal that changes nothing where it finds the worker.
Misses(place) == place \in {"forked", "handler", "tested", "serving"}

\* worker_signal_handler; before it is installed the signal runs the master's
\* handler in the worker, and before g_reactor is set it does nothing.
DeliverTerm(w) ==
    /\ term[w] /\ worker[w] \notin {"none", "dead"}
    /\ term' = [term EXCEPT ![w] = FALSE]
    /\ running_' = [running_ EXCEPT ![w] = worker[w] \in {"forked", "handler"}]
    /\ missed' = [missed EXCEPT ![w] = IF Misses(worker[w]) THEN worker[w] ELSE @]
    /\ \E place \in Interrupted(worker[w]) : worker' = [worker EXCEPT ![w] = place]
    /\ UNCHANGED <<masterVars, requested, reaped>>

WorkerStep(w) ==
    \/ InstallHandler(w)
    \/ SetReactor(w)
    \/ \E place \in WorkerStates : Runs(w, place)
    \/ DeliverTerm(w)

Environment(w) ==
    \/ \E place \in WorkerStates : Wakes(w, place)
    \/ Crash(w)

Next == Request \/ Master \/ \E w \in Workers : WorkerStep(w) \/ Environment(w)

Spec == Init /\ [][Next]_vars

\* Every process runs, and the kernel delivers signals; nothing obliges
\* clients to wake a worker.
LiveSpec ==
    /\ Spec
    /\ WF_vars(Master)
    /\ \A w \in Workers : WF_vars(WorkerStep(w)) /\ WF_vars(DeliverTerm(w))
-----------------------------------------------------------------------------
\* The master leaves run normally only after every worker it forked has ended
\* and was reaped (monitor_workers).
ReapsAll ==
    master = "exited" => \A w \in Workers : worker[w] = "dead" /\ reaped[w]

\* The kill loop has come past worker w.
Sent(w) ==
    \/ master = "kill" /\ w < turn
    \/ master \in {"wait", "exited"}

\* A worker whose SIGTERM was delivered ends, or is about to when it tests its flag,
\* unless the signal found it in one of four places; a sleeping call is always
\* interrupted, and nothing after it sleeps again (worker_signal_handler,
\* EpollReactor::run, sa_flags).
DeliveredEnds ==
    \A w \in Workers : Sent(w) /\ ~term[w] =>
        \/ Misses(missed[w])
        \/ worker[w] \in {"loop", "draining"} /\ ~running_[w]
        \/ worker[w] = "dead"

\* The loops over the workers have done exactly those before turn.
InTurn ==
    /\ master \notin {"kill", "wait", "exited"} => turn = 1
    /\ master = "wait" => \A w \in Workers : w < turn => worker[w] = "dead" /\ reaped[w]

\* A shutdown request is never lost between the test of the flag and the sleep
\* of the master: it goes on to signal the workers (monitor_workers).
MasterActsOnSignal == requested ~> master \in {"wait", "exited", "threw"}

\* Apart from a worker missing its SIGTERM, the shutdown completes.
ShutdownUnlessMissed ==
    requested ~> \/ master \in {"exited", "threw"}
                 \/ \E w \in Workers : missed[w] # "none"

\* The sequence chart: Ctrl+C, SIGTERM to the workers, their exit, the exit of
\* the master.
ShutdownCompletes == requested ~> master = "exited"
=============================================================================

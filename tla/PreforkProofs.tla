---------------------------- MODULE PreforkProofs ----------------------------
(***************************************************************************)
(* My_WebServer_v1 as a whole, for any number of workers and connections.  *)
(*                                                                         *)
(* First the shutdown of ProcessMaster.  Shutdown is inductive: InTurn     *)
(* says what the two loops over the workers have done, which is what       *)
(* ReapsAll needs when the second one ends, and DeliveredEnds has the      *)
(* cases that lead to a worker's end as disjuncts.                         *)
(*                                                                         *)
(* Then Prefork.  A step of it is a step of ProcessMaster or leaves its    *)
(* variables alone, so what was shown of the shutdown carries over.        *)
(* EveryWorkerKnows is inductive together with the types.                  *)
(***************************************************************************)
EXTENDS Prefork, TLAPS

Shutdown == TypeOK /\ InTurn /\ DeliveredEnds /\ ReapsAll

USE WorkerCountAssumption DEF Workers

LEMMA InitShutdown == Init => Shutdown
<1>. SUFFICES ASSUME Init PROVE Shutdown
  OBVIOUS
<1>. USE DEF Init
<1>1. TypeOK
  <2>1. master \in MasterPlaces /\ created \in 0..WorkerCount /\ turn \in 1..WorkerCount
    BY DEF MasterPlaces
  <2>2. worker \in [Workers -> WorkerStates] /\ missed \in [Workers -> WorkerStates]
    BY DEF WorkerStates
  <2>. QED
    BY <2>1, <2>2 DEF TypeOK
<1>2. InTurn /\ DeliveredEnds /\ ReapsAll
  BY DEF Init, InTurn, DeliveredEnds, ReapsAll, Sent
<1>. QED
  BY <1>1, <1>2 DEF Shutdown

\* What the user asks for and what the master's handler does touches no worker.
LEMMA SignalShutdown ==
    ASSUME Shutdown, Request \/ SignalHandler
    PROVE  Shutdown'
<1>. USE DEF Shutdown, Request, SignalHandler, workerVars
<1>1. TypeOK'
  BY DEF TypeOK, MasterPlaces
<1>2. InTurn' /\ DeliveredEnds' /\ ReapsAll'
  BY DEF InTurn, DeliveredEnds, ReapsAll, Sent, Unmasked
<1>. QED
  BY <1>1, <1>2

LEMMA ForkShutdown ==
    ASSUME Shutdown, Fork \/ ForkFails
    PROVE  Shutdown'
<1>. USE DEF Shutdown, Fork, ForkFails, workerVars
<1>1. TypeOK'
  BY DEF TypeOK, MasterPlaces, WorkerStates
<1>2. InTurn' /\ DeliveredEnds' /\ ReapsAll'
  BY DEF InTurn, DeliveredEnds, ReapsAll, Sent
<1>. QED
  BY <1>1, <1>2

LEMMA GotoShutdown ==
    ASSUME Shutdown, WorkersCreated \/ BlockSignals \/ TestFlag \/ Sigsuspend \/ LeaveLoop
    PROVE  Shutdown'
<1>. USE DEF Shutdown, WorkersCreated, BlockSignals, TestFlag, Sigsuspend, LeaveLoop, Goto, workerVars
<1>1. TypeOK'
  BY DEF TypeOK, MasterPlaces
<1>2. InTurn' /\ ReapsAll'
  BY DEF InTurn, ReapsAll
<1>3. DeliveredEnds'
  BY DEF DeliveredEnds, Sent, InTurn, TypeOK
<1>. QED
  BY <1>1, <1>2, <1>3

\* A worker whose kill found a zombie is dead, the others have SIGTERM pending.
LEMMA KillShutdown ==
    ASSUME Shutdown, KillNext
    PROVE  Shutdown'
<1>. USE DEF Shutdown, KillNext, LastOne, workerVars
<1>1. TypeOK'
  BY DEF TypeOK, MasterPlaces
<1>2. InTurn' /\ ReapsAll'
  BY DEF InTurn, ReapsAll, TypeOK
<1>3. DeliveredEnds'
  <2>. SUFFICES ASSUME NEW w \in Workers, Sent(w)', ~term'[w]
                PROVE  \/ Misses(missed'[w])
                       \/ worker'[w] \in {"loop", "draining"} /\ ~running_'[w]
                       \/ worker'[w] = "dead"
    BY DEF DeliveredEnds
  <2>1. CASE w = turn
    BY <2>1 DEF TypeOK
  <2>2. CASE w # turn
    <3>1. Sent(w) /\ ~term[w]
      BY <2>2 DEF Sent, TypeOK
    <3>. QED
      BY <3>1 DEF DeliveredEnds
  <2>. QED
    BY <2>1, <2>2
<1>. QED
  BY <1>1, <1>2, <1>3

LEMMA WaitShutdown ==
    ASSUME Shutdown, WaitNext
    PROVE  Shutdown'
<1>. USE DEF Shutdown, WaitNext, Waitable, LastOne, workerVars
<1>1. TypeOK'
  BY DEF TypeOK, MasterPlaces
<1>2. InTurn' /\ ReapsAll'
  BY DEF InTurn, ReapsAll, TypeOK
<1>3. DeliveredEnds'
  BY DEF DeliveredEnds, Sent
<1>. QED
  BY <1>1, <1>2, <1>3

\* A worker that moves on its own, or dies: it was not dead, and if it was on its
\* way out it still is, or has ended.
LEMMA MovesShutdown ==
    ASSUME Shutdown, NEW w \in Workers, NEW from \in WorkerStates \ {"none", "dead"},
           NEW to \in WorkerStates, Moves(w, from, to),
           from \in {"loop", "draining"} /\ ~running_[w] => to \in {"loop", "dead"}
    PROVE  Shutdown'
<1>. USE DEF Shutdown, Moves, masterVars
<1>1. TypeOK'
  BY DEF TypeOK
<1>2. InTurn' /\ ReapsAll'
  BY DEF InTurn, ReapsAll, TypeOK
<1>3. DeliveredEnds'
  BY DEF DeliveredEnds, Sent, TypeOK
<1>. QED
  BY <1>1, <1>2, <1>3

LEMMA DeliverShutdown ==
    ASSUME Shutdown, NEW w \in Workers, DeliverTerm(w)
    PROVE  Shutdown'
<1>. USE DEF Shutdown, DeliverTerm, masterVars
<1>1. PICK place \in Interrupted(worker[w]) : worker' = [worker EXCEPT ![w] = place]
  BY DEF DeliverTerm
<1>2. /\ worker[w] \in WorkerStates
      /\ place \in WorkerStates
      /\ Misses(worker[w]) \/ place \in {"loop", "draining"}
  BY <1>1 DEF TypeOK, WorkerStates, LoopPlaces, Interrupted, Misses
<1>3. TypeOK'
  BY <1>1, <1>2 DEF TypeOK
<1>4. InTurn' /\ ReapsAll'
  BY <1>1 DEF InTurn, ReapsAll, TypeOK
<1>5. DeliveredEnds'
  BY <1>1, <1>2 DEF DeliveredEnds, Sent, TypeOK, Misses
<1>. QED
  BY <1>3, <1>4, <1>5

LEMMA WorkerShutdown ==
    ASSUME Shutdown, NEW w \in Workers, WorkerStep(w) \/ Environment(w)
    PROVE  Shutdown'
<1>. DEFINE Awake == worker[w] \in WorkerStates \ {"none", "dead"}
<1>1. worker[w] \in WorkerStates
  BY DEF Shutdown, TypeOK
<1>2. CASE InstallHandler(w) \/ SetReactor(w)
  BY <1>2, MovesShutdown DEF InstallHandler, SetReactor, WorkerStates, LoopPlaces
<1>3. ASSUME NEW place \in WorkerStates, Runs(w, place)
      PROVE  Shutdown'
  <2>1. Moves(w, worker[w], place)
    BY <1>3 DEF Runs
  <2>2. Awake /\ (worker[w] \in {"loop", "draining"} /\ ~running_[w] => place \in {"loop", "dead"})
    BY <1>1, <1>3 DEF Runs, OwnStep, Tested, WorkerStates, LoopPlaces
  <2>. QED
    BY <2>1, <2>2, MovesShutdown
<1>4. ASSUME NEW place \in WorkerStates, Wakes(w, place)
      PROVE  Shutdown'
  <2>1. Moves(w, worker[w], place)
    BY <1>4 DEF Wakes
  <2>2. Awake /\ worker[w] \notin {"loop", "draining"}
    BY <1>1, <1>4 DEF Wakes, Woken, WorkerStates, LoopPlaces
  <2>. QED
    BY <2>1, <2>2, MovesShutdown
<1>5. CASE Crash(w)
  BY <1>1, <1>5, MovesShutdown DEF Crash, WorkerStates
<1>6. CASE DeliverTerm(w)
  BY <1>6, DeliverShutdown
<1>. QED
  BY <1>2, <1>3, <1>4, <1>5, <1>6 DEF WorkerStep, Environment

LEMMA NextShutdown ==
    ASSUME Shutdown, [Next]_vars
    PROVE  Shutdown'
<1>1. CASE Request \/ Master
  BY <1>1, SignalShutdown, ForkShutdown, GotoShutdown, KillShutdown, WaitShutdown DEF Master
<1>2. CASE \E w \in Workers : WorkerStep(w) \/ Environment(w)
  BY <1>2, WorkerShutdown
<1>3. CASE UNCHANGED vars
  BY <1>3 DEF vars, masterVars, workerVars, Shutdown, TypeOK, InTurn, DeliveredEnds, ReapsAll, Sent
<1>. QED
  BY <1>1, <1>2, <1>3 DEF Next
-----------------------------------------------------------------------------
\* Whatever the number of workers, whichever of them die and whenever the request
\* comes: the master ends normally only after reaping them all, and a worker that
\* does not end after SIGTERM was delivered to it missed the signal in one of four
\* places (monitor_workers, worker_signal_handler).
THEOREM ShutdownSafe == Spec => [](TypeOK /\ DeliveredEnds /\ ReapsAll)
<1>1. Shutdown /\ [Next]_vars => Shutdown'
  BY NextShutdown
<1>2. Shutdown => TypeOK /\ DeliveredEnds /\ ReapsAll
  BY DEF Shutdown
<1>. QED
  BY InitShutdown, <1>1, <1>2, PTL DEF Spec
-----------------------------------------------------------------------------
(***************************************************************************)
(* The composed server.                                                    *)
(***************************************************************************)
Known == Shutdown /\ EveryWorkerKnows

LEMMA InitKnown == PreforkInit => Known
<1>. SUFFICES ASSUME PreforkInit PROVE Known
  OBVIOUS
<1>1. Shutdown
  BY InitShutdown DEF PreforkInit
<1>2. EveryWorkerKnows
  BY DEF PreforkInit, EveryWorkerKnows, Waiting
<1>. QED
  BY <1>1, <1>2 DEF Known

LEMMA RunsIsStep ==
    ASSUME NEW w \in Workers, NEW place \in WorkerStates, Runs(w, place)
    PROVE  Next
  BY DEF Next, WorkerStep

LEMMA WakesIsStep ==
    ASSUME NEW w \in Workers, NEW place \in WorkerStates, Wakes(w, place)
    PROVE  Next
  BY DEF Next, Environment

\* accept4 keeps the worker where it is: in its accept loop.
LEMMA TakeIsStutter ==
    ASSUME Shutdown, NEW w \in Workers, NEW c \in Conns, Take(w, c)
    PROVE  UNCHANGED vars
<1>1. Moves(w, "serving", "serving")
  BY DEF Take, AcceptMore
<1>2. worker \in [Workers -> WorkerStates]
  BY DEF Shutdown, TypeOK
<1>3. worker' = worker
  BY <1>1, <1>2 DEF Moves
<1>. QED
  BY <1>1, <1>3 DEF Moves, vars, workerVars

LEMMA PreforkWorkerStep ==
    ASSUME Shutdown, NEW w \in Workers, PreforkWorker(w) \/ RequestWakes(w)
    PROVE  [Next]_vars
<1>1. {"loop", "draining", "serving", "accept"} \subseteq WorkerStates
  BY DEF WorkerStates, LoopPlaces
<1>2. CASE Installs(w) \/ StartWatching(w) \/ TermDelivered(w)
  BY <1>2 DEF Installs, StartWatching, TermDelivered, Next, WorkerStep
<1>3. CASE EdgeWakes(w) \/ AcceptWakes(w) \/ RequestWakes(w)
  BY <1>1, <1>3, WakesIsStep DEF EdgeWakes, AcceptWakes, RequestWakes
<1>4. CASE \E c \in Conns : Take(w, c)
  BY <1>4, TakeIsStutter
<1>5. CASE AcceptSleeps(w) \/ AcceptBreaks(w) \/ LoopRuns(w)
  BY <1>1, <1>5, RunsIsStep DEF AcceptSleeps, AcceptBreaks, LoopRuns
<1>. QED
  BY <1>2, <1>3, <1>4, <1>5 DEF PreforkWorker

LEMMA PreforkStep ==
    ASSUME Shutdown, [PreforkNext]_preforkVars
    PROVE  [Next]_vars
<1>1. CASE Request \/ Master
  BY <1>1 DEF Next
<1>2. CASE \E c \in Conns : Arrive(c)
  BY <1>2 DEF Arrive
<1>3. ASSUME NEW w \in Workers, PreforkWorker(w) \/ RequestWakes(w)
      PROVE  [Next]_vars
  BY <1>3, PreforkWorkerStep
<1>4. ASSUME NEW w \in Workers, Crash(w)
      PROVE  [Next]_vars
  BY <1>4 DEF Next, Environment
<1>5. CASE UNCHANGED preforkVars
  BY <1>5 DEF preforkVars
<1>. QED
  BY <1>1, <1>2, <1>3, <1>4, <1>5 DEF PreforkNext
-----------------------------------------------------------------------------
(***************************************************************************)
(* What a worker has to do with the listening socket.                      *)
(***************************************************************************)
Knows(w) == \/ w \in edge \/ w \in broke
            \/ worker[w] \in {"serving", "accept"}

LEMMA ArriveKnown ==
    ASSUME EveryWorkerKnows, NEW c \in Conns, Arrive(c)
    PROVE  EveryWorkerKnows'
  BY DEF EveryWorkerKnows, Arrive, Notified, Watching, Waiting, vars, workerVars

\* The master moves no worker but the one it forks, which watches nothing yet.
LEMMA MasterKnown ==
    ASSUME Shutdown, EveryWorkerKnows, Request \/ Master, UNCHANGED socketVars
    PROVE  EveryWorkerKnows'
<1>1. \A w \in Workers : worker'[w] = worker[w] \/ worker'[w] = "forked"
  BY DEF Shutdown, TypeOK, Request, Master, SignalHandler, Fork, ForkFails, WorkersCreated,
         BlockSignals, TestFlag, Sigsuspend, LeaveLoop, Goto, KillNext, WaitNext, workerVars
<1>. QED
  BY <1>1 DEF EveryWorkerKnows, Waiting, Watching, LoopPlaces, socketVars

\* A step of one worker: it is enough that this worker still knows.
LEMMA OneWorkerKnown ==
    ASSUME Shutdown, EveryWorkerKnows, NEW w \in Workers,
           Waiting' => Waiting,
           \A v \in Workers \ {w} :
               worker'[v] = worker[v] /\ (v \in edge' <=> v \in edge) /\ (v \in broke => v \in broke'),
           Waiting /\ Watching(w)' => Knows(w)'
    PROVE  EveryWorkerKnows'
  BY DEF EveryWorkerKnows, Watching, Knows

\* The other workers stay where they are whenever one of them moves.
LEMMA OthersStay ==
    ASSUME Shutdown, NEW w \in Workers, NEW from, NEW to, Moves(w, from, to)
    PROVE  \A v \in Workers \ {w} : worker'[v] = worker[v]
  BY DEF Moves, Shutdown, TypeOK

LEMMA PreforkWorkerKnown ==
    ASSUME Shutdown, EveryWorkerKnows, NEW w \in Workers, PreforkWorker(w) \/ RequestWakes(w)
    PROVE  EveryWorkerKnows'
<1>. DEFINE Moved(place) == worker' = [worker EXCEPT ![w] = place]
<1>. USE DEF Shutdown, TypeOK
<1>1. CASE Installs(w)
  <2>1. Moved("handler")
    BY <1>1 DEF Installs, InstallHandler, Moves
  <2>. QED
    BY <1>1, <2>1, OneWorkerKnown DEF Installs, Watching, LoopPlaces, Waiting, socketVars
<1>2. CASE StartWatching(w)
  <2>1. Moved("loop")
    BY <1>2 DEF StartWatching, SetReactor, Moves
  <2>. QED
    BY <1>2, <2>1, OneWorkerKnown DEF StartWatching, Waiting, Knows
<1>3. CASE EdgeWakes(w)
  <2>1. CASE Waiting
    <3>1. Moved("serving")
      BY <1>3, <2>1 DEF EdgeWakes, Wakes, Moves
    <3>. QED
      BY <1>3, <3>1, OneWorkerKnown DEF EdgeWakes, Waiting, Knows
  <2>2. CASE ~Waiting
    BY <1>3, <2>2 DEF EdgeWakes, EveryWorkerKnows, Waiting
  <2>. QED
    BY <2>1, <2>2
<1>4. CASE AcceptWakes(w)
  <2>1. Moved("serving")
    BY <1>4 DEF AcceptWakes, Wakes, Moves
  <2>. QED
    BY <1>4, <2>1, OneWorkerKnown DEF AcceptWakes, Waiting, Knows, socketVars
<1>5. CASE \E c \in Conns : Take(w, c)
  <2>1. worker' = worker /\ edge' = edge /\ broke' = broke
    BY <1>5, TakeIsStutter DEF Take, vars, workerVars
  <2>2. Waiting' => Waiting
    BY <1>5 DEF Take, Waiting
  <2>. QED
    BY <2>1, <2>2 DEF EveryWorkerKnows, Watching
<1>6. CASE AcceptSleeps(w)
  BY <1>6 DEF AcceptSleeps, EveryWorkerKnows, Waiting, socketVars
<1>7. CASE AcceptBreaks(w)
  <2>1. \A v \in Workers \ {w} : worker'[v] = worker[v]
    BY <1>7, OthersStay DEF AcceptBreaks, Runs
  <2>. QED
    BY <1>7, <2>1, OneWorkerKnown DEF AcceptBreaks, Waiting, Knows
<1>8. CASE LoopRuns(w)
  <2>1. PICK place \in OwnStep(worker[w], running_[w]) : Moves(w, worker[w], place)
    BY <1>8 DEF LoopRuns, Runs
  <2>2. worker[w] # "serving" /\ UNCHANGED socketVars
    BY <1>8 DEF LoopRuns
  <2>3. Watching(w) /\ worker[w] \notin {"serving", "accept"}
    BY <2>1, <2>2 DEF OwnStep, Watching, LoopPlaces
  <2>4. Waiting => w \in edge \/ w \in broke
    BY <2>3 DEF EveryWorkerKnows
  <2>. QED
    BY <2>1, <2>2, <2>4, OthersStay, OneWorkerKnown DEF Waiting, Knows, socketVars
<1>9. CASE TermDelivered(w)
  <2>1. PICK place \in Interrupted(worker[w]) : Moved(place)
    BY <1>9 DEF TermDelivered, DeliverTerm
  <2>2. UNCHANGED socketVars /\ ~(worker[w] = "accept" /\ Waiting)
    BY <1>9 DEF TermDelivered
  <2>3. CASE worker[w] = "wait"
    <3>1. Waiting => w \in edge \/ w \in broke
      BY <2>3 DEF EveryWorkerKnows, Watching, LoopPlaces
    <3>. QED
      BY <2>1, <2>2, <3>1, OneWorkerKnown DEF Waiting, Knows, socketVars
  <2>4. CASE worker[w] = "accept"
    BY <2>2, <2>4 DEF EveryWorkerKnows, Waiting, socketVars
  <2>5. CASE worker[w] \notin {"wait", "accept"}
    <3>1. worker' = worker
      BY <2>1, <2>5 DEF Interrupted
    <3>. QED
      BY <2>2, <3>1 DEF EveryWorkerKnows, Waiting, Watching, socketVars
  <2>. QED
    BY <2>3, <2>4, <2>5
<1>10. CASE RequestWakes(w)
  <2>1. Moved("draining")
    BY <1>10 DEF RequestWakes, Wakes, Moves
  <2>2. Waiting => w \in broke
    BY <1>10 DEF RequestWakes, EveryWorkerKnows, Watching, LoopPlaces
  <2>. QED
    BY <1>10, <2>1, <2>2, OneWorkerKnown DEF RequestWakes, Waiting, Knows
<1>. QED
  BY <1>1, <1>2, <1>3, <1>4, <1>5, <1>6, <1>7, <1>8, <1>9, <1>10 DEF PreforkWorker

LEMMA CrashKnown ==
    ASSUME Shutdown, EveryWorkerKnows, NEW w \in Workers, Crash(w), UNCHANGED socketVars
    PROVE  EveryWorkerKnows'
<1>1. worker' = [worker EXCEPT ![w] = "dead"]
  BY DEF Crash, Moves
<1>. QED
  BY <1>1 DEF Shutdown, TypeOK, EveryWorkerKnows, Watching, Waiting, LoopPlaces, socketVars
-----------------------------------------------------------------------------
\* The composed server does nothing to master or workers that ProcessMaster does not
\* have: what decides here who wakes and who sleeps only restricts it (run,
\* handle_accept, monitor_workers).
THEOREM PreforkImplementsMaster == PreforkSpec => Spec
<1>1. PreforkInit => Init
  BY DEF PreforkInit
<1>2. Shutdown /\ [PreforkNext]_preforkVars => [Next]_vars /\ Shutdown'
  BY PreforkStep, NextShutdown
<1>3. PreforkInit => Shutdown
  BY <1>1, InitShutdown
<1>. QED
  BY <1>1, <1>2, <1>3, PTL DEF PreforkSpec, Spec

\* The listening socket's variables keep their types.
LEMMA SocketTypes ==
    ASSUME PreforkTypeOK, TypeOK', PreforkNext
    PROVE  PreforkTypeOK'
<1>. USE DEF PreforkTypeOK
<1>1. CASE UNCHANGED socketVars
  BY <1>1 DEF socketVars
<1>2. CASE \E c \in Conns : Arrive(c)
  BY <1>2 DEF Arrive, Notified
<1>3. ASSUME NEW w \in Workers, NEW c \in Conns, Take(w, c)
      PROVE  PreforkTypeOK'
  BY <1>3 DEF Take
<1>4. ASSUME NEW w \in Workers,
             StartWatching(w) \/ EdgeWakes(w) \/ AcceptBreaks(w) \/ RequestWakes(w)
      PROVE  PreforkTypeOK'
  BY <1>4 DEF StartWatching, EdgeWakes, AcceptBreaks, RequestWakes
<1>. QED
  BY <1>1, <1>2, <1>3, <1>4
  DEF PreforkNext, PreforkWorker, Installs, AcceptWakes, AcceptSleeps, LoopRuns, TermDelivered

\* Every variable of the composed server keeps its type: in particular the workers'
\* places stay those of WorkerPlaces, and what is taken or waiting are connections
\* (run, handle_accept, monitor_workers).
THEOREM PreforkTypeCorrect == PreforkSpec => []PreforkTypeOK
<1>. DEFINE Typed == Shutdown /\ PreforkTypeOK
<1>1. PreforkInit => Typed
  <2>. SUFFICES ASSUME PreforkInit PROVE Typed
    OBVIOUS
  <2>1. Shutdown
    BY InitShutdown DEF PreforkInit
  <2>. QED
    BY <2>1 DEF PreforkInit, PreforkTypeOK, Shutdown
<1>2. Typed /\ [PreforkNext]_preforkVars => Typed'
  <2>. SUFFICES ASSUME Typed, [PreforkNext]_preforkVars PROVE Typed'
    OBVIOUS
  <2>1. Shutdown'
    BY PreforkStep, NextShutdown
  <2>2. CASE PreforkNext
    BY <2>1, <2>2, SocketTypes DEF Shutdown
  <2>3. CASE UNCHANGED preforkVars
    BY <2>1, <2>3 DEF preforkVars, socketVars, PreforkTypeOK, Shutdown
  <2>. QED
    BY <2>1, <2>2, <2>3
<1>. QED
  BY <1>1, <1>2, PTL DEF PreforkSpec

\* The shutdown of the composed server is as safe as that of ProcessMaster, and a
\* waiting connection is known to every worker that watches the socket, for any
\* number of workers and connections and whichever workers die or run out of
\* descriptors (monitor_workers, run, handle_accept).
THEOREM PreforkSafe == PreforkSpec => [](DeliveredEnds /\ ReapsAll /\ EveryWorkerKnows)
<1>1. Known /\ [PreforkNext]_preforkVars => Known'
  <2>. SUFFICES ASSUME Known, [PreforkNext]_preforkVars PROVE Known'
    OBVIOUS
  <2>. USE DEF Known
  <2>1. Shutdown'
    BY PreforkStep, NextShutdown
  <2>2. EveryWorkerKnows'
    <3>1. CASE (Request \/ Master) /\ UNCHANGED socketVars
      BY <3>1, MasterKnown
    <3>2. CASE \E c \in Conns : Arrive(c)
      BY <3>2, ArriveKnown
    <3>3. ASSUME NEW w \in Workers, PreforkWorker(w) \/ RequestWakes(w)
          PROVE  EveryWorkerKnows'
      BY <3>3, PreforkWorkerKnown
    <3>4. ASSUME NEW w \in Workers, Crash(w), UNCHANGED socketVars
          PROVE  EveryWorkerKnows'
      BY <3>4, CrashKnown
    <3>5. CASE UNCHANGED preforkVars
      BY <3>5 DEF preforkVars, vars, workerVars, socketVars, EveryWorkerKnows, Waiting, Watching
    <3>. QED
      BY <3>1, <3>2, <3>3, <3>4, <3>5 DEF PreforkNext
  <2>. QED
    BY <2>1, <2>2
<1>2. Known => DeliveredEnds /\ ReapsAll /\ EveryWorkerKnows
  BY DEF Known, Shutdown
<1>. QED
  BY InitKnown, <1>1, <1>2, PTL DEF PreforkSpec
=============================================================================

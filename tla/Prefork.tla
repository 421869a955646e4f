------------------------------- MODULE Prefork -------------------------------
(***************************************************************************)
(* The whole of My_WebServer_v1: the master and the workers of             *)
(* ProcessMaster on one listening socket.  create_socket made it before    *)
(* the fork, each worker watches it edge-triggered in an epoll instance of *)
(* its own, and all of them take connections from its one backlog.         *)
(*                                                                         *)
(* What ProcessMaster leaves to chance is decided here: a worker wakes     *)
(* for a connection or for a request of a client it serves, and its accept *)
(* loop goes on while somebody waits.                                      *)
(***************************************************************************)
EXTENDS ProcessMaster

CONSTANT Conns      \* the connections clients open

VARIABLES
    backlog,    \* connections waiting for accept4
    taken,      \* the connections each worker accepted
    edge,       \* the workers whose epoll has the listening socket ready
    broke       \* history: left the accept loop on an error since the last edge

socketVars == <<backlog, taken, edge, broke>>
preforkVars == <<vars, socketVars>>

PreforkTypeOK ==
    /\ TypeOK
    /\ backlog \subseteq Conns
    /\ taken \in [Workers -> SUBSET Conns]
    /\ edge \subseteq Workers
    /\ broke \subseteq Workers

PreforkInit ==
    /\ Init
    /\ backlog = {}
    /\ taken = [w \in Workers |-> {}]
    /\ edge = {}
    /\ broke = {}

Waiting == backlog # {}

Taken(c) == \E w \in Workers : c \in taken[w]

\* The listening socket is in the worker's epoll set: TcpAcceptor's constructor.
Watching(w) == worker[w] \in LoopPlaces
-----------------------------------------------------------------------------
(***************************************************************************)
(* The listening socket (external).                                        *)
(***************************************************************************)
FirstWatching ==                                                    \* mutant
    {w \in Workers : Watching(w) /\ \A v \in Workers : Watching(v) => w <= v}

\* A wake-up of the socket reaches every epoll instance: no EPOLLEXCLUSIVE.
Notified == {w \in Workers : Watching(w)}

\* Clients connect at any time after create_socket.
Arrive(c) ==
    /\ c \notin backlog /\ ~Taken(c)
    /\ backlog' = backlog \cup {c}
    /\ edge' = edge \cup Notified
    /\ broke' = broke \ Notified
    /\ UNCHANGED <<vars, taken>>

AcceptOnce == "loop"                                                \* mutant

\* while (true).
AcceptMore == "serving"

\* accept4 takes one.  Which one makes no difference to the workers.
Take(w, c) ==
    /\ c \in backlog
    /\ Moves(w, "serving", AcceptMore)
    /\ backlog' = backlog \ {c}
    /\ taken' = [taken EXCEPT ![w] = @ \cup {c}]
    /\ UNCHANGED <<edge, broke>>
-----------------------------------------------------------------------------
(***************************************************************************)
(* The steps of a worker that depend on the socket.                        *)
(***************************************************************************)
\* EPOLL_CTL_ADD polls: who came before this worker watched is reported.
StartWatching(w) ==
    /\ SetReactor(w)
    /\ edge' = IF Waiting THEN edge \cup {w} ELSE edge
    /\ UNCHANGED <<backlog, taken, broke>>

\* epoll_wait takes the edge.  If the backlog is empty by then it sleeps on.
EdgeWakes(w) ==
    /\ worker[w] = "wait" /\ w \in edge
    /\ edge' = edge \ {w}
    /\ IF Waiting THEN Wakes(w, "serving") ELSE UNCHANGED vars
    /\ UNCHANGED <<backlog, taken, broke>>

RequestWakes(w) ==
    /\ worker[w] = "wait" /\ taken[w] # {}
    /\ ~(w \in edge /\ Waiting)
    /\ Wakes(w, "draining")
    /\ edge' = edge \ {w}
    /\ UNCHANGED <<backlog, taken, broke>>

AcceptWakes(w) ==
    /\ worker[w] = "accept" /\ Waiting
    /\ Wakes(w, "serving")
    /\ UNCHANGED socketVars

\* The accept loop ends asleep, when nobody waits any more.
AcceptSleeps(w) ==
    /\ worker[w] = "serving" /\ ~Waiting
    /\ Runs(w, "accept")
    /\ UNCHANGED socketVars

\* accept4 fails for want of descriptors, whether or not anybody waits: break.
AcceptBreaks(w) ==
    /\ "full" \in Faults
    /\ worker[w] = "serving"
    /\ \E place \in {"draining", "loop"} : Runs(w, place)
    /\ broke' = broke \cup {w}
    /\ UNCHANGED <<backlog, taken, edge>>

LoopRuns(w) ==
    /\ worker[w] # "serving"
    /\ \E place \in WorkerStates : Runs(w, place)
    /\ UNCHANGED socketVars

\* accept4 looks at the backlog before it looks at signals.
TermDelivered(w) ==
    /\ ~(worker[w] = "accept" /\ Waiting)
    /\ DeliverTerm(w)
    /\ UNCHANGED socketVars

Installs(w) == InstallHandler(w) /\ UNCHANGED socketVars

PreforkWorker(w) ==
    \/ Installs(w)
    \/ StartWatching(w)
    \/ EdgeWakes(w)
    \/ AcceptWakes(w)
    \/ \E c \in Conns : Take(w, c)
    \/ AcceptSleeps(w)
    \/ AcceptBreaks(w)
    \/ LoopRuns(w)
    \/ TermDelivered(w)

PreforkNext ==
    \/ (Request \/ Master) /\ UNCHANGED socketVars
    \/ \E c \in Conns : Arrive(c)
    \/ \E w \in Workers :
        \/ PreforkWorker(w)
        \/ RequestWakes(w)
        \/ Crash(w) /\ UNCHANGED socketVars

PreforkSpec == PreforkInit /\ [][PreforkNext]_preforkVars

\* As in ProcessMaster.  Nothing obliges clients to connect or to ask.
PreforkLiveSpec ==
    /\ PreforkSpec
    /\ WF_preforkVars(Master /\ UNCHANGED socketVars)
    /\ \A w \in Workers : WF_preforkVars(PreforkWorker(w)) /\ WF_preforkVars(TermDelivered(w))
-----------------------------------------------------------------------------
\* The edge of a waiting connection is lost to no worker: each one that watches the
\* socket still has it ready, or is in its accept loop, or gave up on an error
\* since (TcpAcceptor, run, handle_accept).  So whichever workers die, the
\* others know.
EveryWorkerKnows ==
    Waiting => \A w \in Workers :
        Watching(w) => \/ w \in edge \/ w \in broke
                       \/ worker[w] \in {"serving", "accept"}

\* Who can still be expected to accept.
Willing(w) == worker[w] \notin {"none", "dead"} /\ w \notin broke

\* A connection is taken by some worker, through deaths of others, through workers
\* asleep in accept4 and through requests that keep workers busy.  It waits only
\* for a shutdown, or when every worker is gone or ran out of descriptors after
\* it came: then the next arrival has to make an edge (handle_accept).
BacklogServed ==
    \A c \in Conns :
        c \in backlog ~>
            \/ Taken(c) \/ requested
            \/ \A w \in Workers : ~Willing(w)
=============================================================================

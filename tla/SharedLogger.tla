---------------------------- MODULE SharedLogger ----------------------------
(***************************************************************************)
(* Logger.cpp: a log file per day and index, rotated when the process has  *)
(* written max_lines_ lines to it.  In My_WebServer_v1 the master opens    *)
(* the first file and the workers inherit it with their own copy of the    *)
(* counters; with a single process the module is My_WebServer's logger.    *)
(*                                                                         *)
(* mutex_ makes log atomic inside a process and nothing does so between    *)
(* processes: the steps of rotate_file interleave.                         *)
(***************************************************************************)
EXTENDS Naturals, FiniteSets

CONSTANTS
    Procs,
    Master,     \* the process that called init
    MaxLines,   \* max_lines_
    OldFiles,   \* what an earlier run left in the directory
    MaxIndex,   \* bound: index of the last file a process opens
    LastDay,    \* bound: calendar days
    NoFile

ASSUME LoggerAssumption ==
    /\ Master \in Procs /\ IsFiniteSet(Procs)
    /\ MaxLines \in Nat \ {0} /\ MaxIndex \in Nat /\ LastDay \in Nat \ {0}
    /\ OldFiles \subseteq (1..LastDay) \X (0..MaxIndex)
    /\ NoFile \notin Nat \X Nat

Files == (1..LastDay) \X (0..MaxIndex)

VARIABLES
    lines,          \* lines in each file, 0 when it does not exist
    state,          \* of each process: "unborn", "up", "failed"
    log_file_,      \* the open file of each process
    current_lines_,
    current_date_,
    file_index_,
    place           \* "idle", or in rotate_file: "probe", "open"

procVars == <<log_file_, current_lines_, current_date_, file_index_, place>>
vars == <<lines, state, procVars>>

TypeOK ==
    /\ lines \in [Files -> Nat]
    /\ state \in [Procs -> {"unborn", "up", "failed"}]
    /\ log_file_ \in [Procs -> Files \cup {NoFile}]
    /\ current_lines_ \in [Procs -> 0..MaxLines]
    /\ current_date_ \in [Procs -> 1..LastDay]
    /\ file_index_ \in [Procs -> 0..MaxIndex + 1]
    /\ place \in [Procs -> {"idle", "probe", "open"}]

\* The master is in init: check_file has set the date and called rotate_file.
Init ==
    /\ lines = [f \in Files |-> IF f \in OldFiles THEN 1 ELSE 0]
    /\ state = [p \in Procs |-> IF p = Master THEN "up" ELSE "unborn"]
    /\ log_file_ = [p \in Procs |-> NoFile]
    /\ current_lines_ = [p \in Procs |-> 0]
    /\ \E today \in 1..LastDay : current_date_ = [p \in Procs |-> today]
    /\ file_index_ = [p \in Procs |-> 0]
    /\ place = [p \in Procs |-> IF p = Master THEN "probe" ELSE "idle"]
-----------------------------------------------------------------------------
\* fork copies the master's logger.
Fork(p) ==
    /\ state[p] = "unborn" /\ state[Master] = "up" /\ place[Master] = "idle"
    /\ state' = [state EXCEPT ![p] = "up"]
    /\ log_file_' = [log_file_ EXCEPT ![p] = log_file_[Master]]
    /\ current_lines_' = [current_lines_ EXCEPT ![p] = current_lines_[Master]]
    /\ current_date_' = [current_date_ EXCEPT ![p] = current_date_[Master]]
    /\ file_index_' = [file_index_ EXCEPT ![p] = file_index_[Master]]
    /\ UNCHANGED <<lines, place>>

FullTooLate(n) == n > MaxLines                                      \* mutant

MustRotate(n) == n >= MaxLines

\* log: one line at the end of the file, then rotate_file if this process has
\* written enough.  The date is not looked at: it stays the one of init.
Log(p) ==
    /\ state[p] = "up" /\ place[p] = "idle" /\ file_index_[p] <= MaxIndex
    /\ LET f == log_file_[p]
           n == current_lines_[p] + 1
       IN  /\ lines' = [lines EXCEPT ![f] = @ + 1]
           /\ current_lines_' = [current_lines_ EXCEPT ![p] = n]
           /\ IF MustRotate(n)
              THEN /\ place' = [place EXCEPT ![p] = "probe"]
                   /\ log_file_' = [log_file_ EXCEPT ![p] = NoFile]
              ELSE UNCHANGED <<place, log_file_>>
    /\ UNCHANGED <<state, current_date_, file_index_>>

NeverTaken(f) == FALSE                                              \* mutant

\* std::filesystem::exists.
Taken(f) == lines[f] > 0

\* One turn of the do-while loop: is the next name taken?
Probe(p) ==
    /\ state[p] = "up" /\ place[p] = "probe" /\ file_index_[p] <= MaxIndex
    /\ file_index_' = [file_index_ EXCEPT ![p] = @ + 1]
    /\ place' = [place EXCEPT ![p] =
            IF Taken(<<current_date_[p], file_index_[p]>>) THEN "probe" ELSE "open"]
    /\ UNCHANGED <<lines, state, log_file_, current_lines_, current_date_>>

\* Opened for appending: by now another process may have created the file.
Open(p) ==
    /\ state[p] = "up" /\ place[p] = "open"
    /\ LET f == <<current_date_[p], file_index_[p] - 1>>
       IN  /\ log_file_' = [log_file_ EXCEPT ![p] = f]
           /\ lines' = [lines EXCEPT ![f] = @ + 1]
    /\ current_lines_' = [current_lines_ EXCEPT ![p] = 0]
    /\ place' = [place EXCEPT ![p] = "idle"]
    /\ UNCHANGED <<state, current_date_, file_index_>>

\* The open fails: runtime_error leaves log and the process.
OpenFails(p) ==
    /\ state[p] = "up" /\ place[p] = "open"
    /\ state' = [state EXCEPT ![p] = "failed"]
    /\ UNCHANGED <<lines, procVars>>

Next == \E p \in Procs : Fork(p) \/ Log(p) \/ Probe(p) \/ Open(p) \/ OpenFails(p)

Spec == Init /\ [][Next]_vars
-----------------------------------------------------------------------------
\* However the processes interleave, no file grows beyond what each of them may
\* add once: its own heading and max_lines_ lines; no process comes back to a
\* file it has left (log, rotate_file).
SharedBound == \A f \in Files : lines[f] <= Cardinality(Procs) * (MaxLines + 1)

\* A process that holds a file open has room for a line in its own count, and
\* the file exists (rotate_file).
OpenHasRoom ==
    \A p \in Procs : state[p] = "up" /\ place[p] = "idle" =>
        /\ current_lines_[p] < MaxLines
        /\ log_file_[p] # NoFile /\ lines[log_file_[p]] > current_lines_[p]

\* A restart never appends to a file an earlier run left (rotate_file).
OldFilesUntouched == \A f \in OldFiles : lines[f] = 1
=============================================================================

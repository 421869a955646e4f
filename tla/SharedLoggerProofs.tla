-------------------------- MODULE SharedLoggerProofs --------------------------
(***************************************************************************)
(* The rotating logger for any number of processes, any max_lines_ and any *)
(* files left in the directory.                                            *)
(*                                                                         *)
(* SharedBound is not inductive: a file may only grow as long as its       *)
(* writers have lines left in their own count.  Each line is therefore     *)
(* charged to a slot of the process that wrote it, <<p, 0>> for p's        *)
(* heading and <<p, k>> for its k-th line, and a process gives up what is  *)
(* left of its slots when it moves on to the next name.                    *)
(***************************************************************************)
EXTENDS SharedLogger, Integers, FiniteSetTheorems, TLAPS

USE LoggerAssumption

\* The index of the file process p writes to, will open, or asks for next.
At(p) == IF place[p] = "probe" THEN file_index_[p] ELSE file_index_[p] - 1

Spent(p, f) ==
    IF f[2] < At(p) THEN 0..MaxLines
    ELSE IF f[2] = At(p) /\ place[p] = "idle" THEN 0..current_lines_[p] ELSE {}

Slots(f) == {s \in Procs \X (0..MaxLines) : s[2] \in Spent(s[1], f)}

Charged == \A f \in Files \ OldFiles : lines[f] <= Cardinality(Slots(f))

\* Where file_index_ points, and that it never points at an earlier run's file.
Opened(p) == <<current_date_[p], file_index_[p] - 1>>

Placed ==
    \A p \in Procs :
        /\ state[p] = "unborn" => place[p] = "idle" /\ file_index_[p] = 0
        /\ place[p] = "open" => file_index_[p] > 0 /\ Opened(p) \notin OldFiles
        /\ state[p] = "up" /\ place[p] = "idle" =>
              /\ file_index_[p] > 0 /\ log_file_[p] = Opened(p)
              /\ Opened(p) \notin OldFiles

LoggerInv == TypeOK /\ Placed /\ OpenHasRoom /\ OldFilesUntouched /\ Charged

(***************************************************************************)
(* Counting slots.                                                         *)
(***************************************************************************)
LEMMA SlotsFinite ==
    ASSUME NEW f
    PROVE  /\ IsFiniteSet(Slots(f)) /\ IsFiniteSet(Slots(f)')
           /\ Cardinality(Slots(f)) \in Nat /\ Cardinality(Slots(f)') \in Nat
           /\ Cardinality(Procs) \in Nat
           /\ Cardinality(Slots(f)) <= Cardinality(Procs) * (MaxLines + 1)
<1>1. /\ IsFiniteSet(0..MaxLines) /\ Cardinality(0..MaxLines) = MaxLines + 1
  BY FS_Interval
<1>2. /\ IsFiniteSet(Procs \X (0..MaxLines))
      /\ Cardinality(Procs \X (0..MaxLines)) = Cardinality(Procs) * (MaxLines + 1)
  BY <1>1, FS_Product
<1>3. Slots(f) \subseteq Procs \X (0..MaxLines) /\ Slots(f)' \subseteq Procs \X (0..MaxLines)
  BY DEF Slots
<1>4. /\ IsFiniteSet(Slots(f)) /\ IsFiniteSet(Slots(f)')
      /\ Cardinality(Slots(f)) <= Cardinality(Procs \X (0..MaxLines))
  BY <1>2, <1>3, FS_Subset
<1>. QED
  BY <1>2, <1>4, FS_CardinalityType

LEMMA SlotsKept ==
    ASSUME NEW f, \A p \in Procs : Spent(p, f) \subseteq Spent(p, f)'
    PROVE  Cardinality(Slots(f)) <= Cardinality(Slots(f)')
<1>1. Slots(f) \subseteq Slots(f)'
  BY DEF Slots
<1>. QED
  BY <1>1, SlotsFinite, FS_Subset

\* A line takes a slot that was not spent.
LEMMA SlotTaken ==
    ASSUME NEW f, \A q \in Procs : Spent(q, f) \subseteq Spent(q, f)',
           NEW p \in Procs, NEW k \in 0..MaxLines,
           k \notin Spent(p, f), k \in Spent(p, f)'
    PROVE  Cardinality(Slots(f)) + 1 <= Cardinality(Slots(f)')
<1>. DEFINE A == Slots(f)
            B == Slots(f)'
            x == <<p, k>>
<1>1. x \notin A /\ A \cup {x} \subseteq B
  BY DEF Slots
<1>2. IsFiniteSet(A) /\ IsFiniteSet(B)
  BY SlotsFinite
<1>. HIDE DEF A, B, x
<1>3. Cardinality(A \cup {x}) = Cardinality(A) + 1
  BY <1>1, <1>2, FS_AddElement
<1>4. Cardinality(A \cup {x}) <= Cardinality(B)
  BY <1>1, <1>2, FS_Subset
<1>5. Cardinality(A) + 1 <= Cardinality(B)
  BY <1>3, <1>4
<1>. QED
  BY <1>5 DEF A, B

\* What a step that writes no line keeps, if no process gives slots back.
LEMMA NothingWritten ==
    ASSUME LoggerInv, UNCHANGED lines,
           \A p \in Procs : \A f \in Files : Spent(p, f) \subseteq Spent(p, f)'
    PROVE  OldFilesUntouched' /\ Charged'
<1>1. OldFilesUntouched'
  BY DEF LoggerInv, OldFilesUntouched
<1>2. ASSUME NEW f \in Files \ OldFiles
      PROVE  lines'[f] <= Cardinality(Slots(f)')
  <2>1. Cardinality(Slots(f)) <= Cardinality(Slots(f)')
    BY SlotsKept
  <2>2. lines[f] <= Cardinality(Slots(f))
    BY DEF LoggerInv, Charged
  <2>3. lines'[f] \in Nat
    BY DEF LoggerInv, TypeOK
  <2>. QED
    BY <2>1, <2>2, <2>3, SlotsFinite
<1>. QED
  BY <1>1, <1>2 DEF Charged
-----------------------------------------------------------------------------
(***************************************************************************)
(* One lemma per action.                                                   *)
(***************************************************************************)
LEMMA InitLogger == Init => LoggerInv
<1>. SUFFICES ASSUME Init PROVE LoggerInv
  OBVIOUS
<1>. USE DEF Init
<1>1. TypeOK
  <2>1. lines \in [Files -> Nat] /\ log_file_ \in [Procs -> Files \cup {NoFile}]
    OBVIOUS
  <2>2. state \in [Procs -> {"unborn", "up", "failed"}] /\ place \in [Procs -> {"idle", "probe", "open"}]
    OBVIOUS
  <2>3. current_lines_ \in [Procs -> 0..MaxLines]
    OBVIOUS
  <2>4. current_date_ \in [Procs -> 1..LastDay] /\ file_index_ \in [Procs -> 0..MaxIndex + 1]
    OBVIOUS
  <2>. QED
    BY <2>1, <2>2, <2>3, <2>4 DEF TypeOK
<1>2. Placed /\ OpenHasRoom
  BY DEF Placed, OpenHasRoom
<1>3. OldFilesUntouched
  BY DEF OldFilesUntouched, Files
<1>4. Charged
  <2>1. \A f \in Files \ OldFiles : lines[f] = 0
    OBVIOUS
  <2>. QED
    BY <2>1, SlotsFinite DEF Charged
<1>. QED
  BY <1>1, <1>2, <1>3, <1>4 DEF LoggerInv

LEMMA ForkLogger ==
    ASSUME LoggerInv, NEW p \in Procs, Fork(p)
    PROVE  LoggerInv'
<1>. USE DEF LoggerInv, Fork
<1>1. TypeOK'
  BY DEF TypeOK
<1>2. Placed' /\ OpenHasRoom'
  BY DEF TypeOK, Placed, OpenHasRoom, Opened
<1>3. ASSUME NEW q \in Procs, NEW f \in Files
      PROVE  Spent(q, f) \subseteq Spent(q, f)'
  <2>1. CASE q = p
    <3>1. At(p) = -1
      BY DEF Placed, TypeOK, At
    <3>2. f[2] \in Nat
      BY DEF Files
    <3>3. Spent(p, f) = {}
      BY <3>1, <3>2 DEF Spent
    <3>. QED
      BY <2>1, <3>3
  <2>2. CASE q # p
    <3>1. /\ place'[q] = place[q] /\ file_index_'[q] = file_index_[q]
          /\ current_lines_'[q] = current_lines_[q]
      BY <2>2 DEF TypeOK
    <3>. QED
      BY <3>1 DEF Spent, At
  <2>. QED
    BY <2>1, <2>2
<1>. QED
  BY <1>1, <1>2, <1>3, NothingWritten

\* A process that finds its counter full leaves the file, so whatever it has not
\* written there it will not write any more.
LEMMA LogLogger ==
    ASSUME LoggerInv, NEW p \in Procs, Log(p)
    PROVE  LoggerInv'
<1>. DEFINE f == log_file_[p]
            n == current_lines_[p] + 1
<1>. USE DEF LoggerInv, Log
<1>1. /\ f = Opened(p) /\ f \in Files \ OldFiles /\ file_index_[p] > 0
      /\ current_lines_[p] < MaxLines /\ n \in 1..MaxLines
      /\ f[2] = file_index_[p] - 1
  <2>. HIDE DEF Log
  <2>1. state[p] = "up" /\ place[p] = "idle"
    BY DEF Log
  <2>2. f = Opened(p) /\ Opened(p) \notin OldFiles /\ file_index_[p] > 0
    BY <2>1 DEF Placed
  <2>3. f # NoFile /\ current_lines_[p] < MaxLines
    BY <2>1 DEF OpenHasRoom
  <2>4. f \in Files /\ n \in 1..MaxLines
    BY <2>3 DEF TypeOK
  <2>5. Opened(p)[2] = file_index_[p] - 1
    BY DEF Opened
  <2>. QED
    BY <2>2, <2>3, <2>4, <2>5
<1>2. /\ lines' = [lines EXCEPT ![f] = @ + 1]
      /\ current_lines_' = [current_lines_ EXCEPT ![p] = n]
  OBVIOUS
<1>3. TypeOK'
  BY <1>1 DEF TypeOK
<1>4. Placed'
  <2>1. /\ state' = state /\ file_index_' = file_index_ /\ current_date_' = current_date_
        /\ \A q \in Procs : place'[q] = "open" => place[q] = "open"
        /\ \A q \in Procs : place'[q] = "idle" =>
              place[q] = "idle" /\ log_file_'[q] = log_file_[q]
        /\ state[p] # "unborn"
        /\ \A q \in Procs : q # p => place'[q] = place[q]
    BY DEF TypeOK
  <2>. QED
    BY <2>1 DEF Placed, Opened
<1>5. OpenHasRoom'
  <2>. SUFFICES ASSUME NEW q \in Procs, state'[q] = "up", place'[q] = "idle"
                PROVE  /\ current_lines_'[q] < MaxLines
                       /\ log_file_'[q] # NoFile /\ lines'[log_file_'[q]] > current_lines_'[q]
    BY DEF OpenHasRoom
  <2>1. state[q] = "up" /\ place[q] = "idle" /\ log_file_'[q] = log_file_[q]
    BY DEF TypeOK
  <2>2. log_file_[q] \in Files /\ lines[log_file_[q]] > current_lines_[q]
    BY <2>1 DEF OpenHasRoom, TypeOK
  <2>3. CASE q = p
    <3>1. n < MaxLines
      BY <2>3, <1>1 DEF MustRotate, TypeOK
    <3>. QED
      <4>1. current_lines_'[p] = n /\ log_file_'[p] = f /\ f # NoFile
        BY <2>1, <2>2, <2>3, <1>2 DEF TypeOK, OpenHasRoom
      <4>2. lines'[f] = lines[f] + 1 /\ lines[f] > current_lines_[p]
        BY <2>2, <2>3, <1>1, <1>2 DEF TypeOK
      <4>3. lines[f] \in Nat /\ current_lines_[p] \in Nat
        BY <1>1 DEF TypeOK
      <4>. QED
        BY <2>3, <3>1, <4>1, <4>2, <4>3
  <2>4. CASE q # p
    <3>1. current_lines_'[q] = current_lines_[q] /\ current_lines_[q] < MaxLines
      BY <2>1, <2>4 DEF TypeOK, OpenHasRoom
    <3>2. lines'[log_file_[q]] >= lines[log_file_[q]]
      BY <1>1, <1>2, <2>2 DEF TypeOK
    <3>3. lines[log_file_[q]] \in Nat /\ current_lines_[q] \in Nat
          /\ lines'[log_file_[q]] \in Nat /\ log_file_[q] # NoFile
      BY <2>1, <2>2, <1>3 DEF TypeOK, OpenHasRoom
    <3>. QED
      BY <2>1, <2>2, <3>1, <3>2, <3>3
  <2>. QED
    BY <2>3, <2>4
<1>6. OldFilesUntouched'
  BY <1>1 DEF OldFilesUntouched, TypeOK
<1>7. \A q \in Procs : q # p =>
          /\ place'[q] = place[q] /\ file_index_'[q] = file_index_[q]
          /\ current_lines_'[q] = current_lines_[q]
  BY DEF TypeOK
<1>8. ASSUME NEW g \in Files
      PROVE  /\ \A q \in Procs : Spent(q, g) \subseteq Spent(q, g)'
             /\ g = f => n \notin Spent(p, g) /\ n \in Spent(p, g)'
  <2>1. g[2] \in Nat /\ place[p] = "idle" /\ file_index_'[p] = file_index_[p]
    BY DEF Files
  <2>2. /\ file_index_[p] \in Nat /\ MaxLines \in Nat /\ n \in 1..MaxLines
        /\ current_lines_[p] \in Nat /\ n = current_lines_[p] + 1
    BY <1>1 DEF TypeOK
  <2>3. CASE MustRotate(n)
    <3>1. place'[p] = "probe" /\ n = MaxLines
      BY <1>1, <2>3 DEF MustRotate, TypeOK
    <3>2. Spent(p, g) \subseteq Spent(p, g)'
      BY <2>1, <2>2, <3>1 DEF Spent, At
    <3>3. g[2] = file_index_[p] - 1 => n \notin Spent(p, g) /\ n \in Spent(p, g)'
      BY <2>1, <2>2, <3>1 DEF Spent, At
    <3>. QED
      BY <1>1, <1>7, <3>2, <3>3 DEF Spent, At
  <2>4. CASE ~MustRotate(n)
    <3>1. place'[p] = "idle" /\ current_lines_'[p] = n
      BY <2>4, <1>2 DEF TypeOK
    <3>2. Spent(p, g) \subseteq Spent(p, g)'
      BY <2>1, <2>2, <3>1 DEF Spent, At
    <3>3. g[2] = file_index_[p] - 1 => n \notin Spent(p, g) /\ n \in Spent(p, g)'
      BY <2>1, <2>2, <3>1 DEF Spent, At
    <3>. QED
      BY <1>1, <1>7, <3>2, <3>3 DEF Spent, At
  <2>. QED
    BY <2>3, <2>4
<1>9. Charged'
  <2>. SUFFICES ASSUME NEW g \in Files \ OldFiles
                PROVE  lines'[g] <= Cardinality(Slots(g)')
    BY DEF Charged
  <2>0. lines[g] \in Nat /\ lines[g] <= Cardinality(Slots(g))
    BY DEF TypeOK, Charged
  <2>1. CASE g = f
    <3>1. Cardinality(Slots(g)) + 1 <= Cardinality(Slots(g)')
      BY <1>1, <1>8, <2>1, SlotTaken
    <3>2. lines'[g] = lines[g] + 1
      BY <1>2, <2>1 DEF TypeOK
    <3>. QED
      BY <2>0, <3>1, <3>2, SlotsFinite
  <2>2. CASE g # f
    <3>1. Cardinality(Slots(g)) <= Cardinality(Slots(g)')
      BY <1>8, SlotsKept
    <3>2. lines'[g] = lines[g]
      BY <1>2, <2>2 DEF TypeOK
    <3>. QED
      BY <2>0, <3>1, <3>2, SlotsFinite
  <2>. QED
    BY <2>1, <2>2
<1>. QED
  BY <1>3, <1>4, <1>5, <1>6, <1>9

\* A name that is taken is skipped; a name of an earlier run always is taken.
LEMMA ProbeLogger ==
    ASSUME LoggerInv, NEW p \in Procs, Probe(p)
    PROVE  LoggerInv'
<1>. USE DEF LoggerInv, Probe
<1>. DEFINE next == <<current_date_[p], file_index_[p]>>
<1>1. TypeOK'
  BY DEF TypeOK
<1>2. /\ file_index_'[p] = file_index_[p] + 1 /\ place'[p] \in {"probe", "open"}
      /\ place'[p] = "open" => lines[next] <= 0
      /\ next \in Files
      /\ file_index_[p] \in Nat
  <2>1. next \in Files /\ file_index_[p] \in Nat
    BY DEF TypeOK, Files
  <2>. QED
    BY <2>1 DEF TypeOK, Taken
<1>3. \A q \in Procs : q # p => place'[q] = place[q] /\ file_index_'[q] = file_index_[q]
  BY DEF TypeOK
<1>4. Placed'
  <2>1. place'[p] = "open" => file_index_'[p] > 0 /\ Opened(p)' \notin OldFiles
    <3>1. Opened(p)' = next
      BY <1>2 DEF Opened
    <3>2. place'[p] = "open" => next \notin OldFiles
      BY <1>2 DEF OldFilesUntouched
    <3>. QED
      BY <1>2, <3>1, <3>2
  <2>. QED
    BY <1>2, <1>3, <2>1 DEF Placed, Opened
<1>5. OpenHasRoom'
  BY <1>2, <1>3 DEF OpenHasRoom
<1>6. ASSUME NEW q \in Procs, NEW f \in Files
      PROVE  Spent(q, f) \subseteq Spent(q, f)'
  <2>1. CASE q = p
    <3>1. f[2] \in Nat /\ place[p] = "probe"
      BY DEF Files
    <3>. QED
      BY <1>2, <2>1, <3>1 DEF Spent, At
  <2>2. CASE q # p
    BY <1>3, <2>2 DEF Spent, At
  <2>. QED
    BY <2>1, <2>2
<1>. QED
  BY <1>1, <1>4, <1>5, <1>6, NothingWritten

\* Another process may have created the file since it was probed; this process has
\* not written to it before, and its heading takes slot 0.
LEMMA OpenLogger ==
    ASSUME LoggerInv, NEW p \in Procs, Open(p)
    PROVE  LoggerInv'
<1>. DEFINE f == Opened(p)
<1>. USE DEF LoggerInv
<1>0. state[p] = "up" /\ place[p] = "open"
  BY DEF Open
<1>1. /\ file_index_[p] > 0 /\ f \notin OldFiles /\ f \in Files
      /\ f[2] = file_index_[p] - 1 /\ f # NoFile
  <2>1. file_index_[p] > 0 /\ f \notin OldFiles
    BY <1>0 DEF Placed
  <2>2. f \in Files
    BY <2>1 DEF TypeOK, Files, Opened
  <2>3. f[2] = file_index_[p] - 1 /\ f # NoFile
    BY <2>2 DEF Opened, Files
  <2>. QED
    BY <2>1, <2>2, <2>3
<1>2. /\ lines' = [lines EXCEPT ![f] = @ + 1]
      /\ log_file_' = [log_file_ EXCEPT ![p] = f]
      /\ current_lines_' = [current_lines_ EXCEPT ![p] = 0]
      /\ place' = [place EXCEPT ![p] = "idle"]
      /\ UNCHANGED <<state, current_date_, file_index_>>
  BY DEF Open, Opened
<1>. HIDE DEF f
<1>3. TypeOK'
  BY <1>1, <1>2 DEF TypeOK
<1>4. \A q \in Procs : q # p =>
          /\ place'[q] = place[q] /\ log_file_'[q] = log_file_[q]
          /\ current_lines_'[q] = current_lines_[q]
  BY <1>2 DEF TypeOK
<1>5. place'[p] = "idle" /\ log_file_'[p] = f /\ current_lines_'[p] = 0
  BY <1>2 DEF TypeOK
<1>6. Placed'
  BY <1>0, <1>1, <1>2, <1>4, <1>5 DEF Placed, Opened, f
<1>7. \A g \in Files : /\ lines[g] \in Nat
                        /\ lines'[g] = IF g = f THEN lines[g] + 1 ELSE lines[g]
  BY <1>1, <1>2 DEF TypeOK
<1>8. OpenHasRoom'
  <2>. SUFFICES ASSUME NEW q \in Procs, state'[q] = "up", place'[q] = "idle"
                PROVE  /\ current_lines_'[q] < MaxLines
                       /\ log_file_'[q] # NoFile /\ lines'[log_file_'[q]] > current_lines_'[q]
    BY DEF OpenHasRoom
  <2>1. CASE q = p
    BY <2>1, <1>1, <1>5, <1>7
  <2>2. CASE q # p
    <3>1. /\ current_lines_[q] < MaxLines /\ current_lines_[q] \in Nat
          /\ log_file_[q] \in Files /\ log_file_[q] # NoFile
          /\ lines[log_file_[q]] > current_lines_[q]
      BY <2>2, <1>2, <1>4 DEF OpenHasRoom, TypeOK
    <3>2. lines'[log_file_[q]] >= lines[log_file_[q]] /\ lines[log_file_[q]] \in Nat
      BY <1>7, <3>1
    <3>. QED
      BY <2>2, <1>3, <1>4, <1>7, <3>1, <3>2
  <2>. QED
    BY <2>1, <2>2
<1>9. OldFilesUntouched'
  <2>1. OldFiles \subseteq Files
    BY DEF Files
  <2>. QED
    BY <1>1, <1>7, <2>1 DEF OldFilesUntouched
<1>10. ASSUME NEW g \in Files
       PROVE  /\ \A q \in Procs : Spent(q, g) \subseteq Spent(q, g)'
              /\ g = f => 0 \notin Spent(p, g) /\ 0 \in Spent(p, g)'
  <2>1. g[2] \in Nat /\ file_index_' = file_index_
    BY <1>2 DEF Files
  <2>2. /\ Spent(p, g) \subseteq Spent(p, g)'
        /\ g[2] = file_index_[p] - 1 => 0 \notin Spent(p, g) /\ 0 \in Spent(p, g)'
    BY <1>0, <1>1, <1>5, <2>1 DEF Spent, At, TypeOK
  <2>. QED
    BY <1>1, <1>4, <2>1, <2>2 DEF Spent, At
<1>11. Charged'
  <2>. SUFFICES ASSUME NEW g \in Files \ OldFiles
                PROVE  lines'[g] <= Cardinality(Slots(g)')
    BY DEF Charged
  <2>1. lines[g] <= Cardinality(Slots(g))
    BY DEF Charged
  <2>2. CASE g = f
    <3>1. Cardinality(Slots(g)) + 1 <= Cardinality(Slots(g)')
      BY <1>10, <2>2, SlotTaken
    <3>. QED
      BY <1>7, <2>1, <2>2, <3>1, SlotsFinite
  <2>3. CASE g # f
    <3>1. Cardinality(Slots(g)) <= Cardinality(Slots(g)')
      BY <1>10, SlotsKept
    <3>. QED
      BY <1>7, <2>1, <2>3, <3>1, SlotsFinite
  <2>. QED
    BY <2>2, <2>3
<1>. QED
  BY <1>3, <1>6, <1>8, <1>9, <1>11

LEMMA OpenFailsLogger ==
    ASSUME LoggerInv, NEW p \in Procs, OpenFails(p)
    PROVE  LoggerInv'
<1>. USE DEF LoggerInv, OpenFails, procVars
<1>1. TypeOK' /\ Placed' /\ OpenHasRoom'
  BY DEF TypeOK, Placed, OpenHasRoom, Opened
<1>2. OldFilesUntouched' /\ Charged'
  BY NothingWritten DEF Spent, At
<1>. QED
  BY <1>1, <1>2
-----------------------------------------------------------------------------
LEMMA LoggerStep == LoggerInv /\ [Next]_vars => LoggerInv'
<1>. SUFFICES ASSUME LoggerInv, [Next]_vars PROVE LoggerInv'
  OBVIOUS
<1>1. CASE \E p \in Procs : Fork(p) \/ Log(p) \/ Probe(p) \/ Open(p) \/ OpenFails(p)
  BY <1>1, ForkLogger, LogLogger, ProbeLogger, OpenLogger, OpenFailsLogger
<1>2. CASE UNCHANGED vars
  <2>. USE <1>2 DEF vars, procVars, LoggerInv
  <2>1. TypeOK' /\ Placed' /\ OpenHasRoom'
    BY DEF TypeOK, Placed, OpenHasRoom, Opened
  <2>2. OldFilesUntouched' /\ Charged'
    BY NothingWritten DEF Spent, At
  <2>. QED
    BY <2>1, <2>2
<1>. QED
  BY <1>1, <1>2 DEF Next

\* An old file has one line here, and every other file no more than its slots.
LEMMA ChargedBound == LoggerInv => SharedBound
<1>. SUFFICES ASSUME LoggerInv, NEW f \in Files
              PROVE  lines[f] <= Cardinality(Procs) * (MaxLines + 1)
  BY DEF SharedBound
<1>1. lines[f] \in Nat
  BY DEF LoggerInv, TypeOK
<1>2. CASE f \in OldFiles
  <2>1. Cardinality(Procs) \in Nat /\ Cardinality(Procs) # 0
    BY FS_EmptySet, FS_CardinalityType
  <2>2. Cardinality(Procs) * (MaxLines + 1) >= 1
    BY <2>1
  <2>. QED
    BY <1>2, <2>2 DEF LoggerInv, OldFilesUntouched
<1>3. CASE f \notin OldFiles
  <2>. DEFINE slots == Cardinality(Slots(f))
              bound == Cardinality(Procs) * (MaxLines + 1)
  <2>1. lines[f] <= slots /\ slots <= bound /\ slots \in Nat /\ bound \in Nat
    BY <1>3, SlotsFinite DEF LoggerInv, Charged
  <2>. HIDE DEF slots, bound
  <2>2. lines[f] <= bound
    BY <1>1, <2>1
  <2>. QED
    BY <2>2 DEF bound
<1>. QED
  BY <1>2, <1>3

\* Whatever the processes that share a directory do between two steps of each other's
\* rotate_file: no file outgrows a heading and max_lines_ lines per process, a process
\* never writes through a closed stream nor past its own count, and what an earlier run
\* left is not appended to (log, rotate_file).
THEOREM LoggerSafe == Spec => [](TypeOK /\ SharedBound /\ OpenHasRoom /\ OldFilesUntouched)
<1>1. LoggerInv => TypeOK /\ SharedBound /\ OpenHasRoom /\ OldFilesUntouched
  BY ChargedBound DEF LoggerInv
<1>. QED
  BY InitLogger, LoggerStep, <1>1, PTL DEF Spec
=============================================================================

------------------------------- MODULE PidFile -------------------------------
(****************************************************************************)
(* Process start and end around the PID file (src/src/main.cpp): the test   *)
(* for a running copy, the two forks, the signal handlers, the file, and    *)
(* exit_all(), which removes it.  Several starts and ends may interleave,   *)
(* the control script reads the file to signal the daemon, and the kernel   *)
(* gives the numbers of dead processes to new ones.                         *)
(****************************************************************************)
EXTENDS Integers

CONSTANTS Procs,       \* starts of the program that may be in progress at once
          MaxPid,      \* bound: largest process number
          MaxEvents    \* bound: starts, crashes and foreign processes

ASSUME PidAssumption == MaxPid \in Nat /\ MaxPid >= 2 /\ MaxEvents \in Nat

VARIABLES
  pc,        \* where each process is; "out" is no process
  num,       \* its number
  seen,      \* what PidFile_read() returned to it
  file,      \* number in the PID file; 0 if it is empty, -1 if there is none
  foreign,   \* numbers of processes of other programs
  ctl,       \* number the control script read and has not signalled yet
  raced,     \* history: two starts overlapped since the last time none ran
  reused,    \* history: a number given out was in the file or the script
  victim,    \* history: the script killed something else than a daemon
  events     \* bounded events so far

vars == <<pc, num, seen, file, foreign, ctl, raced, reused, victim, events>>

(* The code takes numbers below 2 for "no process". *)
Pids == 2..MaxPid

(* A start, up to the file that is written or the exit_all() of one that failed. *)
Starting == {"read", "probe", "fork", "signals", "open", "write", "fail"}
(* Processes that wrote the file and did not remove it yet. *)
Serving  == {"run", "unlink"}
States   == {"out", "end"} \cup Starting \cup Serving

(* Handlers are installed and a signal is not the end of the process. *)
Handling == {"open", "write", "run", "unlink", "end"}

Taken == foreign \cup {num[p] : p \in {q \in Procs : pc[q] # "out"}}
Alive(n) == n \in Taken

Init ==
  /\ pc = [p \in Procs |-> "out"] /\ num = [p \in Procs |-> 0]
  /\ seen = [p \in Procs |-> -1] /\ file = -1 /\ foreign = {} /\ ctl = 0
  /\ raced = FALSE /\ reused = FALSE /\ victim = FALSE /\ events = 0

Event == events < MaxEvents /\ events' = events + 1

Step(p, from, to) == pc[p] = from /\ pc' = [pc EXCEPT ![p] = to]

(* A process is gone and with it all it knew. *)
Gone(p) ==
  /\ pc' = [pc EXCEPT ![p] = "out"]
  /\ num' = [num EXCEPT ![p] = 0] /\ seen' = [seen EXCEPT ![p] = -1]

(* The kernel gives n out. *)
Allot(n) == n \in Pids \ Taken /\ reused' = (reused \/ n \in {file, ctl})

(* sacc is started.  The histories begin anew when there is no process left. *)
Begin(p) ==
  /\ Event /\ Step(p, "out", "read")
  /\ \E n \in Pids : Allot(n) /\ num' = [num EXCEPT ![p] = n]
  /\ raced' = IF \A q \in Procs : pc[q] = "out" THEN FALSE
              ELSE raced \/ \E q \in Procs : pc[q] \in Starting
  /\ UNCHANGED <<seen, file, foreign, ctl, victim>>

(* Seeded fault: the file holds one less. *)
ReadUnchecked(p) ==
  /\ Step(p, "read", "probe") /\ seen' = [seen EXCEPT ![p] = file - 1]
  /\ UNCHANGED <<num, file, foreign, ctl, raced, reused, victim, events>>

(* PidFile_read() *)
Read(p) ==
  /\ Step(p, "read", "probe") /\ seen' = [seen EXCEPT ![p] = file]
  /\ UNCHANGED <<num, file, foreign, ctl, raced, reused, victim, events>>

(* checkRunningPid(): kill(pid, 0) *)
Running(n) == n >= 2 /\ Alive(n)

(* Seeded fault: a refused start leaves through exit_all() as well. *)
ProbeRefusedCleans(p) ==
  /\ Running(seen[p]) /\ Step(p, "probe", "fail")
  /\ UNCHANGED <<num, seen, file, foreign, ctl, raced, reused, victim, events>>

ProbeRefused(p) ==
  /\ pc[p] = "probe" /\ Running(seen[p]) /\ Gone(p)
  /\ UNCHANGED <<file, foreign, ctl, raced, reused, victim, events>>

ProbePassed(p) ==
  /\ ~Running(seen[p]) /\ Step(p, "probe", "fork")
  /\ seen' = [seen EXCEPT ![p] = -1]
  /\ UNCHANGED <<num, file, foreign, ctl, raced, reused, victim, events>>

(* Seeded fault: the file is written before the handlers are installed. *)
ForkWrites(p) ==
  /\ Step(p, "fork", "signals")
  /\ \E n \in Pids : Allot(n) /\ num' = [num EXCEPT ![p] = n] /\ file' = n
  /\ UNCHANGED <<seen, foreign, ctl, raced, victim, events>>

(* sys_daemonize() forks twice; the daemon has a new number. *)
Fork(p) ==
  /\ Step(p, "fork", "signals")
  /\ \E n \in Pids : Allot(n) /\ num' = [num EXCEPT ![p] = n]
  /\ UNCHANGED <<seen, file, foreign, ctl, raced, victim, events>>

ForkFails(p) ==
  /\ Event /\ Step(p, "fork", "fail")
  /\ UNCHANGED <<num, seen, file, foreign, ctl, raced, reused, victim>>

(* Started not to become a daemon: no fork, the number stays. *)
NoDaemon(p) ==
  /\ Step(p, "fork", "signals")
  /\ UNCHANGED <<num, seen, file, foreign, ctl, raced, reused, victim, events>>

InstallHandlers(p) ==
  /\ Step(p, "signals", "open")
  /\ UNCHANGED <<num, seen, file, foreign, ctl, raced, reused, victim, events>>

(* PidFile_write(): fopen() for writing empties the file, fclose() fills it. *)
Open(p) ==
  /\ Step(p, "open", "write") /\ file' = 0
  /\ UNCHANGED <<num, seen, foreign, ctl, raced, reused, victim, events>>

OpenFails(p) ==
  /\ Event /\ Step(p, "open", "fail")
  /\ UNCHANGED <<num, seen, file, foreign, ctl, raced, reused, victim>>

(* Seeded fault: the file gets a number from before the forks. *)
WriteParent(p) ==
  /\ Step(p, "write", "run") /\ file' \in Pids \ Taken
  /\ UNCHANGED <<num, seen, foreign, ctl, raced, reused, victim, events>>

Write(p) ==
  /\ Step(p, "write", "run") /\ file' = num[p]
  /\ UNCHANGED <<num, seen, foreign, ctl, raced, reused, victim, events>>

(* TERM, an error of MySQL, a missing log: every end the daemon knows. *)
Stop(p) ==
  /\ Step(p, "run", "unlink")
  /\ UNCHANGED <<num, seen, file, foreign, ctl, raced, reused, victim, events>>

(* exit_all(): the file is removed, whoever wrote it. *)
Unlink(p) ==
  /\ Step(p, "unlink", "end") \/ Step(p, "fail", "end")
  /\ file' = -1
  /\ UNCHANGED <<num, seen, foreign, ctl, raced, reused, victim, events>>

Ended(p) ==
  /\ pc[p] = "end" /\ Gone(p)
  /\ UNCHANGED <<file, foreign, ctl, raced, reused, victim, events>>

(* kill -9, a signal without handler, power failure. *)
Crash(p) ==
  /\ Event /\ pc[p] # "out" /\ Gone(p)
  /\ UNCHANGED <<file, foreign, ctl, raced, reused, victim>>

ForeignStarts ==
  /\ Event
  /\ \E n \in Pids : Allot(n) /\ foreign' = foreign \cup {n}
  /\ UNCHANGED <<pc, num, seen, file, ctl, raced, victim>>

ForeignEnds ==
  /\ \E n \in foreign : foreign' = foreign \ {n}
  /\ UNCHANGED <<pc, num, seen, file, ctl, raced, reused, victim, events>>

(* SAcc_counter.control: PID=`cat sacc.pid`, at the start of every action. *)
ControlReads ==
  /\ file >= 2 /\ ctl' = file
  /\ UNCHANGED <<pc, num, seen, file, foreign, raced, reused, victim, events>>

(* kill -TERM $PID ends a daemon that runs; one that starts notes the signal. *)
ControlStops ==
  /\ ctl >= 2 /\ ctl' = 0
  /\ LET blind == {p \in Procs : num[p] = ctl /\ pc[p] \notin Handling \cup {"out"}}
         right == {p \in Procs : num[p] = ctl /\ pc[p] = "run"}
     IN /\ pc' = [p \in Procs |-> IF p \in blind THEN "out"
                                  ELSE IF p \in right THEN "unlink" ELSE pc[p]]
        /\ num' = [p \in Procs |-> IF p \in blind THEN 0 ELSE num[p]]
        /\ seen' = [p \in Procs |-> IF p \in blind THEN -1 ELSE seen[p]]
        /\ victim' = (victim \/ blind # {} \/ ctl \in foreign)
  /\ foreign' = foreign \ {ctl}
  /\ UNCHANGED <<file, raced, reused, events>>

Process(p) ==
  \/ Begin(p) \/ Read(p) \/ ProbeRefused(p) \/ ProbePassed(p) \/ Fork(p) \/ ForkFails(p)
  \/ NoDaemon(p) \/ InstallHandlers(p) \/ Open(p) \/ OpenFails(p) \/ Write(p)
  \/ Stop(p) \/ Unlink(p) \/ Ended(p) \/ Crash(p)

Next == (\E p \in Procs : Process(p))
        \/ ForeignStarts \/ ForeignEnds \/ ControlReads \/ ControlStops

Spec == Init /\ [][Next]_vars
------------------------------------------------------------------------------
(* Types, the type invariant. *)
TypeOK ==
  /\ pc \in [Procs -> States] /\ num \in [Procs -> {0} \cup Pids]
  /\ seen \in [Procs -> {-1, 0} \cup Pids] /\ file \in {-1, 0} \cup Pids
  /\ foreign \subseteq Pids /\ ctl \in {0} \cup Pids
  /\ raced \in BOOLEAN /\ reused \in BOOLEAN /\ victim \in BOOLEAN
  /\ events \in 0..MaxEvents

(* Unless two starts overlapped, there is at most one daemon, though others *)
(* end, crash or fail while it starts.                                      *)
OneDaemon ==
  ~raced => \A p, q \in Procs : pc[p] = "run" /\ pc[q] = "run" => p = q

(* Unless two starts overlapped, the file names the daemon that runs: no    *)
(* exit_all() of another one took it away.                                  *)
FileNamesDaemon ==
  ~raced => \A p \in Procs : pc[p] = "run" => file = num[p]

(* The control script kills no process but a daemon that can handle it,     *)
(* unless the kernel gave the number out anew: handlers come before the file. *)
SignalsReachDaemon == victim => reused
=============================================================================

--------------------------- MODULE PidFile_proofs ---------------------------
(****************************************************************************)
(* Proofs about PidFile, for every number of processes and of events.       *)
(****************************************************************************)
EXTENDS PidFile, TLAPS

USE PidAssumption DEF Pids
------------------------------------------------------------------------------
(* Types. *)
LEMMA TypeStep == TypeOK /\ [Next]_vars => TypeOK'
<1> SUFFICES ASSUME TypeOK, [Next]_vars PROVE TypeOK' OBVIOUS
<1>1. ASSUME NEW p \in Procs, Begin(p) PROVE TypeOK'
  <2>1. raced' \in BOOLEAN
    <3>1. CASE \A q \in Procs : pc[q] = "out" BY <1>1, <3>1 DEF Begin
    <3>2. CASE ~\A q \in Procs : pc[q] = "out" BY <1>1, <3>2 DEF Begin, TypeOK
    <3> QED BY <3>1, <3>2
  <2>2. reused' \in BOOLEAN BY <1>1 DEF Begin, Allot, TypeOK
  <2>3. pc' \in [Procs -> States] /\ num' \in [Procs -> {0} \cup Pids] /\ events' \in 0..MaxEvents
    BY <1>1 DEF Begin, Event, Step, Allot, TypeOK, States, Starting, Serving
  <2> QED BY <1>1, <2>1, <2>2, <2>3 DEF Begin, TypeOK
<1>2. ASSUME NEW p \in Procs, Read(p) PROVE TypeOK'
  BY <1>2 DEF Read, Step, TypeOK, States, Starting, Serving
<1>3. ASSUME NEW p \in Procs, ProbeRefused(p) PROVE TypeOK'
  BY <1>3 DEF ProbeRefused, Gone, Running, Alive, Taken, TypeOK, States, Starting, Serving
<1>4. ASSUME NEW p \in Procs, ProbePassed(p) PROVE TypeOK'
  BY <1>4 DEF ProbePassed, Step, Running, Alive, Taken, TypeOK, States, Starting, Serving
<1>5. ASSUME NEW p \in Procs, Fork(p) PROVE TypeOK'
  BY <1>5 DEF Fork, Step, Allot, Taken, TypeOK, States, Starting, Serving
<1>6. ASSUME NEW p \in Procs, ForkFails(p) PROVE TypeOK'
  BY <1>6 DEF ForkFails, Event, Step, TypeOK, States, Starting, Serving
<1>20. ASSUME NEW p \in Procs, NoDaemon(p) PROVE TypeOK'
  BY <1>20 DEF NoDaemon, Step, TypeOK, States, Starting, Serving
<1>7. ASSUME NEW p \in Procs, InstallHandlers(p) PROVE TypeOK'
  BY <1>7 DEF InstallHandlers, Step, TypeOK, States, Starting, Serving
<1>8. ASSUME NEW p \in Procs, Open(p) PROVE TypeOK'
  BY <1>8 DEF Open, Step, TypeOK, States, Starting, Serving
<1>9. ASSUME NEW p \in Procs, OpenFails(p) PROVE TypeOK'
  BY <1>9 DEF OpenFails, Event, Step, TypeOK, States, Starting, Serving
<1>10. ASSUME NEW p \in Procs, Write(p) PROVE TypeOK'
  BY <1>10 DEF Write, Step, TypeOK, States, Starting, Serving
<1>11. ASSUME NEW p \in Procs, Stop(p) PROVE TypeOK'
  BY <1>11 DEF Stop, Step, TypeOK, States, Starting, Serving
<1>12. ASSUME NEW p \in Procs, Unlink(p) PROVE TypeOK'
  BY <1>12 DEF Unlink, Step, TypeOK, States, Starting, Serving
<1>13. ASSUME NEW p \in Procs, Ended(p) PROVE TypeOK'
  BY <1>13 DEF Ended, Gone, TypeOK, States, Starting, Serving
<1>14. ASSUME NEW p \in Procs, Crash(p) PROVE TypeOK'
  BY <1>14 DEF Crash, Event, Gone, TypeOK, States, Starting, Serving
<1>15. CASE ForeignStarts
  BY <1>15 DEF ForeignStarts, Event, Allot, Taken, TypeOK, States, Starting, Serving
<1>16. CASE ForeignEnds
  BY <1>16 DEF ForeignEnds, TypeOK, States, Starting, Serving
<1>17. CASE ControlReads
  BY <1>17 DEF ControlReads, TypeOK, States, Starting, Serving
<1>18. CASE ControlStops
  BY <1>18 DEF ControlStops, Handling, TypeOK, States, Starting, Serving
<1>19. CASE UNCHANGED vars
  BY <1>19 DEF vars, TypeOK, States, Starting, Serving
<1> QED BY <1>1, <1>2, <1>3, <1>4, <1>5, <1>6, <1>7, <1>8, <1>9, <1>10, <1>11, <1>12, <1>13, <1>14, <1>15, <1>16, <1>17, <1>18, <1>19, <1>20
    DEF Next, Process

(* The type invariant holds of every behaviour. *)
THEOREM PidTypeCorrect == Spec => []TypeOK
<1>1. Init => TypeOK
  <2> SUFFICES ASSUME Init PROVE TypeOK OBVIOUS
  <2>1. pc \in [Procs -> States] BY DEF Init, States
  <2>2. num \in [Procs -> {0} \cup Pids] /\ seen \in [Procs -> {-1, 0} \cup Pids] BY DEF Init
  <2>3. events \in 0..MaxEvents BY DEF Init
  <2> QED BY <2>1, <2>2, <2>3 DEF Init, TypeOK
<1> QED BY <1>1, TypeStep, PTL DEF Spec
------------------------------------------------------------------------------
(* The processes there are have numbers of their own. *)
Numbered ==
  /\ \A p \in Procs : pc[p] # "out" => num[p] \in Pids \ foreign
  /\ \A p, q \in Procs : pc[p] # "out" /\ pc[q] # "out" /\ num[p] = num[q] => p = q

LEMMA NumberedStep == TypeOK /\ Numbered /\ [Next]_vars => Numbered'
<1> SUFFICES ASSUME TypeOK, Numbered, [Next]_vars PROVE Numbered' OBVIOUS
<1>1. ASSUME NEW p \in Procs, Begin(p) PROVE Numbered'
  BY <1>1 DEF Begin, Event, Step, Allot, Taken, TypeOK, States, Starting, Serving, Numbered
<1>2. ASSUME NEW p \in Procs, Read(p) PROVE Numbered'
  BY <1>2 DEF Read, Step, TypeOK, States, Starting, Serving, Numbered
<1>3. ASSUME NEW p \in Procs, ProbeRefused(p) PROVE Numbered'
  BY <1>3 DEF ProbeRefused, Gone, Running, Alive, Taken, TypeOK, States, Starting, Serving, Numbered
<1>4. ASSUME NEW p \in Procs, ProbePassed(p) PROVE Numbered'
  BY <1>4 DEF ProbePassed, Step, Running, Alive, Taken, TypeOK, States, Starting, Serving, Numbered
<1>5. ASSUME NEW p \in Procs, Fork(p) PROVE Numbered'
  BY <1>5 DEF Fork, Step, Allot, Taken, TypeOK, States, Starting, Serving, Numbered
<1>6. ASSUME NEW p \in Procs, ForkFails(p) PROVE Numbered'
  BY <1>6 DEF ForkFails, Event, Step, TypeOK, States, Starting, Serving, Numbered
<1>20. ASSUME NEW p \in Procs, NoDaemon(p) PROVE Numbered'
  BY <1>20 DEF NoDaemon, Step, TypeOK, States, Starting, Serving, Numbered
<1>7. ASSUME NEW p \in Procs, InstallHandlers(p) PROVE Numbered'
  BY <1>7 DEF InstallHandlers, Step, TypeOK, States, Starting, Serving, Numbered
<1>8. ASSUME NEW p \in Procs, Open(p) PROVE Numbered'
  BY <1>8 DEF Open, Step, TypeOK, States, Starting, Serving, Numbered
<1>9. ASSUME NEW p \in Procs, OpenFails(p) PROVE Numbered'
  BY <1>9 DEF OpenFails, Event, Step, TypeOK, States, Starting, Serving, Numbered
<1>10. ASSUME NEW p \in Procs, Write(p) PROVE Numbered'
  BY <1>10 DEF Write, Step, TypeOK, States, Starting, Serving, Numbered
<1>11. ASSUME NEW p \in Procs, Stop(p) PROVE Numbered'
  BY <1>11 DEF Stop, Step, TypeOK, States, Starting, Serving, Numbered
<1>12. ASSUME NEW p \in Procs, Unlink(p) PROVE Numbered'
  BY <1>12 DEF Unlink, Step, TypeOK, States, Starting, Serving, Numbered
<1>13. ASSUME NEW p \in Procs, Ended(p) PROVE Numbered'
  BY <1>13 DEF Ended, Gone, TypeOK, States, Starting, Serving, Numbered
<1>14. ASSUME NEW p \in Procs, Crash(p) PROVE Numbered'
  BY <1>14 DEF Crash, Event, Gone, TypeOK, States, Starting, Serving, Numbered
<1>15. CASE ForeignStarts
  BY <1>15 DEF ForeignStarts, Event, Allot, Taken, TypeOK, States, Starting, Serving, Numbered
<1>16. CASE ForeignEnds
  BY <1>16 DEF ForeignEnds, TypeOK, States, Starting, Serving, Numbered
<1>17. CASE ControlReads
  BY <1>17 DEF ControlReads, TypeOK, States, Starting, Serving, Numbered
<1>18. CASE ControlStops
  BY <1>18 DEF ControlStops, Handling, TypeOK, States, Starting, Serving, Numbered
<1>19. CASE UNCHANGED vars
  BY <1>19 DEF vars, TypeOK, States, Starting, Serving, Numbered
<1> QED BY <1>1, <1>2, <1>3, <1>4, <1>5, <1>6, <1>7, <1>8, <1>9, <1>10, <1>11, <1>12, <1>13, <1>14, <1>15, <1>16, <1>17, <1>18, <1>19, <1>20
    DEF Next, Process
------------------------------------------------------------------------------
(* What holds while no two starts overlapped: one start at a time; the file *)
(* names whoever serves; a start that tests has read that name; and one that *)
(* passed the test has nobody who serves beside it.                         *)
Past == {"fork", "signals", "open", "write", "fail"}

OneStart == \A p, q \in Procs : pc[p] \in Starting /\ pc[q] \in Starting => p = q
FileHeld == \A p \in Procs : pc[p] \in Serving => file = num[p]
SeenHeld == \A p, q \in Procs : pc[p] = "probe" /\ pc[q] \in Serving => seen[p] = num[q]
PastFree == \A p, q \in Procs : pc[p] \in Past => pc[q] \notin Serving
Solo == OneStart /\ FileHeld /\ SeenHeld /\ PastFree
SoloInv == ~raced => Solo

LEMMA SoloStep == TypeOK /\ Numbered /\ SoloInv /\ [Next]_vars => SoloInv'
<1> SUFFICES ASSUME TypeOK, Numbered, SoloInv, [Next]_vars PROVE SoloInv' OBVIOUS
<1>1. ASSUME NEW p \in Procs, Begin(p) PROVE SoloInv'
  <2>1. CASE \A q \in Procs : pc[q] = "out"
    <3>1. \A q \in Procs : q # p => pc'[q] = "out"
      BY <1>1, <2>1 DEF Begin, Step, TypeOK
    <3>2. pc'[p] = "read" BY <1>1 DEF Begin, Step, TypeOK
    <3> QED BY <3>1, <3>2 DEF SoloInv, Solo, OneStart, FileHeld, SeenHeld, PastFree, Past, Starting, Serving
  <2>2. CASE ~\A q \in Procs : pc[q] = "out"
    <3> SUFFICES ASSUME ~raced' PROVE Solo' BY DEF SoloInv
    <3>1. ~raced /\ \A q \in Procs : pc[q] \notin Starting
      BY <1>1, <2>2 DEF Begin
    <3>2. pc' = [pc EXCEPT ![p] = "read"] /\ pc[p] = "out" BY <1>1 DEF Begin, Step
    <3>3. \A q \in Procs : pc[q] \in Serving => num'[q] = num[q]
      BY <1>1, <3>2 DEF Begin, TypeOK, Serving
    <3>4. file' = file /\ seen' = seen BY <1>1 DEF Begin
    <3>5. Solo BY <3>1 DEF SoloInv
    <3> QED BY <3>1, <3>2, <3>3, <3>4, <3>5
      DEF TypeOK, Solo, OneStart, FileHeld, SeenHeld, PastFree, Past, Starting, Serving
  <2> QED BY <2>1, <2>2
<1>2. ASSUME NEW p \in Procs, Read(p) PROVE SoloInv'
  BY <1>2 DEF Read, Step, TypeOK, States, Starting, Serving, Numbered, SoloInv, Solo, OneStart, FileHeld,
      SeenHeld, PastFree, Past
<1>3. ASSUME NEW p \in Procs, ProbeRefused(p) PROVE SoloInv'
  BY <1>3 DEF ProbeRefused, Gone, Running, Alive, Taken, TypeOK, States, Starting, Serving, Numbered,
      SoloInv, Solo, OneStart, FileHeld, SeenHeld, PastFree, Past
<1>4. ASSUME NEW p \in Procs, ProbePassed(p) PROVE SoloInv'
  BY <1>4 DEF ProbePassed, Step, Running, Alive, Taken, TypeOK, States, Starting, Serving, Numbered,
      SoloInv, Solo, OneStart, FileHeld, SeenHeld, PastFree, Past
<1>5. ASSUME NEW p \in Procs, Fork(p) PROVE SoloInv'
  BY <1>5 DEF Fork, Step, Allot, Taken, TypeOK, States, Starting, Serving, Numbered, SoloInv, Solo,
      OneStart, FileHeld, SeenHeld, PastFree, Past
<1>6. ASSUME NEW p \in Procs, ForkFails(p) PROVE SoloInv'
  BY <1>6
      DEF ForkFails, Event, Step, TypeOK, States, Starting, Serving, Numbered, SoloInv, Solo, OneStart,
      FileHeld, SeenHeld, PastFree, Past
<1>20. ASSUME NEW p \in Procs, NoDaemon(p) PROVE SoloInv'
  BY <1>20 DEF NoDaemon, Step, TypeOK, States, Starting, Serving, Numbered, SoloInv, Solo, OneStart,
      FileHeld, SeenHeld, PastFree, Past
<1>7. ASSUME NEW p \in Procs, InstallHandlers(p) PROVE SoloInv'
  BY <1>7
      DEF InstallHandlers, Step, TypeOK, States, Starting, Serving, Numbered, SoloInv, Solo, OneStart,
      FileHeld, SeenHeld, PastFree, Past
<1>8. ASSUME NEW p \in Procs, Open(p) PROVE SoloInv'
  BY <1>8 DEF Open, Step, TypeOK, States, Starting, Serving, Numbered, SoloInv, Solo, OneStart, FileHeld,
      SeenHeld, PastFree, Past
<1>9. ASSUME NEW p \in Procs, OpenFails(p) PROVE SoloInv'
  BY <1>9
      DEF OpenFails, Event, Step, TypeOK, States, Starting, Serving, Numbered, SoloInv, Solo, OneStart,
      FileHeld, SeenHeld, PastFree, Past
<1>10. ASSUME NEW p \in Procs, Write(p) PROVE SoloInv'
  BY <1>10
      DEF Write, Step, TypeOK, States, Starting, Serving, Numbered, SoloInv, Solo, OneStart, FileHeld,
      SeenHeld, PastFree, Past
<1>11. ASSUME NEW p \in Procs, Stop(p) PROVE SoloInv'
  BY <1>11
      DEF Stop, Step, TypeOK, States, Starting, Serving, Numbered, SoloInv, Solo, OneStart, FileHeld,
      SeenHeld, PastFree, Past
<1>12. ASSUME NEW p \in Procs, Unlink(p) PROVE SoloInv'
  BY <1>12
      DEF Unlink, Step, TypeOK, States, Starting, Serving, Numbered, SoloInv, Solo, OneStart, FileHeld,
      SeenHeld, PastFree, Past
<1>13. ASSUME NEW p \in Procs, Ended(p) PROVE SoloInv'
  BY <1>13
      DEF Ended, Gone, TypeOK, States, Starting, Serving, Numbered, SoloInv, Solo, OneStart, FileHeld,
      SeenHeld, PastFree, Past
<1>14. ASSUME NEW p \in Procs, Crash(p) PROVE SoloInv'
  BY <1>14 DEF Crash, Event, Gone, TypeOK, States, Starting, Serving, Numbered, SoloInv, Solo, OneStart,
      FileHeld, SeenHeld, PastFree, Past
<1>15. CASE ForeignStarts
  BY <1>15 DEF ForeignStarts, Event, Allot, Taken, TypeOK, States, Starting, Serving, Numbered, SoloInv,
      Solo, OneStart, FileHeld, SeenHeld, PastFree, Past
<1>16. CASE ForeignEnds
  BY <1>16
      DEF ForeignEnds, TypeOK, States, Starting, Serving, Numbered, SoloInv, Solo, OneStart, FileHeld,
      SeenHeld, PastFree, Past
<1>17. CASE ControlReads
  BY <1>17
      DEF ControlReads, TypeOK, States, Starting, Serving, Numbered, SoloInv, Solo, OneStart, FileHeld,
      SeenHeld, PastFree, Past
<1>18. CASE ControlStops
  BY <1>18
      DEF ControlStops, Handling, TypeOK, States, Starting, Serving, Numbered, SoloInv, Solo, OneStart,
      FileHeld, SeenHeld, PastFree, Past
<1>19. CASE UNCHANGED vars
  BY <1>19 DEF vars, TypeOK, States, Starting, Serving, Numbered, SoloInv, Solo, OneStart, FileHeld,
      SeenHeld, PastFree, Past
<1> QED BY <1>1, <1>2, <1>3, <1>4, <1>5, <1>6, <1>7, <1>8, <1>9, <1>10, <1>11, <1>12, <1>13, <1>14, <1>15, <1>16, <1>17, <1>18, <1>19, <1>20
    DEF Next, Process

LEMMA SoloAlways == Spec => [](TypeOK /\ Numbered /\ SoloInv)
<1>1. Init => Numbered /\ SoloInv
  BY DEF Init, Numbered, SoloInv, Solo, OneStart, FileHeld, SeenHeld, PastFree, Past, Starting, Serving
<1> QED BY <1>1, PidTypeCorrect, NumberedStep, SoloStep, PTL DEF Spec

(* Unless two starts overlapped there is at most one daemon, whatever ends, *)
(* crashes or fails beside its start.                                       *)
THEOREM OneDaemonAlways == Spec => []OneDaemon
<1>1. TypeOK /\ Numbered /\ SoloInv => OneDaemon
  BY DEF OneDaemon, Numbered, SoloInv, Solo, FileHeld, Serving
<1> QED BY <1>1, SoloAlways, PTL

(* Unless two starts overlapped the file names the daemon that runs. *)
THEOREM FileNames == Spec => []FileNamesDaemon
<1>1. SoloInv => FileNamesDaemon BY DEF FileNamesDaemon, SoloInv, Solo, FileHeld, Serving
<1> QED BY <1>1, SoloAlways, PTL
------------------------------------------------------------------------------
(* A number that the script holds or may read belongs to a process that wrote *)
(* it, or to nobody, or was given out again.                                *)
Fresh == ~reused =>
  /\ ~victim
  /\ \A p \in Procs : pc[p] \in Starting => num[p] # file /\ num[p] # ctl
  /\ \A n \in foreign : n # file /\ n # ctl

LEMMA FreshStep == TypeOK /\ Numbered /\ Fresh /\ [Next]_vars => Fresh'
<1> SUFFICES ASSUME TypeOK, Numbered, Fresh, [Next]_vars PROVE Fresh' OBVIOUS
<1>1. ASSUME NEW p \in Procs, Begin(p) PROVE Fresh'
  BY <1>1 DEF Begin, Event, Step, Allot, Taken, TypeOK, States, Starting, Serving, Numbered, Fresh
<1>2. ASSUME NEW p \in Procs, Read(p) PROVE Fresh'
  BY <1>2 DEF Read, Step, TypeOK, States, Starting, Serving, Numbered, Fresh
<1>3. ASSUME NEW p \in Procs, ProbeRefused(p) PROVE Fresh'
  BY <1>3 DEF ProbeRefused, Gone, Running, Alive, Taken, TypeOK, States, Starting, Serving, Numbered, Fresh
<1>4. ASSUME NEW p \in Procs, ProbePassed(p) PROVE Fresh'
  BY <1>4 DEF ProbePassed, Step, Running, Alive, Taken, TypeOK, States, Starting, Serving, Numbered, Fresh
<1>5. ASSUME NEW p \in Procs, Fork(p) PROVE Fresh'
  BY <1>5 DEF Fork, Step, Allot, Taken, TypeOK, States, Starting, Serving, Numbered, Fresh
<1>6. ASSUME NEW p \in Procs, ForkFails(p) PROVE Fresh'
  BY <1>6 DEF ForkFails, Event, Step, TypeOK, States, Starting, Serving, Numbered, Fresh
<1>20. ASSUME NEW p \in Procs, NoDaemon(p) PROVE Fresh'
  BY <1>20 DEF NoDaemon, Step, TypeOK, States, Starting, Serving, Numbered, Fresh
<1>7. ASSUME NEW p \in Procs, InstallHandlers(p) PROVE Fresh'
  BY <1>7 DEF InstallHandlers, Step, TypeOK, States, Starting, Serving, Numbered, Fresh
<1>8. ASSUME NEW p \in Procs, Open(p) PROVE Fresh'
  BY <1>8 DEF Open, Step, TypeOK, States, Starting, Serving, Numbered, Fresh
<1>9. ASSUME NEW p \in Procs, OpenFails(p) PROVE Fresh'
  BY <1>9 DEF OpenFails, Event, Step, TypeOK, States, Starting, Serving, Numbered, Fresh
<1>10. ASSUME NEW p \in Procs, Write(p) PROVE Fresh'
  BY <1>10 DEF Write, Step, TypeOK, States, Starting, Serving, Numbered, Fresh
<1>11. ASSUME NEW p \in Procs, Stop(p) PROVE Fresh'
  BY <1>11 DEF Stop, Step, TypeOK, States, Starting, Serving, Numbered, Fresh
<1>12. ASSUME NEW p \in Procs, Unlink(p) PROVE Fresh'
  BY <1>12 DEF Unlink, Step, TypeOK, States, Starting, Serving, Numbered, Fresh
<1>13. ASSUME NEW p \in Procs, Ended(p) PROVE Fresh'
  BY <1>13 DEF Ended, Gone, TypeOK, States, Starting, Serving, Numbered, Fresh
<1>14. ASSUME NEW p \in Procs, Crash(p) PROVE Fresh'
  BY <1>14 DEF Crash, Event, Gone, TypeOK, States, Starting, Serving, Numbered, Fresh
<1>15. CASE ForeignStarts
  BY <1>15 DEF ForeignStarts, Event, Allot, Taken, TypeOK, States, Starting, Serving, Numbered, Fresh
<1>16. CASE ForeignEnds
  BY <1>16 DEF ForeignEnds, TypeOK, States, Starting, Serving, Numbered, Fresh
<1>17. CASE ControlReads
  BY <1>17 DEF ControlReads, TypeOK, States, Starting, Serving, Numbered, Fresh
<1>18. CASE ControlStops
  BY <1>18 DEF ControlStops, Handling, TypeOK, States, Starting, Serving, Numbered, Fresh
<1>19. CASE UNCHANGED vars
  BY <1>19 DEF vars, TypeOK, States, Starting, Serving, Numbered, Fresh
<1> QED BY <1>1, <1>2, <1>3, <1>4, <1>5, <1>6, <1>7, <1>8, <1>9, <1>10, <1>11, <1>12, <1>13, <1>14, <1>15, <1>16, <1>17, <1>18, <1>19, <1>20
    DEF Next, Process

(* The control script kills nothing but a daemon that handles its signal,   *)
(* unless the kernel gave the number out anew.                              *)
THEOREM SignalsReach == Spec => []SignalsReachDaemon
<1>1. Init => Numbered /\ Fresh BY DEF Init, Numbered, Fresh, Starting
<1>2. Fresh => SignalsReachDaemon BY DEF Fresh, SignalsReachDaemon, TypeOK
<1> QED BY <1>1, <1>2, PidTypeCorrect, NumberedStep, FreshStep, PTL DEF Spec
=============================================================================

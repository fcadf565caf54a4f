------------------------- MODULE CommandQueue_proofs -------------------------
(****************************************************************************)
(* Theorems about CommandQueue, for every number of commands, months and    *)
(* events.                                                                  *)
(****************************************************************************)
EXTENDS CommandQueue, FiniteSetTheorems, TLAPS

----------------------------------------------------------------------------
(* Type correctness.  The ids stay within the bound because a command is    *)
(* inserted once: the rows and what is delayed are of different commands.   *)
TableType ==
  /\ owner \in [Ids -> Reqs \cup {Nobody}] /\ status \in [Ids -> Statuses]
  /\ nextId \in Nat \ {0} /\ nReq \in 0..MaxReqs
  /\ delayed \subseteq 1..nReq /\ IsFiniteSet(delayed)
  /\ nextId + Cardinality(delayed) <= nReq + 1
  /\ asked \in [Reqs -> CmdKinds \cup {"none"}]

DaemonType ==
  /\ pc \in {"down", "look", "select", "mark", "run", "history", "reset", "final"}
  /\ cid \in Ids \cup {Nobody} /\ job \in Reqs \cup {Nobody}
  /\ cres \in Statuses /\ logrotated \in Months

HistoryType ==
  /\ hmonth \in Months \cup {Never} /\ month \in Months
  /\ ran \in [Reqs -> Nat]
  /\ outcome \in [Reqs -> {"none", "ok", "error"}]
  /\ archived \in [Months -> Nat] /\ unmarked \subseteq Reqs \cup {Nobody}
  /\ events \in Nat

TypeInv == TableType /\ DaemonType /\ HistoryType

LEMMA TypeInvImplies == TypeInv => TypeOK
  <1> SUFFICES ASSUME TypeInv PROVE TypeOK
    OBVIOUS
  <1>1. delayed \subseteq Reqs
    BY QueueBounds DEF TypeInv, TableType, Reqs
  <1>2. Cardinality(delayed) \in Nat
    BY FS_CardinalityType DEF TypeInv, TableType
  <1>3. nextId \in 1..(MaxReqs + 1)
    BY <1>2, QueueBounds DEF TypeInv, TableType
  <1> QED
    BY <1>1, <1>3 DEF TypeInv, TableType, DaemonType, HistoryType, TypeOK

LEMMA StatusValues ==
  /\ Waiting \in Statuses /\ Processing \in Statuses /\ Complete \in Statuses
  /\ DoneWithErrors \in Statuses /\ Skipped \in Statuses
  /\ Processing # Waiting /\ Complete # Waiting /\ DoneWithErrors # Waiting
  /\ Skipped # Waiting
  BY DEF Statuses, Waiting, Processing, Complete, DoneWithErrors, Skipped

(* A command that is put into the table straight away finds an id. *)
LEMMA AddRoom ==
  ASSUME TableType, NEW cmd \in CmdKinds, nReq < MaxReqs, nReq' = nReq + 1,
         asked' = [asked EXCEPT ![nReq'] = cmd], Insert(nReq'), UNCHANGED delayed
  PROVE  TableType'
  <1>1. Cardinality(delayed) \in Nat
    BY FS_CardinalityType DEF TableType
  <1>2. nextId \in Ids /\ nReq' \in Reqs /\ nReq' \in 0..MaxReqs
    BY <1>1, QueueBounds DEF TableType, Ids, Reqs
  <1>3. delayed' \subseteq 1..nReq'
    BY QueueBounds DEF TableType
  <1>4. nextId' \in Nat \ {0} /\ nextId' + Cardinality(delayed') <= nReq' + 1
    BY <1>1 DEF TableType, Insert
  <1> QED
    BY <1>2, <1>3, <1>4, StatusValues DEF TableType, Insert

LEMMA RunsType ==
  ASSUME DaemonType, HistoryType, Runs
  PROVE  ran' \in [Reqs -> Nat]
  <1>1. CASE job \in Reqs
    BY <1>1 DEF Runs, HistoryType
  <1>2. CASE job \notin Reqs
    BY <1>2 DEF Runs, HistoryType
  <1> QED
    BY <1>1, <1>2

LEMMA EndsType ==
  ASSUME DaemonType, HistoryType, NEW how \in {"ok", "error"}, Ends(how)
  PROVE  outcome' \in [Reqs -> {"none", "ok", "error"}]
  BY DEF Ends, HistoryType, DaemonType

LEMMA TypeStep == TypeInv /\ [Next]_vars => TypeInv'
  <1> SUFFICES ASSUME TypeInv, [Next]_vars PROVE TypeInv'
    OBVIOUS
  <1> USE StatusValues DEF TypeInv
  <1>1. CASE UNCHANGED vars
    BY <1>1 DEF vars, TableType, DaemonType, HistoryType
  <1>2. CASE Start
    BY <1>2 DEF Start, TableType, DaemonType, HistoryType, tableVars, askVars, ghostVars
  <1>3. CASE Look
    <2>1. CASE UNCHANGED askVars
      BY <1>3, <2>1 DEF Look, TableType, DaemonType, HistoryType, tableVars, askVars, ghostVars
    <2>2. CASE nReq < MaxReqs /\ nReq' = nReq + 1 /\ delayed' = delayed \cup {nReq'}
               /\ asked' = [asked EXCEPT ![nReq'] = "month"]
      <3>1. nReq' \in Reqs /\ nReq' \in 0..MaxReqs /\ nReq' \notin delayed
        BY <2>2, QueueBounds DEF TableType, Reqs
      <3>2. IsFiniteSet(delayed') /\ Cardinality(delayed') = Cardinality(delayed) + 1
        BY <2>2, <3>1, FS_AddElement DEF TableType
      <3>3. Cardinality(delayed) \in Nat
        BY FS_CardinalityType DEF TableType
      <3>4. delayed' \subseteq 1..nReq'
        BY <2>2, QueueBounds DEF TableType
      <3>5. nextId' = nextId /\ owner' = owner /\ status' = status
        BY <1>3 DEF Look, tableVars
      <3>6. nextId' + Cardinality(delayed') <= nReq' + 1
        BY <2>2, <3>2, <3>3, <3>5 DEF TableType
      <3>7. TableType'
        BY <2>2, <3>1, <3>2, <3>4, <3>5, <3>6 DEF TableType, CmdKinds
      <3> QED
        BY <1>3, <3>7 DEF Look, DaemonType, HistoryType, ghostVars
    <2> QED
      BY <1>3, <2>1, <2>2 DEF Look
  <1>4. CASE SelectNone
    BY <1>4 DEF SelectNone, TableType, DaemonType, HistoryType, tableVars, askVars, ghostVars
  <1>5. CASE SelectRow
    <2>1. PICK i \in Rows :
            /\ cid' = i /\ job' = owner[i]
            /\ cres' \in {Complete, Skipped, Processing} /\ pc' \in {"final", "mark"}
            /\ outcome' = outcome \/ outcome' = [outcome EXCEPT ![owner[i]] = "ok"]
      BY <1>5 DEF SelectRow
    <2>2. i \in Ids /\ owner[i] \in Reqs
      BY DEF Rows, TableType
    <2>3. TableType'
      BY <1>5 DEF SelectRow, TableType, tableVars, askVars
    <2>4. DaemonType'
      BY <1>5, <2>1, <2>2 DEF SelectRow, DaemonType
    <2>5. HistoryType'
      BY <1>5, <2>1, <2>2 DEF SelectRow, HistoryType
    <2> QED
      BY <2>3, <2>4, <2>5
  <1>6. CASE Mark
    BY <1>6 DEF Mark, SetStatus, Spend, TableType, DaemonType, HistoryType, askVars, ghostVars
  <1>7. CASE RunReconf
    <2>1. outcome' \in [Reqs -> {"none", "ok", "error"}]
      BY <1>7, EndsType DEF RunReconf
    <2>2. ran' \in [Reqs -> Nat]
      BY <1>7, RunsType DEF RunReconf
    <2>3. TableType' /\ DaemonType'
      BY <1>7 DEF RunReconf, TableType, DaemonType, tableVars, askVars
    <2> QED
      BY <1>7, <2>1, <2>2, <2>3 DEF RunReconf, Spend, HistoryType
  <1>8. CASE RunRecount
    <2>1. outcome' \in [Reqs -> {"none", "ok", "error"}]
      BY <1>8, EndsType DEF RunRecount
    <2>2. ran' \in [Reqs -> Nat]
      BY <1>8, RunsType DEF RunRecount
    <2>3. TableType' /\ DaemonType'
      BY <1>8 DEF RunRecount, TableType, DaemonType, tableVars, askVars
    <2> QED
      BY <1>8, <2>1, <2>2, <2>3 DEF RunRecount, Spend, HistoryType
  <1>9. CASE RunMonth
    <2>1. ran' \in [Reqs -> Nat]
      BY <1>9, RunsType DEF RunMonth
    <2> QED
      BY <1>9, <2>1 DEF RunMonth, TableType, DaemonType, HistoryType, tableVars, askVars
  <1>10. CASE SignalMonth
    BY <1>10 DEF SignalMonth, Spend, TableType, DaemonType, HistoryType, tableVars, askVars, ghostVars
  <1>11. CASE MonthHistory
    BY <1>11 DEF MonthHistory, MonthEnds, Ends, Spend, TableType, DaemonType, HistoryType, tableVars, askVars
  <1>12. CASE MonthReset
    BY <1>12 DEF MonthReset, MonthEnds, Ends, Spend, TableType, DaemonType, HistoryType, tableVars, askVars
  <1>13. CASE Final
    BY <1>13 DEF Final, SetStatus, Spend, TableType, DaemonType, HistoryType, askVars, ghostVars
  <1>14. CASE DelayedInsert
    <2>1. PICK r \in delayed : Insert(r) /\ delayed' = delayed \ {r}
      BY <1>14 DEF DelayedInsert
    <2>2. IsFiniteSet(delayed') /\ Cardinality(delayed') = Cardinality(delayed) - 1
      BY <2>1, FS_RemoveElement DEF TableType
    <2>3. Cardinality(delayed) \in Nat /\ Cardinality(delayed') \in Nat
      BY <2>2, FS_CardinalityType DEF TableType
    <2>4. nextId \in Ids /\ r \in Reqs
      BY <2>2, <2>3, QueueBounds DEF TableType, Ids, Reqs
    <2>5. nReq' = nReq /\ asked' = asked
      BY <1>14 DEF DelayedInsert
    <2>6. nextId' \in Nat \ {0} /\ nextId' + Cardinality(delayed') <= nReq' + 1
      BY <2>1, <2>2, <2>3, <2>5 DEF TableType, Insert
    <2>7. TableType'
      BY <2>1, <2>2, <2>4, <2>5, <2>6 DEF TableType, Insert
    <2> QED
      BY <1>14, <2>7 DEF DelayedInsert, DaemonType, HistoryType, daemonVars, ghostVars
  <1>15. CASE DelayedLost
    <2>1. Cardinality(delayed) \in Nat
      BY FS_CardinalityType DEF TableType
    <2>2. delayed' = {} /\ IsFiniteSet(delayed') /\ Cardinality(delayed') = 0
      BY <1>15, FS_EmptySet DEF DelayedLost
    <2>3. TableType'
      BY <1>15, <2>1, <2>2 DEF DelayedLost, TableType, tableVars
    <2> QED
      BY <1>15, <2>3 DEF DelayedLost, Spend, DaemonType, HistoryType, daemonVars, ghostVars
  <1>16. CASE \E cmd \in CmdKinds : PageAdd(cmd)
    <2>1. TableType'
      BY <1>16, AddRoom DEF PageAdd
    <2> QED
      BY <1>16, <2>1 DEF PageAdd, Spend, DaemonType, HistoryType, daemonVars, ghostVars
  <1>17. CASE PageClean
    <2>1. Cardinality(delayed) \in Nat
      BY FS_CardinalityType DEF TableType
    <2>2. nextId' \in Nat \ {0} /\ nextId' + Cardinality(delayed) <= nReq + 1
      BY <1>17, <2>1 DEF PageClean, TableType
    <2>3. TableType'
      BY <1>17, <2>2 DEF PageClean, TableType, askVars
    <2> QED
      BY <1>17, <2>3 DEF PageClean, Spend, DaemonType, HistoryType, daemonVars, ghostVars
  <1>18. CASE PageMark
    BY <1>18 DEF PageMark, Spend, TableType, DaemonType, HistoryType, askVars, daemonVars, ghostVars
  <1>19. CASE Crash
    BY <1>19, QueueBounds DEF Crash, Spend, TableType, DaemonType, HistoryType, tableVars, askVars, ghostVars, Months, Statuses
  <1>20. CASE NextMonth
    BY <1>20, QueueBounds DEF NextMonth, TableType, DaemonType, HistoryType, tableVars, askVars, daemonVars, ghostVars, Months
  <1> QED
    BY <1>1, <1>2, <1>3, <1>4, <1>5, <1>6, <1>7, <1>8, <1>9, <1>10, <1>11, <1>12,
       <1>13, <1>14, <1>15, <1>16, <1>17, <1>18, <1>19, <1>20
    DEF Next, Daemon, Page

LEMMA TypeInit == Init => TypeInv
  <1> SUFFICES ASSUME Init PROVE TypeInv
    OBVIOUS
  <1>1. IsFiniteSet(delayed) /\ Cardinality(delayed) = 0
    BY FS_EmptySet DEF Init
  <1>2. TableType
    BY <1>1, StatusValues, QueueBounds DEF Init, TableType
  <1>3. DaemonType
    BY QueueBounds DEF Init, DaemonType, Statuses, Months
  <1>4. HistoryType
    BY QueueBounds DEF Init, HistoryType, Months, Never
  <1> QED
    BY <1>2, <1>3, <1>4 DEF TypeInv

(* The rows, the calendar and the daemon's variables stay well typed; above *)
(* all, the ids never run out.                                              *)
THEOREM QueueTypeCorrect == Spec => []TypeOK
  <1>1. Init => TypeInv
    BY TypeInit
  <1>2. TypeInv /\ [Next]_vars => TypeInv'
    BY TypeStep
  <1>3. TypeInv => TypeOK
    BY TypeInvImplies
  <1> QED
    BY <1>1, <1>2, <1>3, PTL DEF Spec

----------------------------------------------------------------------------
(* At most once.  ran is not enough for an induction: a command must not    *)
(* have run as long as it can still be picked, that is while it is delayed, *)
(* waits in a row, or is the daemon's and not yet run; and the row of the   *)
(* one that runs must not wait any more.                                    *)
Fresh ==
  /\ \A r \in Reqs : r > nReq \/ r \in delayed => ran[r] = 0
  /\ \A i \in Rows : owner[i] \in 1..nReq /\ owner[i] \notin delayed /\ i < nextId

RowsApart == \A i, j \in Rows : owner[i] = owner[j] => i = j

WaitingNotRun ==
  \A i \in Rows : status[i] = Waiting /\ owner[i] \notin unmarked => ran[owner[i]] = 0

JobNotRun ==
  pc \in {"mark", "run"} =>
    /\ job \in 1..nReq /\ job \notin delayed
    /\ job \notin unmarked =>
         /\ ran[job] = 0
         /\ \A i \in Rows : owner[i] = job /\ status[i] = Waiting => pc = "mark" /\ i = cid

NoRowReopened == pc \in {"mark", "final"} => cres # Waiting

OnceInv ==
  TypeInv /\ AtMostOnce /\ Fresh /\ RowsApart /\ WaitingNotRun /\ JobNotRun /\ NoRowReopened

onceVars == <<owner, status, nextId, delayed, nReq, ran, unmarked>>

(* Steps that leave table and ran alone and pick no command. *)
LEMMA OtherStep ==
  ASSUME OnceInv, TypeInv', UNCHANGED onceVars,
         pc' \in {"mark", "run"} => FALSE,
         pc' = "final" => cres' # Waiting
  PROVE  OnceInv'
  BY DEF OnceInv, onceVars, AtMostOnce, Fresh, RowsApart, WaitingNotRun, JobNotRun,
         NoRowReopened, Rows

(* A command begins to run. *)
LEMMA RunStep ==
  ASSUME OnceInv, TypeInv', pc = "run", Runs,
         UNCHANGED <<owner, status, nextId, delayed, nReq, unmarked>>,
         pc' \in {"final", "history"}, pc' = "final" => cres' # Waiting
  PROVE  OnceInv'
  <1>1. job \in 1..nReq /\ job \in Reqs /\ job \notin delayed
    BY QueueBounds DEF OnceInv, JobNotRun, TypeInv, TableType, Reqs
  <1>2. /\ job \notin unmarked => ran'[job] = 1
        /\ \A r \in Reqs : r # job => ran'[r] = ran[r]
    BY <1>1 DEF Runs, OnceInv, JobNotRun, TypeInv, HistoryType
  <1>3. ran \in [Reqs -> Nat] /\ nReq \in Nat
    BY QueueBounds DEF OnceInv, TypeInv, HistoryType, TableType
  <1>4. AtMostOnce'
    BY <1>1, <1>2, <1>3 DEF OnceInv, AtMostOnce
  <1>5. Fresh'
    BY <1>1, <1>2, <1>3 DEF OnceInv, Fresh, Rows
  <1>6. RowsApart'
    BY DEF OnceInv, RowsApart, Rows
  <1>7. WaitingNotRun'
    <2> SUFFICES ASSUME NEW i \in Rows, status[i] = Waiting, owner[i] \notin unmarked
                 PROVE  ran'[owner[i]] = 0
      BY DEF WaitingNotRun, Rows
    <2>1. owner[i] # job /\ ran[owner[i]] = 0
      BY DEF OnceInv, JobNotRun, WaitingNotRun
    <2>2. owner[i] \in Reqs
      BY DEF OnceInv, TypeInv, TableType, Rows
    <2> QED
      BY <1>2, <1>3, <2>1, <2>2
  <1>8. JobNotRun' /\ NoRowReopened'
    BY DEF JobNotRun, NoRowReopened
  <1> QED
    BY <1>4, <1>5, <1>6, <1>7, <1>8 DEF OnceInv

(* A row's status changes, but never to Waiting. *)
LEMMA SettleStep ==
  ASSUME OnceInv, TypeInv', UNCHANGED <<owner, nextId, delayed, nReq, ran, unmarked>>,
         \A i \in Rows : status'[i] = Waiting => status[i] = Waiting,
         UNCHANGED <<pc, job, cid, cres>> \/ pc' = "look"
  PROVE  OnceInv'
  BY DEF OnceInv, AtMostOnce, Fresh, RowsApart, WaitingNotRun, JobNotRun,
         NoRowReopened, Rows

(* A row is inserted for a command that has none. *)
LEMMA InsertStep ==
  ASSUME OnceInv, TypeInv', UNCHANGED <<ran, unmarked, pc, job, cid, cres>>,
         NEW r \in Reqs, Insert(r), nextId \in Ids,
         r \in delayed \/ r = nReq + 1,
         nReq' \in {nReq, nReq + 1}, r <= nReq', delayed' = delayed \ {r}
  PROVE  OnceInv'
  <1>1. Rows' = Rows \cup {nextId} /\ nextId \notin Rows
    BY QueueBounds DEF OnceInv, Fresh, Rows, Insert, TypeInv, TableType, Ids, Reqs, Nobody
  <1>2. /\ owner'[nextId] = r /\ status'[nextId] = Waiting
        /\ \A i \in Rows : owner'[i] = owner[i] /\ status'[i] = status[i]
    BY <1>1 DEF Insert, OnceInv, TypeInv, TableType, Rows
  <1>3. /\ nReq \in Nat /\ nReq' \in Nat /\ nextId \in Nat /\ nextId' = nextId + 1
        /\ \A i \in Rows : i \in Nat
    BY QueueBounds DEF OnceInv, TypeInv, TableType, Insert, Rows, Ids
  <1>4. ran[r] = 0 /\ \A i \in Rows : owner[i] # r
    BY <1>3 DEF OnceInv, Fresh, Reqs
  <1>5. AtMostOnce'
    BY DEF OnceInv, AtMostOnce
  <1>6. Fresh'
    <2>1. \A s \in Reqs : s > nReq' \/ s \in delayed' => ran'[s] = 0
      BY <1>3 DEF OnceInv, Fresh, Reqs
    <2>2. \A i \in Rows' : owner'[i] \in 1..nReq' /\ owner'[i] \notin delayed' /\ i < nextId'
      BY <1>1, <1>2, <1>3 DEF OnceInv, Fresh, Reqs
    <2> QED
      BY <2>1, <2>2 DEF Fresh
  <1>7. RowsApart'
    BY <1>1, <1>2, <1>4 DEF OnceInv, RowsApart
  <1>8. WaitingNotRun'
    BY <1>1, <1>2, <1>4 DEF OnceInv, WaitingNotRun
  <1>9. JobNotRun'
    <2> SUFFICES ASSUME pc \in {"mark", "run"}
                 PROVE  /\ job \in 1..nReq' /\ job \notin delayed'
                        /\ job \notin unmarked =>
                             /\ ran[job] = 0
                             /\ \A i \in Rows' : owner'[i] = job /\ status'[i] = Waiting
                                  => pc = "mark" /\ i = cid
      BY DEF JobNotRun
    <2>1. /\ job \in 1..nReq /\ job \notin delayed
          /\ job \notin unmarked =>
               /\ ran[job] = 0
               /\ \A i \in Rows : owner[i] = job /\ status[i] = Waiting => pc = "mark" /\ i = cid
      BY DEF OnceInv, JobNotRun
    <2>2. job # r
      BY <1>3, <2>1
    <2> QED
      BY <1>1, <1>2, <1>3, <2>1, <2>2
  <1>10. NoRowReopened'
    BY DEF OnceInv, NoRowReopened
  <1> QED
    BY <1>5, <1>6, <1>7, <1>8, <1>9, <1>10 DEF OnceInv

LEMMA OnceInit == Init => OnceInv
  BY TypeInit DEF Init, OnceInv, AtMostOnce, Fresh, RowsApart, WaitingNotRun, JobNotRun,
                  NoRowReopened, Rows, Reqs, Nobody

LEMMA OnceStep ==
  ASSUME OnceInv, [Next]_vars
  PROVE  OnceInv'
  <1>0. TypeInv'
    BY TypeStep DEF OnceInv
  <1> USE StatusValues
  <1>1. CASE UNCHANGED vars
    BY <1>0, <1>1, SettleStep DEF vars
  <1>2. CASE Start
    BY <1>0, <1>2, OtherStep DEF Start, tableVars, askVars, ghostVars, onceVars
  <1>3. CASE Look
    <2>1. CASE UNCHANGED askVars
      BY <1>0, <1>3, <2>1, OtherStep DEF Look, tableVars, askVars, ghostVars, onceVars
    <2>2. CASE nReq' = nReq + 1 /\ delayed' = delayed \cup {nReq'}
      <3>1. UNCHANGED <<owner, status, nextId, ran, unmarked>> /\ pc' = "select"
        BY <1>3 DEF Look, tableVars, ghostVars
      <3>2. nReq \in Nat /\ nReq' \in Nat
        BY <2>2, QueueBounds DEF OnceInv, TypeInv, TableType
      <3>3. Fresh'
        BY <2>2, <3>1, <3>2 DEF OnceInv, Fresh, Rows, Reqs
      <3> QED
        BY <1>0, <3>1, <3>3 DEF OnceInv, AtMostOnce, RowsApart, WaitingNotRun, JobNotRun,
                                NoRowReopened, Rows
    <2> QED
      BY <1>3, <2>1, <2>2 DEF Look
  <1>4. CASE SelectNone
    BY <1>0, <1>4, OtherStep DEF SelectNone, tableVars, askVars, ghostVars, onceVars
  <1>5. CASE SelectRow
    <2>1. PICK i \in Rows :
            /\ status[i] = Waiting /\ cid' = i /\ job' = owner[i]
            /\ cres' \in {Complete, Skipped, Processing} /\ pc' \in {"final", "mark"}
      BY <1>5 DEF SelectRow
    <2>2. UNCHANGED onceVars
      BY <1>5 DEF SelectRow, tableVars, askVars, onceVars
    <2>3. JobNotRun'
      BY <2>1, <2>2 DEF OnceInv, Fresh, RowsApart, WaitingNotRun, JobNotRun, onceVars, Rows
    <2>4. NoRowReopened'
      BY <2>1 DEF NoRowReopened
    <2> QED
      BY <1>0, <2>2, <2>3, <2>4 DEF OnceInv, onceVars, AtMostOnce, Fresh, RowsApart,
                                    WaitingNotRun, Rows
  <1>6. CASE Mark
    <2>1. /\ cres # Waiting /\ pc = "mark" /\ pc' = "run"
          /\ UNCHANGED <<owner, nextId, delayed, nReq, ran, cid, job, cres>>
      BY <1>6 DEF Mark, OnceInv, NoRowReopened, askVars
    <2>2. CASE SetStatus(cid, cres) /\ unmarked' = unmarked
      <3>1. \A i \in Rows : status'[i] = Waiting => status[i] = Waiting /\ i # cid
        BY <2>1, <2>2 DEF SetStatus, OnceInv, TypeInv, TableType, Rows
      <3>2. JobNotRun'
        BY <2>1, <2>2, <3>1 DEF OnceInv, JobNotRun, Rows
      <3>3. NoRowReopened'
        BY <2>1 DEF NoRowReopened
      <3> QED
        BY <1>0, <2>1, <2>2, <3>1, <3>2, <3>3 DEF OnceInv, AtMostOnce, Fresh, RowsApart,
                                                  WaitingNotRun, Rows
    <2>3. CASE status' = status /\ unmarked' = unmarked \cup {job}
      BY <1>0, <2>1, <2>3 DEF OnceInv, AtMostOnce, Fresh, RowsApart, WaitingNotRun,
                              JobNotRun, NoRowReopened, Rows
    <2> QED
      BY <1>6, <2>2, <2>3 DEF Mark
  <1>7. CASE RunReconf
    BY <1>0, <1>7, RunStep DEF RunReconf, tableVars, askVars
  <1>8. CASE RunRecount
    BY <1>0, <1>8, RunStep DEF RunRecount, tableVars, askVars
  <1>9. CASE RunMonth
    BY <1>0, <1>9, RunStep DEF RunMonth, tableVars, askVars
  <1>10. CASE SignalMonth
    BY <1>0, <1>10, OtherStep DEF SignalMonth, tableVars, askVars, ghostVars, onceVars
  <1>11. CASE MonthHistory
    BY <1>0, <1>11, OtherStep DEF MonthHistory, MonthEnds, tableVars, askVars, onceVars
  <1>12. CASE MonthReset
    BY <1>0, <1>12, OtherStep DEF MonthReset, MonthEnds, tableVars, askVars, onceVars
  <1>13. CASE Final
    <2>1. (SetStatus(cid, cres) \/ status' = status) /\ cres # Waiting /\ pc' = "look"
      BY <1>13 DEF Final, OnceInv, NoRowReopened
    <2>2. UNCHANGED <<owner, nextId, delayed, nReq, ran, unmarked>>
      BY <1>13 DEF Final, askVars, ghostVars
    <2>3. \A i \in Rows : status'[i] = Waiting => status[i] = Waiting
      BY <2>1 DEF SetStatus, OnceInv, TypeInv, TableType, Rows
    <2> QED
      BY <1>0, <2>1, <2>2, <2>3, SettleStep
  <1>14. CASE DelayedInsert
    <2>1. PICK r \in delayed : Insert(r) /\ delayed' = delayed \ {r}
      BY <1>14 DEF DelayedInsert
    <2>2. r \in Reqs /\ r <= nReq /\ nReq \in Nat
      BY <2>1, QueueBounds DEF OnceInv, TypeInv, TableType, Reqs
    <2>3. Cardinality(delayed') \in Nat /\ nextId' = nextId + 1
      BY <1>0, <2>1, FS_CardinalityType DEF TypeInv, TableType, Insert
    <2>4. nextId \in Ids
      BY <1>0, <2>3, QueueBounds DEF OnceInv, TypeInv, TableType, Ids
    <2>5. UNCHANGED <<nReq, ran, unmarked, pc, job, cid, cres>>
      BY <1>14 DEF DelayedInsert, daemonVars, ghostVars
    <2> QED
      BY <1>0, <2>1, <2>2, <2>4, <2>5, InsertStep
  <1>15. CASE DelayedLost
    <2>1. UNCHANGED <<owner, status, nextId, nReq, ran, unmarked, pc, job, cid, cres>> /\ delayed' = {}
      BY <1>15 DEF DelayedLost, tableVars, daemonVars, ghostVars
    <2> QED
      BY <1>0, <2>1 DEF OnceInv, AtMostOnce, Fresh, RowsApart, WaitingNotRun, JobNotRun,
                        NoRowReopened, Rows
  <1>16. CASE \E cmd \in CmdKinds : PageAdd(cmd)
    <2>1. /\ nReq < MaxReqs /\ nReq' = nReq + 1 /\ Insert(nReq')
          /\ UNCHANGED <<delayed, ran, unmarked, pc, job, cid, cres>>
      BY <1>16 DEF PageAdd, daemonVars, ghostVars
    <2>2. nReq' \in Reqs /\ nReq' \notin delayed /\ nReq' <= nReq'
      BY <2>1, QueueBounds DEF OnceInv, TypeInv, TableType, Reqs
    <2>3. Cardinality(delayed) \in Nat
      BY FS_CardinalityType DEF OnceInv, TypeInv, TableType
    <2>4. nextId \in Ids
      BY <2>1, <2>3, QueueBounds DEF OnceInv, TypeInv, TableType, Ids
    <2>5. delayed' = delayed \ {nReq'}
      BY <2>1, <2>2
    <2> QED
      BY <1>0, <2>1, <2>2, <2>4, <2>5, InsertStep
  <1>17. CASE PageClean
    <2>1. UNCHANGED <<delayed, nReq, ran, unmarked, pc, job, cid, cres>>
      BY <1>17 DEF PageClean, askVars, daemonVars, ghostVars
    <2>2. Rows' = {}
      BY <1>17 DEF PageClean, Rows
    <2> QED
      BY <1>0, <2>1, <2>2 DEF OnceInv, AtMostOnce, Fresh, RowsApart, WaitingNotRun, JobNotRun,
                              NoRowReopened
  <1>18. CASE PageMark
    <2>1. \A i \in Rows : status'[i] = Waiting => status[i] = Waiting
      BY <1>18 DEF PageMark, Rows
    <2> QED
      BY <1>0, <1>18, <2>1, SettleStep DEF PageMark, askVars, daemonVars, ghostVars
  <1>19. CASE Crash
    BY <1>0, <1>19, OtherStep DEF Crash, tableVars, askVars, ghostVars, onceVars
  <1>20. CASE NextMonth
    BY <1>0, <1>20, SettleStep DEF NextMonth, tableVars, askVars, daemonVars, ghostVars
  <1> QED
    BY <1>1, <1>2, <1>3, <1>4, <1>5, <1>6, <1>7, <1>8, <1>9, <1>10, <1>11, <1>12,
       <1>13, <1>14, <1>15, <1>16, <1>17, <1>18, <1>19, <1>20
    DEF Next, Daemon, Page

(* No command whose mark was written runs twice: wherever the daemon ends,  *)
(* whatever the pages do to the table, and also when its ids start again.   *)
THEOREM RunsAtMostOnce == Spec => []AtMostOnce
  <1>1. Init => OnceInv
    BY OnceInit
  <1>2. OnceInv /\ [Next]_vars => OnceInv'
    BY OnceStep
  <1>3. OnceInv => AtMostOnce
    BY DEF OnceInv
  <1> QED
    BY <1>1, <1>2, <1>3, PTL DEF Spec

----------------------------------------------------------------------------
(* A row that is not there yet. *)
LEMMA InsertRow ==
  ASSUME OnceInv, nextId \in Ids, NEW r \in Reqs, Insert(r)
  PROVE  /\ nextId \notin Rows /\ Rows' = Rows \cup {nextId}
         /\ owner'[nextId] = r /\ status'[nextId] = Waiting
         /\ \A i \in Rows : owner'[i] = owner[i] /\ status'[i] = status[i]
  <1>1. nextId \notin Rows /\ \A i \in Rows : i \in Ids
    BY QueueBounds DEF OnceInv, Fresh, Rows, Ids
  <1>2. r # Nobody
    BY QueueBounds DEF Reqs, Nobody
  <1> QED
    BY <1>1, <1>2 DEF Insert, OnceInv, TypeInv, TableType, Rows

LEMMA NextIdRoom ==
  ASSUME TypeInv, TypeInv', nextId' = nextId + 1
  PROVE  nextId \in Ids
  <1>1. Cardinality(delayed') \in Nat
    BY FS_CardinalityType DEF TypeInv, TableType
  <1> QED
    BY <1>1, QueueBounds DEF TypeInv, TableType, Ids

LEMMA OnceAlways == Spec => []OnceInv
  BY OnceInit, OnceStep, PTL DEF Spec

----------------------------------------------------------------------------
(* Complete is true.  While nobody empties the table, the row the daemon    *)
(* read is still its command's when it marks it for the second time, and    *)
(* no other row is of that command.  The jobs that report a success all     *)
(* the same are those of monthly.sql, of a stale squid.pid and of a         *)
(* squid.conf that cannot be written.                                       *)
Honest ==
  Faults \cap {"monthsql", "deadsquid", "noconf"} = {} /\ "clean" \notin Asks

AtWork == pc \in {"mark", "run", "history", "reset", "final"} /\ job # Nobody

OwnRow == AtWork => cid \in Rows /\ owner[cid] = job /\ status[cid] # Complete

JobTold ==
  /\ pc \in {"mark", "run", "final"} => job # Nobody
  /\ pc = "mark" => cres = Processing

ResultIsTrue == pc = "final" /\ cres = Complete => outcome[job] = "ok"

TruthInv == CompleteIsTrue /\ OwnRow /\ JobTold /\ ResultIsTrue

(* Steps that leave the table and the outcomes alone. *)
LEMMA TruthSame ==
  ASSUME TruthInv, UNCHANGED <<owner, status, outcome>>,
         \/ UNCHANGED <<pc, cid, job, cres>>
         \/ /\ pc' \in {"run", "history", "reset"} /\ AtWork /\ UNCHANGED <<cid, job>>
         \/ /\ pc' \in {"history", "reset"} /\ job' = Nobody
         \/ pc' \in {"down", "look", "select"}
  PROVE  TruthInv'
  BY DEF TruthInv, CompleteIsTrue, OwnRow, AtWork, JobTold, ResultIsTrue, Rows

(* A command ends, and its row is not yet marked. *)
LEMMA TruthEnds ==
  ASSUME OnceInv, TruthInv, pc \in {"run", "history", "reset"},
         NEW how \in {"ok", "error"}, Ends(how),
         cres' = Complete => how = "ok",
         pc' = (IF job = Nobody THEN "look" ELSE "final"),
         UNCHANGED <<owner, status, cid, job>>
  PROVE  TruthInv'
  <1>1. CASE job = Nobody
    <2>1. outcome' = outcome /\ pc' = "look"
      BY <1>1 DEF Ends
    <2> QED BY <2>1, TruthSame
  <1>2. CASE job # Nobody
    <2>1. /\ AtWork /\ cid \in Rows /\ owner[cid] = job /\ status[cid] # Complete
          /\ pc' = "final"
      BY <1>2 DEF TruthInv, OwnRow, AtWork
    <2>2. job \in Reqs /\ outcome \in [Reqs -> {"none", "ok", "error"}]
      BY <1>2 DEF OnceInv, TypeInv, DaemonType, HistoryType
    <2>3. outcome'[job] = how /\ \A r \in Reqs : r # job => outcome'[r] = outcome[r]
      BY <1>2, <2>2 DEF Ends
    <2>4. ASSUME NEW i \in Rows, status[i] = Complete PROVE outcome'[owner[i]] = "ok"
      <3>1. owner[i] # job
        BY <2>1, <2>4 DEF OnceInv, RowsApart
      <3>2. owner[i] \in Reqs
        BY DEF OnceInv, TypeInv, TableType, Rows
      <3> QED BY <2>3, <2>4, <3>1, <3>2 DEF TruthInv, CompleteIsTrue
    <2>5. CompleteIsTrue'
      BY <2>4 DEF CompleteIsTrue, Rows
    <2> QED
      BY <1>2, <2>1, <2>3, <2>5 DEF TruthInv, OwnRow, AtWork, JobTold, ResultIsTrue, Rows
  <1> QED BY <1>1, <1>2

(* A row is marked: the daemon's own, or one that waits. *)
LEMMA TruthMarks ==
  ASSUME OnceInv, TruthInv, UNCHANGED <<owner, outcome, cid, job, cres>>,
         \/ pc = "mark" /\ pc' = "run"
         \/ pc = "final" /\ pc' = "look"
         \/ pc' = pc,
         \A i \in Rows :
           \/ status'[i] \in {status[i], Processing, Skipped}
           \/ pc = "final" /\ pc' = "look" /\ i = cid /\ status'[i] = cres
  PROVE  TruthInv'
  <1>1. Processing # Complete /\ Skipped # Complete
    BY DEF Processing, Skipped, Complete
  <1>2. pc = "final" => AtWork
    BY DEF TruthInv, JobTold, AtWork
  <1>3. ASSUME NEW i \in Rows, status'[i] = Complete PROVE outcome[owner[i]] = "ok"
    <2>1. CASE pc = "final" /\ i = cid /\ status'[i] = cres
      BY <1>2, <1>3, <2>1 DEF TruthInv, OwnRow, ResultIsTrue
    <2>2. CASE status'[i] \in {status[i], Processing, Skipped}
      BY <1>1, <1>3, <2>2 DEF TruthInv, CompleteIsTrue
    <2> QED BY <2>1, <2>2
  <1>4. CompleteIsTrue'
    BY <1>3 DEF CompleteIsTrue, Rows
  <1>5. OwnRow'
    <2>1. ASSUME AtWork' PROVE AtWork /\ pc' # "look"
      BY <2>1 DEF AtWork
    <2>2. ASSUME AtWork' PROVE status'[cid] # Complete
      <3>1. AtWork /\ cid \in Rows /\ status[cid] # Complete
        BY <2>1, <2>2 DEF TruthInv, OwnRow
      <3> QED BY <1>1, <2>1, <2>2, <3>1
    <2> QED BY <2>1, <2>2 DEF TruthInv, OwnRow, Rows
  <1> QED BY <1>4, <1>5 DEF TruthInv, JobTold, ResultIsTrue

(* A row is inserted, of no status to speak of. *)
LEMMA TruthInsert ==
  ASSUME OnceInv, TruthInv, nextId \in Ids, NEW r \in Reqs, Insert(r),
         UNCHANGED <<pc, cid, job, cres, outcome>>
  PROVE  TruthInv'
  <1>1. /\ nextId \notin Rows /\ Rows' = Rows \cup {nextId}
        /\ owner'[nextId] = r /\ status'[nextId] = Waiting
        /\ \A i \in Rows : owner'[i] = owner[i] /\ status'[i] = status[i]
    BY InsertRow
  <1>2. CompleteIsTrue'
    BY <1>1, StatusValues DEF TruthInv, CompleteIsTrue
  <1>3. OwnRow'
    BY <1>1 DEF TruthInv, OwnRow, AtWork
  <1> QED BY <1>2, <1>3 DEF TruthInv, JobTold, ResultIsTrue

LEMMA TruthSelect ==
  ASSUME OnceInv, TruthInv, SelectRow
  PROVE  TruthInv'
  <1>1. PICK i \in Rows :
          /\ status[i] = Waiting /\ cid' = i /\ job' = owner[i]
          /\ \/ pc' = "final" /\ outcome' = [outcome EXCEPT ![owner[i]] = "ok"]
             \/ pc' = "mark" /\ cres' = Processing /\ outcome' = outcome
    BY DEF SelectRow
  <1>2. UNCHANGED <<owner, status>>
    BY DEF SelectRow, tableVars
  <1>3. owner[i] \in Reqs /\ owner[i] # Nobody /\ \A j \in Rows : owner[j] \in Reqs
    BY DEF OnceInv, TypeInv, TableType, Rows
  <1>4. \A s \in Reqs : outcome[s] = "ok" => outcome'[s] = "ok"
    BY <1>1, <1>3 DEF OnceInv, TypeInv, HistoryType
  <1>5. CompleteIsTrue'
    BY <1>2, <1>3, <1>4 DEF TruthInv, CompleteIsTrue, Rows
  <1>6. OwnRow' /\ JobTold'
    BY <1>1, <1>2, <1>3, StatusValues DEF OwnRow, JobTold, Rows
  <1>7. ResultIsTrue'
    BY <1>1, <1>3 DEF ResultIsTrue, OnceInv, TypeInv, HistoryType
  <1> QED BY <1>5, <1>6, <1>7 DEF TruthInv

LEMMA TruthInit == Init => TruthInv
  BY DEF Init, TruthInv, CompleteIsTrue, OwnRow, AtWork, JobTold, ResultIsTrue, Rows

LEMMA TruthStep ==
  ASSUME Honest, OnceInv, OnceInv', TruthInv, [Next]_vars
  PROVE  TruthInv'
  <1>0. /\ "monthsql" \notin Faults /\ "deadsquid" \notin Faults
        /\ "noconf" \notin Faults /\ "clean" \notin Asks
    BY DEF Honest
  <1>1. CASE UNCHANGED vars
    BY <1>1, TruthSame DEF vars
  <1>2. CASE Start \/ Look \/ SelectNone \/ Crash
    BY <1>2, TruthSame DEF Start, Look, SelectNone, Crash, tableVars, ghostVars
  <1>3. CASE SelectRow
    BY <1>3, TruthSelect
  <1>4. CASE Mark
    <2>1. /\ pc = "mark" /\ pc' = "run" /\ cres = Processing
          /\ UNCHANGED <<owner, outcome, cid, job, cres>>
      BY <1>4 DEF Mark, TruthInv, JobTold
    <2>2. \A i \in Rows : status'[i] \in {status[i], Processing, Skipped}
      BY <1>4, <2>1 DEF Mark, SetStatus, Rows, OnceInv, TypeInv, TableType
    <2> QED BY <2>1, <2>2, TruthMarks
  <1>5. CASE RunReconf
    BY <1>0, <1>5, TruthEnds DEF RunReconf, tableVars, TruthInv, JobTold
  <1>6. CASE RunRecount
    <2>1. DoneWithErrors # Complete
      BY DEF DoneWithErrors, Complete
    <2> QED
      BY <1>6, <2>1, TruthEnds DEF RunRecount, tableVars, TruthInv, JobTold
  <1>7. CASE RunMonth
    BY <1>7, TruthSame DEF RunMonth, tableVars, AtWork, TruthInv, JobTold
  <1>8. CASE SignalMonth
    BY <1>8, TruthSame DEF SignalMonth, tableVars, ghostVars
  <1>9. CASE MonthHistory
    <2>1. pc = "history" /\ pc' = "reset" /\ UNCHANGED <<cid, job, outcome, owner, status>>
      BY <1>0, <1>9 DEF MonthHistory, tableVars
    <2>2. job = Nobody \/ AtWork
      BY <2>1 DEF AtWork
    <2> QED BY <2>1, <2>2, TruthSame
  <1>10. CASE MonthReset
    <2>1. DoneWithErrors # Complete
      BY DEF DoneWithErrors, Complete
    <2>2. /\ pc = "reset" /\ UNCHANGED <<cid, job, owner, status>>
          /\ MonthEnds(0) \/ MonthEnds(1)
      BY <1>0, <1>10 DEF MonthReset, tableVars
    <2> QED BY <2>1, <2>2, TruthEnds DEF MonthEnds
  <1>11. CASE Final
    <2>1. /\ pc = "final" /\ pc' = "look"
          /\ UNCHANGED <<owner, outcome, cid, job, cres>>
      BY <1>11 DEF Final, ghostVars
    <2>2. \A i \in Rows : status'[i] = status[i] \/ (i = cid /\ status'[i] = cres)
      BY <1>11 DEF Final, SetStatus, Rows, OnceInv, TypeInv, TableType
    <2> QED BY <2>1, <2>2, TruthMarks
  <1>12. CASE DelayedInsert
    <2>1. PICK r \in delayed : Insert(r)
      BY <1>12 DEF DelayedInsert
    <2>2. r \in Reqs
      BY QueueBounds DEF OnceInv, TypeInv, TableType, Reqs
    <2>3. nextId \in Ids
      BY <2>1, NextIdRoom DEF OnceInv, Insert
    <2> QED
      BY <1>12, <2>1, <2>2, <2>3, TruthInsert DEF DelayedInsert, daemonVars, ghostVars
  <1>13. CASE \E cmd \in CmdKinds : PageAdd(cmd)
    <2>1. nReq' \in Reqs /\ Insert(nReq')
      BY <1>13, QueueBounds DEF PageAdd, OnceInv, TypeInv, TableType, Reqs
    <2>2. nextId \in Ids
      BY <2>1, NextIdRoom DEF OnceInv, Insert
    <2> QED
      BY <1>13, <2>1, <2>2, TruthInsert DEF PageAdd, daemonVars, ghostVars
  <1>14. CASE PageMark
    <2>1. \A i \in Rows : status'[i] \in {status[i], Processing, Skipped}
      BY <1>14 DEF PageMark, Rows
    <2> QED
      BY <1>14, <2>1, TruthMarks DEF PageMark, daemonVars, ghostVars
  <1>15. CASE DelayedLost \/ NextMonth
    BY <1>15, TruthSame DEF DelayedLost, NextMonth, tableVars, daemonVars, ghostVars
  <1>16. CASE PageClean
    BY <1>0, <1>16 DEF PageClean
  <1> QED
    BY <1>1, <1>2, <1>3, <1>4, <1>5, <1>6, <1>7, <1>8, <1>9, <1>10, <1>11, <1>12,
       <1>13, <1>14, <1>15, <1>16
    DEF Next, Daemon, Page

(* Where the job's result is told truly, a row that says complete stands    *)
(* for a command that ran without error, whatever crashes, failed marks and *)
(* other pages did in between.                                              *)
THEOREM CompleteTold == ASSUME Honest PROVE Spec => []CompleteIsTrue
  <1>1. OnceInv /\ OnceInv' /\ TruthInv /\ [Next]_vars => TruthInv'
    BY TruthStep
  <1>2. TruthInv => CompleteIsTrue
    BY DEF TruthInv
  <1> QED BY <1>1, <1>2, TruthInit, OnceAlways, PTL DEF Spec

----------------------------------------------------------------------------
(* A month is archived once.  While the month job is asked for by the       *)
(* calendar alone, the daemon lives as long as its memory of the last       *)
(* rotation, and what it runs is marked: a job that can still run is the    *)
(* only one, and it is for a month that is not archived yet.                *)
Calendar ==
  Faults \cap {"crash", "stmt"} = {} /\ Asks \cap {"month", "usr1"} = {}

(* The month jobs that can still be run, or run right now. *)
Armed ==
  {r \in Reqs :
     /\ asked[r] = "month"
     /\ \/ r \in delayed
        \/ \E i \in Rows : owner[i] = r /\ status[i] = Waiting
        \/ pc \in {"mark", "run", "history"} /\ job = r}

AlwaysMarked ==
  /\ unmarked = {}
  /\ pc \in {"mark", "run", "history", "reset", "final"} => job # Nobody

OneRecord == \A m \in Months : archived[m] <= 1 /\ (m > month => archived[m] = 0)

OneJob ==
  /\ \A r, s \in Armed : r = s
  /\ Armed # {} => archived[month] = 0 /\ logrotated = month /\ pc # "down"

NotYet == pc = "down" \/ logrotated # month => archived[month] = 0

InHistory ==
  pc = "history" =>
    /\ asked[job] = "month" /\ job \in 1..nReq /\ job \notin delayed
    /\ \A i \in Rows : owner[i] = job => status[i] # Waiting

ArchInv == AlwaysMarked /\ OneRecord /\ OneJob /\ NotYet /\ InHistory

LEMMA ArchInit == Init => ArchInv
  <1> SUFFICES ASSUME Init PROVE ArchInv
    OBVIOUS
  <1>1. Armed = {}
    BY DEF Init, Armed
  <1>2. \A m \in Months : archived[m] = 0
    BY DEF Init
  <1>3. month \in Months
    BY QueueBounds DEF Init, Months
  <1> QED
    BY <1>1, <1>2, <1>3 DEF Init, ArchInv, AlwaysMarked, OneRecord, OneJob, NotYet, InHistory

(* Steps that arm no job and begin no month. *)
LEMMA ArchSame ==
  ASSUME ArchInv, Armed' \subseteq Armed,
         UNCHANGED <<month, archived, logrotated, unmarked>>,
         pc' = "down" => pc = "down",
         pc' \in {"mark", "run", "history", "reset", "final"} => job' # Nobody,
         InHistory'
  PROVE  ArchInv'
  BY DEF ArchInv, AlwaysMarked, OneRecord, OneJob, NotYet

(* The daemon leaves a job, or the table loses rows that wait. *)
LEMMA ArmedFewer ==
  ASSUME UNCHANGED <<asked, owner>>, delayed' \subseteq delayed,
         \A i \in Rows : status'[i] = Waiting => status[i] = Waiting,
         pc' \in {"mark", "run", "history"} =>
           pc \in {"mark", "run", "history"} /\ job' = job
  PROVE  Armed' \subseteq Armed
  BY DEF Armed, Rows

(* Commands other than the month job come into the table. *)
LEMMA ArchInsert ==
  ASSUME OnceInv, ArchInv, nextId \in Ids, NEW r \in Reqs, Insert(r),
         UNCHANGED <<pc, cid, job, cres, logrotated, month, archived, unmarked>>,
         delayed' = delayed \ {r}, nReq' \in Nat, nReq' >= nReq,
         \A s \in Reqs : asked'[s] = asked[s] \/ (s > nReq /\ asked'[s] # "month"),
         r \in delayed \/ asked'[r] # "month",
         r \in delayed \/ r > nReq
  PROVE  ArchInv'
  <1>1. /\ nextId \notin Rows /\ Rows' = Rows \cup {nextId}
        /\ owner'[nextId] = r /\ status'[nextId] = Waiting
        /\ \A i \in Rows : owner'[i] = owner[i] /\ status'[i] = status[i]
    BY InsertRow
  <1>2. Armed' \subseteq Armed
    <2> SUFFICES ASSUME NEW s \in Armed' PROVE s \in Armed
      OBVIOUS
    <2>1. /\ s \in Reqs /\ asked'[s] = "month"
          /\ \/ s \in delayed'
             \/ \E i \in Rows' : owner'[i] = s /\ status'[i] = Waiting
             \/ pc \in {"mark", "run", "history"} /\ job = s
      BY DEF Armed
    <2>2. asked[s] = "month"
      BY <2>1
    <2>3. CASE \E i \in Rows' : owner'[i] = s /\ status'[i] = Waiting
      BY <1>1, <2>1, <2>2, <2>3 DEF Armed
    <2> QED BY <2>1, <2>2, <2>3 DEF Armed
  <1>3. InHistory'
    <2> SUFFICES ASSUME pc = "history"
                 PROVE  /\ asked'[job] = "month" /\ job \in 1..nReq' /\ job \notin delayed'
                        /\ \A i \in Rows' : owner'[i] = job => status'[i] # Waiting
      BY DEF InHistory
    <2>1. /\ asked[job] = "month" /\ job \in 1..nReq /\ job \notin delayed
          /\ \A i \in Rows : owner[i] = job => status[i] # Waiting
      BY DEF ArchInv, InHistory
    <2>2. nReq \in Nat /\ job \in Reqs /\ ~(job > nReq)
      BY <2>1, QueueBounds DEF OnceInv, TypeInv, TableType, Reqs
    <2>3. job # r
      BY <2>1, <2>2
    <2> QED BY <1>1, <2>1, <2>2, <2>3
  <1> QED BY <1>2, <1>3, ArchSame DEF ArchInv, AlwaysMarked

(* check_state() puts a job into the queue: no other is armed. *)
LEMMA ArchLook ==
  ASSUME OnceInv, ArchInv, Look
  PROVE  ArchInv'
  <1>1. /\ pc = "look" /\ pc' = "select"
        /\ UNCHANGED <<owner, status, month, archived, unmarked, job>>
    BY DEF Look, tableVars, ghostVars
  <1>2. CASE UNCHANGED <<askVars, logrotated>>
    <2>1. Armed' \subseteq Armed
      BY <1>1, <1>2, ArmedFewer DEF askVars
    <2> QED BY <1>1, <1>2, <2>1, ArchSame DEF InHistory
  <1>3. CASE /\ logrotated # month /\ nReq < MaxReqs /\ logrotated' = month
             /\ nReq' = nReq + 1 /\ delayed' = delayed \cup {nReq'}
             /\ asked' = [asked EXCEPT ![nReq'] = "month"]
    <2>1. Armed = {} /\ archived[month] = 0
      BY <1>3 DEF ArchInv, OneJob, NotYet
    <2>2. \A s \in Reqs : s # nReq' => asked'[s] = asked[s]
      BY <1>3 DEF OnceInv, TypeInv, TableType
    <2>3. Armed' \subseteq {nReq'}
      BY <1>1, <1>3, <2>1, <2>2 DEF Armed, Rows
    <2> QED
      BY <1>1, <1>3, <2>1, <2>3
         DEF ArchInv, AlwaysMarked, OneRecord, OneJob, NotYet, InHistory
  <1> QED BY <1>2, <1>3 DEF Look

(* The statement that fills uhistory: the job is for a month that is not    *)
(* archived, and no job is armed afterwards.                                *)
LEMMA ArchHistory ==
  ASSUME OnceInv, ArchInv, pc = "history", pc' = "reset",
         archived' = [archived EXCEPT ![month] = @ + 1],
         UNCHANGED <<tableVars, askVars, month, job, logrotated, unmarked>>
  PROVE  ArchInv'
  <1>1. job \in Armed /\ job # Nobody
    BY QueueBounds
       DEF ArchInv, InHistory, AlwaysMarked, Armed, OnceInv, TypeInv, DaemonType
  <1>2. archived[month] = 0 /\ logrotated = month /\ \A r \in Armed : r = job
    BY <1>1 DEF ArchInv, OneJob
  <1>3. Armed' = {}
    <2>1. Armed' \subseteq Armed
      BY ArmedFewer DEF askVars, tableVars
    <2>2. job \notin Armed'
      BY DEF Armed, ArchInv, InHistory, askVars, tableVars, Rows
    <2> QED BY <1>2, <2>1, <2>2
  <1>4. month \in Months /\ archived \in [Months -> Nat] /\ \A m \in Months : m \in Nat
    BY QueueBounds DEF OnceInv, TypeInv, HistoryType, Months
  <1>5. OneRecord'
    <2>1. archived'[month] = 1 /\ \A m \in Months : m # month => archived'[m] = archived[m]
      BY <1>2, <1>4
    <2> QED BY <1>4, <2>1 DEF ArchInv, OneRecord
  <1> QED
    BY <1>1, <1>2, <1>3, <1>5 DEF ArchInv, AlwaysMarked, OneJob, NotYet, InHistory

(* A month begins: nothing is archived of it yet, and no job is left. *)
LEMMA ArchMonth ==
  ASSUME OnceInv, ArchInv, NextMonth
  PROVE  ArchInv'
  <1>1. /\ month' = month + 1 /\ pc \in {"down", "look"} /\ month < MaxMonth
        /\ UNCHANGED <<tableVars, askVars, daemonVars, ghostVars>>
    BY DEF NextMonth
  <1>2. /\ month \in Nat /\ month' \in Months /\ \A m \in Months : m \in Nat
    BY <1>1, QueueBounds DEF OnceInv, TypeInv, HistoryType, Months
  <1>3. Armed = {}
    <2>1. CASE pc = "down"
      BY <2>1 DEF ArchInv, OneJob
    <2>2. CASE pc = "look" /\ \A r \in Reqs : asked[r] = "month" => ~Pending(r)
      BY <2>2 DEF Armed, Pending
    <2> QED BY <2>1, <2>2 DEF NextMonth
  <1>4. Armed' \subseteq Armed
    BY <1>1, ArmedFewer DEF tableVars, askVars, daemonVars
  <1>5. archived'[month'] = 0
    BY <1>1, <1>2 DEF ArchInv, OneRecord, ghostVars
  <1>6. OneRecord'
    BY <1>1, <1>2 DEF ArchInv, OneRecord, ghostVars
  <1> QED
    BY <1>1, <1>3, <1>4, <1>5, <1>6
       DEF ArchInv, AlwaysMarked, OneJob, NotYet, InHistory, ghostVars, daemonVars

LEMMA ArchStep ==
  ASSUME Calendar, OnceInv, OnceInv', ArchInv, [Next]_vars
  PROVE  ArchInv'
  <1>0. /\ "crash" \notin Faults /\ "stmt" \notin Faults
        /\ "month" \notin Asks /\ "usr1" \notin Asks
    BY DEF Calendar
  <1>1. CASE UNCHANGED vars
    <2>1. Armed' \subseteq Armed
      BY <1>1, ArmedFewer DEF vars
    <2> QED
      BY <1>1, <2>1, ArchSame DEF vars, ArchInv, AlwaysMarked, InHistory, Rows
  <1>2. CASE Start
    <2>1. pc = "down" /\ pc' = "look" /\ UNCHANGED <<owner, status, delayed, asked, nReq>>
          /\ UNCHANGED <<month, archived, unmarked>>
      BY <1>2 DEF Start, tableVars, askVars, ghostVars
    <2>2. Armed = {} /\ Armed' \subseteq Armed /\ archived[month] = 0
      BY <2>1, ArmedFewer DEF ArchInv, OneJob, NotYet
    <2> QED
      BY <2>1, <2>2 DEF ArchInv, AlwaysMarked, OneRecord, OneJob, NotYet, InHistory
  <1>3. CASE Look
    BY <1>3, ArchLook
  <1>4. CASE SelectNone
    <2>1. Armed' \subseteq Armed
      BY <1>4, ArmedFewer DEF SelectNone, tableVars, askVars
    <2> QED BY <1>4, <2>1, ArchSame DEF SelectNone, ghostVars, InHistory
  <1>5. CASE SelectRow
    <2>1. PICK i \in Rows :
            /\ status[i] = Waiting /\ job' = owner[i] /\ pc' \in {"final", "mark"}
      BY <1>5 DEF SelectRow
    <2>2. UNCHANGED <<owner, status, delayed, asked, month, archived, logrotated, unmarked>>
      BY <1>5 DEF SelectRow, tableVars, askVars
    <2>3. Armed' \subseteq Armed
      BY <2>1, <2>2 DEF Armed, Rows
    <2>4. job' # Nobody /\ InHistory'
      BY <2>1 DEF Rows, InHistory
    <2> QED BY <2>1, <2>2, <2>3, <2>4, ArchSame
  <1>6. CASE Mark
    <2>1. /\ pc = "mark" /\ pc' = "run" /\ cres # Waiting
          /\ UNCHANGED <<owner, asked, delayed, job, month, archived, logrotated, unmarked>>
      BY <1>0, <1>6 DEF Mark, OnceInv, NoRowReopened, askVars
    <2>2. \A i \in Rows : status'[i] = Waiting => status[i] = Waiting
      BY <1>0, <1>6, <2>1 DEF Mark, SetStatus, Rows, OnceInv, TypeInv, TableType
    <2>3. Armed' \subseteq Armed
      BY <2>1, <2>2, ArmedFewer
    <2> QED BY <2>1, <2>3, ArchSame DEF ArchInv, AlwaysMarked, InHistory
  <1>7. CASE RunReconf \/ RunRecount
    <2>1. /\ pc = "run" /\ pc' = "final" /\ UNCHANGED <<owner, status, asked, delayed, job>>
          /\ UNCHANGED <<month, archived, logrotated, unmarked>>
      BY <1>7 DEF RunReconf, RunRecount, tableVars, askVars
    <2>2. Armed' \subseteq Armed
      BY <2>1, ArmedFewer
    <2> QED BY <2>1, <2>2, ArchSame DEF ArchInv, AlwaysMarked, InHistory
  <1>8. CASE RunMonth
    <2>1. /\ pc = "run" /\ pc' = "history" /\ asked[job] = "month" /\ logrotated' = month
          /\ UNCHANGED <<owner, status, asked, nReq, delayed, job, month, archived, unmarked>>
      BY <1>8 DEF RunMonth, tableVars, askVars
    <2>2. /\ job \in 1..nReq /\ job \notin delayed /\ job \in Reqs /\ job # Nobody
          /\ \A i \in Rows : owner[i] = job => status[i] # Waiting
      BY <2>1, QueueBounds
         DEF OnceInv, JobNotRun, ArchInv, AlwaysMarked, TypeInv, DaemonType
    <2>3. job \in Armed /\ Armed' \subseteq Armed
      BY <2>1, <2>2, ArmedFewer DEF Armed
    <2>4. logrotated = month
      BY <2>3 DEF ArchInv, OneJob
    <2>5. InHistory'
      BY <2>1, <2>2 DEF InHistory, Rows
    <2> QED BY <2>1, <2>2, <2>3, <2>4, <2>5, ArchSame
  <1>9. CASE MonthHistory
    <2>1. CASE archived' = [archived EXCEPT ![month] = @ + 1] /\ pc' = "reset"
      BY <1>9, <2>1, ArchHistory DEF MonthHistory
    <2>2. CASE MonthEnds(2) /\ archived' = archived
      <3>1. /\ pc' = "final" /\ pc = "history"
            /\ UNCHANGED <<owner, status, asked, delayed, job, month, logrotated, unmarked>>
        BY <1>9, <2>2 DEF MonthHistory, MonthEnds, ArchInv, AlwaysMarked, tableVars, askVars
      <3>2. Armed' \subseteq Armed
        BY <3>1, ArmedFewer
      <3> QED BY <2>2, <3>1, <3>2, ArchSame DEF ArchInv, AlwaysMarked, InHistory
    <2> QED BY <1>9, <2>1, <2>2 DEF MonthHistory
  <1>10. CASE MonthReset
    <2>1. /\ pc' = "final" /\ pc = "reset"
          /\ UNCHANGED <<owner, status, asked, delayed, job>>
          /\ UNCHANGED <<month, archived, logrotated, unmarked>>
      BY <1>10 DEF MonthReset, MonthEnds, ArchInv, AlwaysMarked, tableVars, askVars
    <2>2. Armed' \subseteq Armed
      BY <2>1, ArmedFewer
    <2> QED BY <2>1, <2>2, ArchSame DEF ArchInv, AlwaysMarked, InHistory
  <1>11. CASE Final
    <2>1. /\ pc = "final" /\ pc' = "look" /\ cres # Waiting
          /\ UNCHANGED <<owner, asked, delayed, job, month, archived, logrotated, unmarked>>
      BY <1>11 DEF Final, OnceInv, NoRowReopened, askVars, ghostVars
    <2>2. \A i \in Rows : status'[i] = Waiting => status[i] = Waiting
      BY <1>11, <2>1 DEF Final, SetStatus, Rows, OnceInv, TypeInv, TableType
    <2>3. Armed' \subseteq Armed
      BY <2>1, <2>2, ArmedFewer
    <2> QED BY <2>1, <2>3, ArchSame DEF InHistory
  <1>12. CASE DelayedInsert
    <2>1. PICK r \in delayed : Insert(r) /\ delayed' = delayed \ {r}
      BY <1>12 DEF DelayedInsert
    <2>2. r \in Reqs /\ nReq \in Nat
      BY QueueBounds DEF OnceInv, TypeInv, TableType, Reqs
    <2>3. nextId \in Ids
      BY <2>1, NextIdRoom DEF OnceInv, Insert
    <2>4. UNCHANGED <<asked, nReq, pc, cid, job, cres, logrotated, month, archived, unmarked>>
      BY <1>12 DEF DelayedInsert, daemonVars, ghostVars
    <2> QED BY <2>1, <2>2, <2>3, <2>4, ArchInsert
  <1>13. CASE \E cmd \in CmdKinds : PageAdd(cmd)
    <2>1. PICK cmd \in CmdKinds \ {"month"} :
            asked' = [asked EXCEPT ![nReq'] = cmd] /\ nReq' = nReq + 1 /\ Insert(nReq')
      BY <1>0, <1>13 DEF PageAdd
    <2>2. nReq' \in Reqs /\ nReq' \in Nat /\ nReq \in Nat /\ nReq' > nReq /\ nReq' \notin delayed
      BY <1>13, <2>1, QueueBounds DEF PageAdd, OnceInv, TypeInv, TableType, Reqs
    <2>3. nextId \in Ids
      BY <2>1, NextIdRoom DEF OnceInv, Insert
    <2>4. /\ delayed' = delayed \ {nReq'}
          /\ UNCHANGED <<pc, cid, job, cres, logrotated, month, archived, unmarked>>
      BY <1>13, <2>2 DEF PageAdd, daemonVars, ghostVars
    <2>5. /\ asked'[nReq'] # "month"
          /\ \A s \in Reqs : asked'[s] = asked[s] \/ (s > nReq /\ asked'[s] # "month")
      BY <2>1, <2>2 DEF OnceInv, TypeInv, TableType
    <2> QED BY <2>1, <2>2, <2>3, <2>4, <2>5, ArchInsert
  <1>14. CASE PageMark
    <2>1. UNCHANGED <<owner, asked, nReq, delayed, pc, job, month, archived, logrotated, unmarked>>
      BY <1>14 DEF PageMark, askVars, daemonVars, ghostVars
    <2>2. \A i \in Rows : status'[i] = Waiting => status[i] = Waiting
      BY <1>14 DEF PageMark, Rows
    <2>3. Armed' \subseteq Armed
      BY <2>1, <2>2, ArmedFewer
    <2> QED
      BY <2>1, <2>2, <2>3, ArchSame DEF ArchInv, AlwaysMarked, InHistory, Rows
  <1>15. CASE PageClean
    <2>1. /\ UNCHANGED <<asked, nReq, delayed, pc, job, month, archived, logrotated, unmarked>>
          /\ Rows' = {}
      BY <1>15 DEF PageClean, askVars, daemonVars, ghostVars, Rows
    <2>2. Armed' \subseteq Armed
      BY <2>1 DEF Armed
    <2> QED BY <2>1, <2>2, ArchSame DEF ArchInv, AlwaysMarked, InHistory
  <1>16. CASE DelayedLost
    <2>1. /\ UNCHANGED <<owner, status, asked, nReq, pc, job>>
          /\ UNCHANGED <<month, archived, logrotated, unmarked>> /\ delayed' = {}
      BY <1>16 DEF DelayedLost, tableVars, daemonVars, ghostVars
    <2>2. Armed' \subseteq Armed
      BY <2>1, ArmedFewer
    <2> QED BY <2>1, <2>2, ArchSame DEF ArchInv, AlwaysMarked, InHistory, Rows
  <1>17. CASE NextMonth
    BY <1>17, ArchMonth
  <1>18. CASE Crash \/ SignalMonth
    BY <1>0, <1>18 DEF Crash, SignalMonth
  <1> QED
    BY <1>1, <1>2, <1>3, <1>4, <1>5, <1>6, <1>7, <1>8, <1>9, <1>10, <1>11, <1>12,
       <1>13, <1>14, <1>15, <1>16, <1>17, <1>18
    DEF Next, Daemon, Page

(* Every month goes into uhistory at most once, whether or not the history  *)
(* was empty when the daemon was first started, whatever else the pages     *)
(* ask for, whichever scripts fail, and also when MySQL drops the job or    *)
(* the table is emptied under it.                                           *)
THEOREM MonthArchivedOnce == ASSUME Calendar PROVE Spec => []ArchivedOnce
  <1>1. OnceInv /\ OnceInv' /\ ArchInv /\ [Next]_vars => ArchInv'
    BY ArchStep
  <1>2. ArchInv => ArchivedOnce
    BY DEF ArchInv, OneRecord, ArchivedOnce
  <1> QED BY <1>1, <1>2, ArchInit, OnceAlways, PTL DEF Spec
=============================================================================

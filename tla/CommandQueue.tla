---------------------------- MODULE CommandQueue ----------------------------
(****************************************************************************)
(* The queue of commands between the web pages and the daemon, and the      *)
(* calendar that puts the month job into it (main.cpp, check_state();       *)
(* admin/index.php).                                                        *)
(*                                                                          *)
(* The queue is a MyISAM table whose column complete is all that is known   *)
(* of a command.  The daemon reads one row that waits, marks it, runs the   *)
(* command and marks it again, each time by id; the pages insert rows,      *)
(* empty the table (which starts its ids again) and mark what waits, at any *)
(* moment.  Every command somebody asked for has a number of its own here,  *)
(* so that a row can be told from another one with the same id.             *)
(****************************************************************************)
EXTENDS Integers, FiniteSets

CONSTANTS
  MaxReqs,       \* bound: commands ever asked for
  MaxMonth,      \* bound: changes of the month
  MaxEvents,     \* bound: uses of the pages, signals and faults
  Asks,          \* what the operators do
  Faults,        \* what may go wrong
  FirstHistory   \* whether uhistory has rows of an earlier month at first

CmdKinds   == {"test", "reconf", "recount", "month", "other"}
AskKinds   == CmdKinds \cup
                { "clean",      \* the page empties the table
                  "mark",       \* the page marks what waits as done
                  "usr1" }      \* the signal that asks for the month job
FaultKinds == { "crash",        \* the daemon ends between two statements
                "stmt",         \* a statement that marks a row fails
                "recountsql",   \* recount.sql fails
                "monthsql",     \* monthly.sql fails between two statements
                "noconf",       \* squid.conf cannot be written
                "nosquid",      \* squid's pid file is missing
                "deadsquid",    \* ... or names no process
                "dbcrash" }     \* MySQL restarts and drops delayed inserts

ASSUME QueueBounds ==
  /\ MaxReqs \in Nat /\ MaxMonth \in Nat /\ MaxEvents \in Nat
  /\ MaxReqs >= MaxEvents + MaxMonth   \* a number for each month job, too
ASSUME QueueEnvironment ==
  Asks \subseteq AskKinds /\ Faults \subseteq FaultKinds /\ FirstHistory \in BOOLEAN

Ids    == 1..MaxReqs
Reqs   == 1..MaxReqs
Nobody == 0                \* no row, or a month job that a signal asked for
Months == 0..MaxMonth
Never  == -1               \* uhistory is empty

(* The column complete, as the comment in check_state() lists it. *)
Waiting == 0
Processing == 1
Complete == 2
DoneWithErrors == 3
Skipped == 5
Statuses == 0..5

VARIABLES
  owner,       \* the command a row of the table stands for
  status,      \* the column complete of a row
  nextId,      \* auto_increment
  delayed,     \* commands in MySQL's memory on their way into the table
  asked,       \* per command asked for, its kind
  nReq,        \* how many were asked for
  hmonth,      \* the month of max(utime) in uhistory
  month,       \* the calendar
  \* the daemon
  pc,          \* where check_state() is
  cid,         \* the id of the row it read
  job,         \* the command it stands for
  cres,        \* the status it will write
  logrotated,  \* the month of the last rotation, as far as it knows
  \* history
  ran,         \* how often a command was run
  outcome,     \* how it went
  archived,    \* how often a month was written to uhistory
  unmarked,    \* commands that ran although marking them had failed
  events

tableVars  == <<owner, status, nextId>>
askVars    == <<asked, nReq, delayed>>
daemonVars == <<pc, cid, job, cres, logrotated>>
ghostVars  == <<ran, outcome, archived, unmarked>>
vars == <<owner, status, nextId, delayed, asked, nReq, hmonth, month,
          pc, cid, job, cres, logrotated, ran, outcome, archived, unmarked,
          events>>

TypeOK ==
  /\ owner \in [Ids -> Reqs \cup {Nobody}] /\ status \in [Ids -> Statuses]
  /\ nextId \in 1..(MaxReqs + 1)
  /\ delayed \subseteq Reqs
  /\ asked \in [Reqs -> CmdKinds \cup {"none"}] /\ nReq \in 0..MaxReqs
  /\ hmonth \in Months \cup {Never} /\ month \in Months
  /\ pc \in {"down", "look", "select", "mark", "run", "history", "reset", "final"}
  /\ cid \in Ids \cup {Nobody} /\ job \in Reqs \cup {Nobody}
  /\ cres \in Statuses /\ logrotated \in Months
  /\ ran \in [Reqs -> Nat]
  /\ outcome \in [Reqs -> {"none", "ok", "error"}]
  /\ archived \in [Months -> Nat] /\ unmarked \subseteq Reqs \cup {Nobody}
  /\ events \in Nat

Init ==
  /\ owner = [i \in Ids |-> Nobody] /\ status = [i \in Ids |-> Waiting]
  /\ nextId = 1 /\ delayed = {}
  /\ asked = [r \in Reqs |-> "none"] /\ nReq = 0
  /\ hmonth = IF FirstHistory THEN 0 ELSE Never
  /\ month = 0
  /\ pc = "down" /\ cid = Nobody /\ job = Nobody /\ cres = 0 /\ logrotated = 0
  /\ ran = [r \in Reqs |-> 0] /\ outcome = [r \in Reqs |-> "none"]
  /\ archived = [m \in Months |-> 0] /\ unmarked = {} /\ events = 0

Spend == events < MaxEvents /\ events' = events + 1

Rows == {i \in Ids : owner[i] # Nobody}

(* An UPDATE by id changes the row that has the id now, if there is one. *)
SetStatus(i, s) ==
  status' = IF i \in Rows THEN [status EXCEPT ![i] = s] ELSE status

Ends(how) == outcome' = IF job = Nobody THEN outcome
                        ELSE [outcome EXCEPT ![job] = how]

----------------------------------------------------------------------------
(* A seeded fault: the month is taken from the calendar alone. *)
StartToday ==
  /\ pc = "down" /\ pc' = "look"
  /\ logrotated' = month
  /\ UNCHANGED <<tableVars, askVars, hmonth, month, cid, job, cres, ghostVars, events>>

(* The daemon starts: get_lastlogrotation().  With an empty history the     *)
(* current month is taken for the last one that was closed.                 *)
Start ==
  /\ pc = "down" /\ pc' = "look"
  /\ logrotated' = IF hmonth = Never THEN month ELSE hmonth
  /\ UNCHANGED <<tableVars, askVars, hmonth, month, cid, job, cres, ghostVars, events>>

(* A seeded fault: the month is not remembered. *)
LookForgets ==
  /\ pc = "look" /\ pc' = "select"
  /\ \/ (logrotated = month \/ nReq = MaxReqs) /\ UNCHANGED askVars
     \/ /\ logrotated # month /\ nReq < MaxReqs
        /\ nReq' = nReq + 1 /\ delayed' = delayed \cup {nReq'}
        /\ asked' = [asked EXCEPT ![nReq'] = "month"]
  /\ UNCHANGED <<tableVars, hmonth, month, cid, job, cres, logrotated, ghostVars, events>>

(* check_state() down to the queue: a month that is new to the daemon puts  *)
(* a month job into the queue, with INSERT DELAYED.                         *)
Look ==
  /\ pc = "look" /\ pc' = "select"
  /\ \/ logrotated = month /\ UNCHANGED <<askVars, logrotated>>
     \/ /\ logrotated # month /\ nReq < MaxReqs
        /\ logrotated' = month
        /\ nReq' = nReq + 1 /\ delayed' = delayed \cup {nReq'}
        /\ asked' = [asked EXCEPT ![nReq'] = "month"]
  /\ UNCHANGED <<tableVars, hmonth, month, cid, job, cres, ghostVars, events>>

SelectNone ==
  /\ pc = "select" /\ \A i \in Rows : status[i] # Waiting
  /\ pc' = "look"
  /\ UNCHANGED <<tableVars, askVars, hmonth, month, cid, job, cres, logrotated, ghostVars, events>>

(* select ... where complete=0 limit 1: without an order, any row will do.  *)
(* The test command and unknown ones do nothing and are finished here.      *)
SelectRow ==
  /\ pc = "select"
  /\ \E i \in Rows :
       /\ status[i] = Waiting
       /\ cid' = i /\ job' = owner[i]
       /\ LET cmd == asked[owner[i]]
          IN IF cmd \in {"test", "other"}
             THEN /\ cres' = IF cmd = "test" THEN Complete ELSE Skipped
                  /\ pc' = "final"
                  /\ outcome' = [outcome EXCEPT ![owner[i]] = "ok"]
             ELSE cres' = Processing /\ pc' = "mark" /\ UNCHANGED outcome
  /\ UNCHANGED <<tableVars, askVars, hmonth, month, logrotated, ran, archived, unmarked, events>>

(* A seeded fault: the row is not marked before the command runs. *)
MarkLater ==
  /\ pc = "mark" /\ pc' = "run"
  /\ UNCHANGED <<tableVars, askVars, hmonth, month, cid, job, cres, logrotated, ghostVars, events>>

(* sql_update_cmd_status(): when it fails that is logged, and the command   *)
(* runs all the same.                                                       *)
Mark ==
  /\ pc = "mark" /\ pc' = "run"
  /\ \/ SetStatus(cid, cres) /\ UNCHANGED <<unmarked, events>>
     \/ "stmt" \in Faults /\ Spend /\ unmarked' = unmarked \cup {job} /\ UNCHANGED status
  /\ UNCHANGED <<owner, nextId, askVars, hmonth, month, cid, job, cres, logrotated>>
  /\ UNCHANGED <<ran, outcome, archived>>

Runs == ran' = [ran EXCEPT ![job] = @ + 1]

(* squid_reconfig() says nothing of its failures. *)
RunReconf ==
  /\ pc = "run" /\ asked[job] = "reconf" /\ Runs
  /\ cres' = Complete /\ pc' = "final"
  /\ \/ Ends("ok") /\ UNCHANGED events
     \/ "noconf" \in Faults /\ Spend /\ Ends("error")
  /\ UNCHANGED <<tableVars, askVars, hmonth, month, cid, job, logrotated, archived, unmarked>>

(* A seeded fault: the result of the script is not looked at. *)
RunRecountBlind ==
  /\ pc = "run" /\ asked[job] = "recount" /\ Runs
  /\ pc' = "final" /\ cres' = Complete
  /\ \/ Ends("ok") /\ UNCHANGED events
     \/ "recountsql" \in Faults /\ Spend /\ Ends("error")
  /\ UNCHANGED <<tableVars, askVars, hmonth, month, cid, job, logrotated, archived, unmarked>>

RunRecount ==
  /\ pc = "run" /\ asked[job] = "recount" /\ Runs
  /\ pc' = "final"
  /\ \/ Ends("ok") /\ cres' = Complete /\ UNCHANGED events
     \/ "recountsql" \in Faults /\ Spend /\ Ends("error") /\ cres' = DoneWithErrors
  /\ UNCHANGED <<tableVars, askVars, hmonth, month, cid, job, logrotated, archived, unmarked>>

(* squid_logrotate() down to its script. *)
RunMonth ==
  /\ pc = "run" /\ asked[job] = "month" /\ Runs
  /\ logrotated' = month /\ pc' = "history"
  /\ UNCHANGED <<tableVars, askVars, hmonth, month, cid, job, cres, outcome, archived, unmarked, events>>

SignalMonth ==
  /\ pc = "look" /\ "usr1" \in Asks /\ Spend
  /\ logrotated' = month /\ pc' = "history"
  /\ cid' = Nobody /\ job' = Nobody
  /\ UNCHANGED <<tableVars, askVars, hmonth, month, cres, ghostVars>>

(* The end of the month job: back to check_state() or to the signals.  The  *)
(* result is 0, 1 without squid's pid, 2 when squid or the script fails;    *)
(* check_state() takes every result but 1 for a success.                    *)
MonthEnds(result) ==
  /\ Ends(IF result = 0 THEN "ok" ELSE "error")
  /\ cres' = IF result = 1 THEN DoneWithErrors ELSE Complete
  /\ pc' = IF job = Nobody THEN "look" ELSE "final"

(* monthly.sql, first the statement that fills uhistory ... *)
MonthHistory ==
  /\ pc = "history"
  /\ \/ /\ archived' = [archived EXCEPT ![month] = @ + 1] /\ hmonth' = month
        /\ pc' = "reset" /\ UNCHANGED <<cres, outcome, events>>
     \/ /\ "monthsql" \in Faults /\ Spend
        /\ MonthEnds(2) /\ UNCHANGED <<archived, hmonth>>
  /\ UNCHANGED <<tableVars, askVars, month, cid, job, logrotated, ran, unmarked>>

(* ... then those that start the new month. *)
MonthReset ==
  /\ pc = "reset"
  /\ \/ MonthEnds(0) /\ UNCHANGED events
     \/ "nosquid" \in Faults /\ Spend /\ MonthEnds(1)
     \/ {"monthsql", "deadsquid"} \cap Faults # {} /\ Spend /\ MonthEnds(2)
  /\ UNCHANGED <<tableVars, askVars, hmonth, month, cid, job, logrotated, ran, archived, unmarked>>

(* A seeded fault: the second mark is missing. *)
FinalForgets ==
  /\ pc = "final" /\ pc' = "look"
  /\ UNCHANGED <<tableVars, askVars, hmonth, month, cid, job, cres, logrotated, ghostVars, events>>

Final ==
  /\ pc = "final" /\ pc' = "look"
  /\ \/ SetStatus(cid, cres) /\ UNCHANGED events
     \/ "stmt" \in Faults /\ Spend /\ UNCHANGED status
  /\ UNCHANGED <<owner, nextId, askVars, hmonth, month, cid, job, cres, logrotated, ghostVars>>

----------------------------------------------------------------------------
(* The world around the daemon. *)

(* A seeded fault: the ids are given by twos. *)
InsertByTwos(r) ==
  /\ owner' = [owner EXCEPT ![nextId] = r]
  /\ status' = [status EXCEPT ![nextId] = Waiting]
  /\ nextId' = nextId + 2

Insert(r) ==
  /\ owner' = [owner EXCEPT ![nextId] = r]
  /\ status' = [status EXCEPT ![nextId] = Waiting]
  /\ nextId' = nextId + 1

(* MySQL executes a delayed insert, or loses it. *)
DelayedInsert ==
  /\ \E r \in delayed : Insert(r) /\ delayed' = delayed \ {r}
  /\ UNCHANGED <<asked, nReq, hmonth, month, daemonVars, ghostVars, events>>

DelayedLost ==
  /\ "dbcrash" \in Faults /\ delayed # {} /\ Spend
  /\ delayed' = {}
  /\ UNCHANGED <<tableVars, asked, nReq, hmonth, month, daemonVars, ghostVars>>

PageAdd(cmd) ==
  /\ cmd \in Asks /\ nReq < MaxReqs /\ Spend
  /\ nReq' = nReq + 1 /\ asked' = [asked EXCEPT ![nReq'] = cmd]
  /\ Insert(nReq')
  /\ UNCHANGED <<delayed, hmonth, month, daemonVars, ghostVars>>

(* truncate table queue *)
PageClean ==
  /\ "clean" \in Asks /\ Spend
  /\ owner' = [i \in Ids |-> Nobody] /\ status' = [i \in Ids |-> Waiting]
  /\ nextId' = 1
  /\ UNCHANGED <<askVars, hmonth, month, daemonVars, ghostVars>>

(* update queue set complete=5 where complete=0 *)
PageMark ==
  /\ "mark" \in Asks /\ Spend
  /\ status' = [i \in Ids |-> IF i \in Rows /\ status[i] = Waiting THEN Skipped
                              ELSE status[i]]
  /\ UNCHANGED <<owner, nextId, askVars, hmonth, month, daemonVars, ghostVars>>

Crash ==
  /\ "crash" \in Faults /\ pc # "down" /\ Spend
  /\ pc' = "down" /\ cid' = Nobody /\ job' = Nobody /\ cres' = 0 /\ logrotated' = 0
  /\ UNCHANGED <<tableVars, askVars, hmonth, month, ghostVars>>

Pending(r) ==
  r \in delayed \/ \E i \in Rows : owner[i] = r /\ status[i] \in {Waiting, Processing}

(* A month is long: a daemon that runs has long finished what the last      *)
(* change of the month asked for.                                           *)
NextMonth ==
  /\ month < MaxMonth
  /\ pc = "down" \/ (pc = "look" /\ logrotated = month /\
                     \A r \in Reqs : asked[r] = "month" => ~Pending(r))
  /\ month' = month + 1
  /\ UNCHANGED <<tableVars, askVars, hmonth, daemonVars, ghostVars, events>>

----------------------------------------------------------------------------
Daemon ==
  \/ Look \/ SelectNone \/ SelectRow \/ Mark
  \/ RunReconf \/ RunRecount \/ RunMonth \/ MonthHistory \/ MonthReset \/ Final

Page == PageClean \/ PageMark \/ \E cmd \in CmdKinds : PageAdd(cmd)

Next ==
  \/ Start \/ Daemon \/ SignalMonth \/ Page
  \/ DelayedInsert \/ DelayedLost \/ Crash \/ NextMonth

Spec == Init /\ [][Next]_vars

(* The daemon runs when it can and is started again; MySQL executes what it *)
(* delayed.                                                                 *)
FairSpec == Spec /\ WF_vars(Daemon) /\ WF_vars(Start) /\ WF_vars(DelayedInsert)

----------------------------------------------------------------------------
(* No command runs twice, wherever the daemon ends and whatever the pages   *)
(* do to the table meanwhile, unless the statement that marks it failed.    *)
AtMostOnce == \A r \in Reqs \ unmarked : ran[r] <= 1

(* A row that says complete stands for a command that ran without error. *)
CompleteIsTrue ==
  \A i \in Rows : status[i] = Complete => outcome[owner[i]] = "ok"

(* What waits or is being processed is settled in the end: it ran, failed,  *)
(* was skipped, or was removed from the table.                              *)
EveryCommandSettles == \A r \in Reqs : Pending(r) ~> ~Pending(r)

(* Every month that begins has the month before it archived. *)
EveryMonthArchived ==
  \A m \in Months \ {0} : month = m ~> (archived[m] >= 1 \/ month > m)

(* ... and only once: users' histories have one record a month. *)
ArchivedOnce == \A m \in Months : archived[m] <= 1
=============================================================================

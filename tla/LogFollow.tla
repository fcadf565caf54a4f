------------------------------ MODULE LogFollow ------------------------------
(****************************************************************************)
(* The counter daemon following squid's access log (main.cpp, main()).      *)
(*                                                                          *)
(* The daemon reads access.log line by line, charges every line to a user   *)
(* in MySQL and, once per batch, stores the position it reached in          *)
(* sys_trf.offset.  Charging and storing the position are separate          *)
(* statements on MyISAM tables, the position is the only thing that         *)
(* survives a restart, and four signals and a command queue move it around  *)
(* while squid keeps writing and may rotate the file.                       *)
(*                                                                          *)
(* The log at the configured path goes through generations 0, 1, ...: a     *)
(* rotation (rename and create) or a truncation starts the next one.  A     *)
(* line is the pair of its generation and its number in that file.  File    *)
(* positions are counted in halves of a line, so that a read that meets     *)
(* squid in the middle of a line can be told from a whole line.             *)
(****************************************************************************)
EXTENDS Integers, FiniteSets

CONSTANTS
  MaxLines,    \* bound: lines squid writes to one generation of the log
  MaxGen,      \* bound: rotations and truncations of the log
  MaxEvents,   \* bound: signals, commands and faults of a behaviour
  TestDelay,   \* USER_TEST_DELAY: turns of the loop between two check_state
  Batch,       \* USER_TEST_DELAY*10: the reading loop's limit on cycle_counter
  Signals,     \* the signals somebody sends to the daemon
  Cmds,        \* the commands somebody puts into the queue
  Faults,      \* what may go wrong
  LateCuts,    \* the lines that, written in two pieces, are cut in their last field
  EarlyCuts    \* those that are cut in their first

SignalKinds == {"HUP", "TERM", "USR1", "USR2"}
CmdKinds    == {"reconf", "recount", "month"}
FaultKinds  == { "crash",     \* the daemon is killed, or its host goes down
                 "link",      \* the connection to MySQL is lost
                 "stmt",      \* the statement that charges a line fails
                 "script",    \* recount.sql or monthly.sql fails on its way
                 "badline",   \* squid writes a line without "/" in its mode
                 "noconf",    \* squid.conf.orig cannot be opened
                 "nosquid",   \* squid's pid file is missing or stale
                 "slow",      \* squid needs more than 6 seconds to rotate
                 "rotate",    \* somebody else makes squid rotate its log
                 "truncate",  \* the log is emptied in place
                 "torn" }     \* squid writes a line in two pieces

ASSUME BoundsAssumption ==
  /\ MaxLines \in Nat /\ MaxGen \in Nat /\ MaxEvents \in Nat
ASSUME DelayAssumption ==
  /\ TestDelay \in Nat \ {0} /\ Batch \in Nat /\ TestDelay < Batch
ASSUME EnvironmentAssumption ==
  /\ Signals \subseteq SignalKinds
  /\ Cmds \subseteq CmdKinds
  /\ Faults \subseteq FaultKinds

ASSUME CutAssumption == LateCuts \cap EarlyCuts = {}

Gens    == 0..MaxGen
LineNos == 1..MaxLines

(* ftello() on a closed stream is -1; cast to unsigned long long, and also  *)
(* after MySQL clamped it to a bigint, it exceeds the size of every file.   *)
Huge     == -1
Offsets  == Nat \cup {Huge}
Above(a, b) == b # Huge /\ (a = Huge \/ a > b)      \* unsigned a > b

VARIABLES
  log,       \* per generation, the size of the file, in halves of a line
  cur,       \* the generation at the configured path
  present,   \* FALSE between squid's rename and its re-creation of the file
  rotReq,    \* squid was told to rotate and has not done it yet
  \* the daemon
  pc,        \* where main() is
  via,       \* who asked for the running recount or month job
  fgen,      \* the generation the stream fp reads
  pos,       \* ftello(fp)
  open,      \* FALSE once fp went through fclose()
  eof,       \* feof(fp)
  offset,    \* the global offset
  cyc,       \* cycle_counter
  reopen,    \* flag_need_reopen_log
  sig,       \* sig_num
  intr,      \* errno is EINTR, from an interrupted call or as parse_string()'s code 4
  link,      \* the MySQL connection works
  \* the database
  saved,     \* sys_trf.offset
  charged,   \* how often each line is in users.used of the current month
  hist,      \* how often each line is in uhistory
  \* history
  termSent,  \* a TERM was sent to the running daemon, and not just before sig_num=0
  events     \* signals, commands and faults so far

logVars    == <<log, cur, present, rotReq>>
fpVars     == <<fgen, pos, open, eof>>
ledgerVars == <<charged, hist>>
dbVars     == <<saved, charged, hist>>
histVars   == <<termSent, events>>
vars == <<log, cur, present, rotReq, pc, via, fgen, pos, open, eof, offset,
          cyc, reopen, sig, intr, link, saved, charged, hist, termSent, events>>

PCs == {"down", "top", "check", "signal", "recount", "rotate", "reconf",
        "hung", "spin", "clear", "size", "read", "save"}

TypeOK ==
  /\ log \in [Gens -> Nat] /\ cur \in Gens
  /\ present \in BOOLEAN /\ rotReq \in BOOLEAN
  /\ pc \in PCs /\ via \in {"queue", "signal"}
  /\ fgen \in Gens /\ pos \in Nat /\ open \in BOOLEAN /\ eof \in BOOLEAN
  /\ offset \in Offsets /\ cyc \in 0..Batch
  /\ reopen \in BOOLEAN /\ sig \in SignalKinds \cup {"none"}
  /\ intr \in BOOLEAN /\ link \in BOOLEAN
  /\ saved \in Offsets
  /\ charged \in [Gens -> [LineNos -> Nat]]
  /\ hist \in [Gens -> [LineNos -> Nat]]
  /\ termSent \in BOOLEAN /\ events \in Nat

Uncharged == [g \in Gens |-> [k \in LineNos |-> 0]]

Init ==
  /\ log = [g \in Gens |-> 0] /\ cur = 0 /\ present = TRUE /\ rotReq = FALSE
  /\ pc = "down" /\ via = "signal"
  /\ fgen = 0 /\ pos = 0 /\ open = FALSE /\ eof = FALSE
  /\ offset = 0 /\ cyc = 0 /\ reopen = FALSE /\ sig = "none" /\ intr = FALSE /\ link = FALSE
  /\ saved = 0 /\ charged = Uncharged /\ hist = Uncharged
  /\ termSent = FALSE /\ events = 0

(* One event of the budget is used up. *)
Spend == events < MaxEvents /\ events' = events + 1

----------------------------------------------------------------------------
(* Leaving: exit_mysql() and exit_all() store nothing, and neither does a   *)
(* crash.  What the process knew is gone; the defaults stand for that.      *)
Exit ==
  /\ pc' = "down" /\ via' = "signal"
  /\ fgen' = 0 /\ pos' = 0 /\ open' = FALSE /\ eof' = FALSE
  /\ offset' = 0 /\ cyc' = 0 /\ reopen' = FALSE /\ sig' = "none"
  /\ intr' = FALSE /\ link' = FALSE /\ termSent' = FALSE

(* A seeded fault: the stored position is not used. *)
StartAtZero ==
  /\ pc = "down" /\ present
  /\ pc' = "top" /\ link' = TRUE
  /\ offset' = 0 /\ pos' = 0
  /\ fgen' = cur /\ open' = TRUE /\ eof' = FALSE
  /\ UNCHANGED <<logVars, via, cyc, reopen, sig, intr, dbVars, histVars>>

(* main() up to the loop: get_offset(), fopen(), fseeko().  A seek to Huge  *)
(* is refused by the file system and leaves the stream at 0.  Without a     *)
(* log file the daemon exits at once, which changes nothing.                *)
Start ==
  /\ pc = "down" /\ present
  /\ pc' = "top" /\ link' = TRUE
  /\ offset' = saved
  /\ fgen' = cur /\ open' = TRUE /\ eof' = FALSE
  /\ pos' = IF saved = Huge THEN 0 ELSE saved
  /\ UNCHANGED <<logVars, via, cyc, reopen, sig, intr, dbVars, histVars>>

----------------------------------------------------------------------------
(* Top of the loop: cycle_counter++, reopen the log if asked to, and every  *)
(* TestDelay turns look at the state in the database.  The counter is not   *)
(* incremented past the value that makes it due.                            *)
Tick == IF cyc > TestDelay THEN cyc ELSE cyc + 1

NextCheck ==
  /\ cyc' = IF Tick > TestDelay THEN 0 ELSE Tick
  /\ pc' = IF Tick > TestDelay THEN "check" ELSE "signal"

TopPass ==
  /\ pc = "top" /\ ~reopen
  /\ NextCheck
  /\ UNCHANGED <<logVars, via, fpVars, offset, reopen, sig, intr, link, dbVars, histVars>>

(* Seeded faults: the seek back from the end is missing; the old file is    *)
(* opened again.                                                            *)
TopReopenAtEnd ==
  /\ pc = "top" /\ reopen /\ present
  /\ reopen' = FALSE
  /\ fgen' = cur /\ open' = TRUE /\ eof' = FALSE
  /\ offset' = log[cur] /\ pos' = offset'
  /\ NextCheck
  /\ UNCHANGED <<logVars, via, sig, intr, link, dbVars, histVars>>

TopReopenOld ==
  /\ pc = "top" /\ reopen /\ present
  /\ reopen' = FALSE
  /\ open' = TRUE /\ eof' = FALSE /\ UNCHANGED fgen
  /\ offset' = IF Above(offset, log[fgen]) THEN 0 ELSE offset
  /\ pos' = offset'
  /\ NextCheck
  /\ UNCHANGED <<logVars, via, sig, intr, link, dbVars, histVars>>

TopReopen ==
  /\ pc = "top" /\ reopen /\ present
  /\ reopen' = FALSE
  /\ fgen' = cur /\ open' = TRUE /\ eof' = FALSE
  /\ offset' = IF Above(offset, log[cur]) THEN 0 ELSE offset
  /\ pos' = offset'
  /\ NextCheck
  /\ UNCHANGED <<logVars, via, sig, intr, link, dbVars, histVars>>

(* A second fclose() of a closed stream is undefined: it may do nothing     *)
(* (TopReopen) or end the process.                                          *)
TopDoubleClose ==
  /\ pc = "top" /\ reopen /\ present /\ ~open
  /\ Exit
  /\ UNCHANGED <<logVars, dbVars, events>>

(* The log is missing: stat() leaves finfo unset, so the mode test may send *)
(* the daemon to sleep (nothing, not even a signal, is looked at) or let it *)
(* run into the failing fopen().                                            *)
TopMissing ==
  /\ pc = "top" /\ reopen /\ ~present
  /\ \/ /\ cyc' = Tick
        /\ UNCHANGED <<pc, via, fpVars, offset, reopen, sig, intr, link, termSent>>
     \/ Exit
  /\ UNCHANGED <<logVars, dbVars, events>>

----------------------------------------------------------------------------
(* A seeded fault: only the daemon's position goes back before the clearing. *)
RecountUnsaved(who) ==
  /\ offset' = 0 /\ pos' = 0 /\ eof' = FALSE
  /\ pc' = "recount" /\ via' = who
  /\ UNCHANGED <<rotReq, fgen, open, saved, ledgerVars, reopen, sig, intr>>

(* squid_recount() up to its script: the position goes back to 0 in the     *)
(* daemon and in the database before anything is cleared.                   *)
RecountBegin(who) ==
  /\ offset' = 0 /\ saved' = 0 /\ pos' = 0 /\ eof' = FALSE
  /\ pc' = "recount" /\ via' = who
  /\ UNCHANGED <<rotReq, fgen, open, ledgerVars, reopen, sig, intr>>

(* squid_logrotate() up to its script: squid is told to rotate, if it is    *)
(* there to be told.  Then the stream is positioned, again and again until  *)
(* that succeeds: at Huge it never does.                                    *)
RotateBegin(who) ==
  /\ \/ rotReq' = TRUE /\ pc' = IF offset = Huge THEN "hung" ELSE "rotate"
     \/ "nosquid" \in Faults /\ UNCHANGED rotReq /\ pc' = "rotate"
  /\ via' = who
  /\ UNCHANGED <<offset, fpVars, dbVars, reopen, sig, intr>>

(* squid_reconfig() as far as this module sees it.  It reads squid.conf.orig *)
(* and, as long as errno is EINTR, reads the line again: nothing in that    *)
(* loop sets errno, so a number left there before is waited for for ever,   *)
(* unless some call on the way overwrote it.  When the file cannot be       *)
(* opened the daemon tells itself to terminate.                             *)
Reconfigure(next) ==
  \/ /\ pc' = next /\ intr' = FALSE
     /\ \/ sig' = sig
        \/ "noconf" \in Faults /\ sig' = "TERM"
  \/ intr /\ pc' = "spin" /\ UNCHANGED <<sig, intr>>

(* The end of check_state(): a reconfiguration if the users' standing       *)
(* changed.                                                                 *)
CheckEnds ==
  \/ pc' = "signal" /\ UNCHANGED <<sig, intr>>
  \/ Reconfigure("signal")

(* check_state() without a command in the queue, and with one. *)
CheckQuiet ==
  /\ pc = "check" /\ link
  /\ CheckEnds
  /\ UNCHANGED <<logVars, via, fpVars, offset, cyc, reopen, link, dbVars, histVars>>

CheckReconf ==
  /\ pc = "check" /\ link /\ "reconf" \in Cmds /\ Spend
  /\ Reconfigure("signal")
  /\ reopen' = (reopen \/ pc' = "signal")
  /\ UNCHANGED <<logVars, via, fpVars, offset, cyc, link, dbVars, termSent>>

CheckRecount ==
  /\ pc = "check" /\ link /\ "recount" \in Cmds /\ Spend
  /\ RecountBegin("queue")
  /\ UNCHANGED <<log, cur, present, cyc, link, termSent>>

CheckMonth ==
  /\ pc = "check" /\ link /\ "month" \in Cmds /\ Spend
  /\ RotateBegin("queue")
  /\ UNCHANGED <<log, cur, present, cyc, link, termSent>>

(* Every place that notices the lost connection leaves without storing the  *)
(* position: sql_dbping() and check_state() here and when idle,             *)
(* squid_setlogoffset(), squid_reconfig(), the last also after a command of *)
(* the queue (reopen is set by then).                                       *)
LinkGone ==
  /\ ~link
  /\ \/ pc \in {"check", "save", "reconf"}
     \/ pc = "signal" /\ (reopen \/ sig \in {"TERM", "USR2"})
     \/ pc = "size" /\ open /\ log[fgen] = offset
  /\ Exit
  /\ UNCHANGED <<logVars, dbVars, events>>

----------------------------------------------------------------------------
(* switch (sig_num).  The variable is cleared after the switch, whatever it *)
(* holds by now: a signal that arrives while a handler runs, or between a   *)
(* switch that found none and the clearing, is lost.                        *)
SigNone ==
  /\ pc = "signal" /\ sig = "none" /\ pc' = "clear"
  /\ UNCHANGED <<logVars, via, fpVars, offset, cyc, reopen, sig, intr, link, dbVars, histVars>>

SigHup ==
  /\ pc = "signal" /\ sig = "HUP" /\ pc' = "reconf"
  /\ UNCHANGED <<logVars, via, fpVars, offset, cyc, reopen, sig, intr, link, dbVars, histVars>>

SigUsr2 ==
  /\ pc = "signal" /\ sig = "USR2" /\ link
  /\ RecountBegin("signal")
  /\ UNCHANGED <<log, cur, present, cyc, link, histVars>>

SigUsr1 ==
  /\ pc = "signal" /\ sig = "USR1"
  /\ RotateBegin("signal")
  /\ UNCHANGED <<log, cur, present, cyc, link, histVars>>

(* A seeded fault: the position is stored, but exit_mysql() is missing. *)
SigTermStays ==
  /\ pc = "signal" /\ sig = "TERM" /\ link
  /\ saved' = pos /\ offset' = pos
  /\ pc' = "clear"
  /\ UNCHANGED <<logVars, via, fpVars, cyc, reopen, sig, intr, link, ledgerVars, histVars>>

SigTerm ==
  /\ pc = "signal" /\ sig = "TERM" /\ link
  /\ saved' = pos
  /\ Exit
  /\ UNCHANGED <<logVars, ledgerVars, events>>

(* Back from a script: to the handler, or to the end of check_state(). *)
AfterScript ==
  /\ via' = "signal" /\ reopen' = TRUE
  /\ IF via = "queue" THEN CheckEnds ELSE pc' = "reconf" /\ UNCHANGED <<sig, intr>>

(* A script that cannot be opened makes the daemon tell itself to terminate. *)
NoScript ==
  /\ via' = "signal" /\ reopen' = TRUE
  /\ pc' = IF via = "queue" THEN "signal" ELSE "reconf"
  /\ sig' = "TERM" /\ intr' = FALSE

(* sql_exec() of recount.sql: users.used and the site and detail tables are *)
(* emptied one after the other.  It may stop before or after the first      *)
(* statement; a refused connection ends the daemon.                         *)
RecountSql ==
  /\ pc = "recount"
  /\ \/ charged' = Uncharged /\ AfterScript /\ UNCHANGED events
     \/ /\ "script" \in Faults /\ Spend
        /\ \/ charged' \in {charged, Uncharged} /\ AfterScript
           \/ charged' = charged /\ NoScript
  /\ UNCHANGED <<logVars, fpVars, offset, cyc, link, saved, hist, termSent>>

ScriptRefused ==
  /\ pc \in {"recount", "rotate"} /\ "script" \in Faults /\ Spend
  /\ Exit
  /\ UNCHANGED <<logVars, dbVars>>

(* sql_exec() of monthly.sql after six seconds of sleep, in which squid     *)
(* rotates unless it is slow: the month goes into uhistory, users.used is   *)
(* reset, sys_trf.offset is reset.  The seek that follows is on the stream  *)
(* that was open all along.                                                 *)
Slept == pc = "rotate" /\ ("slow" \in Faults \/ (~rotReq /\ present))
ToHistory == [g \in Gens |-> [k \in LineNos |-> hist[g][k] + charged[g][k]]]
SeekTo(o) == IF o = Huge THEN pos ELSE o

(* A seeded fault: users.used is not reset. *)
MonthSqlKeeps ==
  /\ Slept
  /\ hist' = ToHistory /\ saved' = 0
  /\ offset' = 0 /\ pos' = 0 /\ eof' = FALSE
  /\ AfterScript
  /\ UNCHANGED <<logVars, fgen, open, cyc, link, charged, histVars>>

(* What the script has done when it stops between two statements. *)
MonthPart ==
  \/ UNCHANGED dbVars
  \/ hist' = ToHistory /\ UNCHANGED <<charged, saved>>
  \/ hist' = ToHistory /\ charged' = Uncharged /\ saved' \in {saved, 0}

(* A script that fails leaves the daemon's offset alone. *)
MonthSql ==
  /\ Slept
  /\ \/ /\ hist' = ToHistory /\ charged' = Uncharged /\ saved' = 0
        /\ offset' = 0 /\ AfterScript /\ UNCHANGED events
     \/ /\ "script" \in Faults /\ Spend /\ UNCHANGED offset
        /\ \/ MonthPart /\ AfterScript
           \/ UNCHANGED dbVars /\ NoScript
  /\ pos' = SeekTo(offset') /\ eof' = FALSE
  /\ UNCHANGED <<logVars, fgen, open, cyc, link, termSent>>

(* The daemon is killed in the middle of the script. *)
MonthCut ==
  /\ Slept /\ "crash" \in Faults /\ Spend
  /\ MonthPart /\ Exit
  /\ UNCHANGED logVars

(* The loop on fseeko() sleeps and tries again; signals are noted, but      *)
(* nothing looks at them.                                                   *)
Hung == pc = "hung" /\ UNCHANGED vars

(* So it is in the loop on EINTR. *)
Spin == pc = "spin" /\ UNCHANGED vars

(* A seeded fault: flag_need_reopen_log is not set. *)
ReconfNoReopen ==
  /\ pc = "reconf"
  /\ open' = FALSE
  /\ Reconfigure("clear") /\ (link \/ pc' = "spin")
  /\ UNCHANGED <<logVars, via, fgen, pos, eof, offset, cyc, reopen, link, dbVars, histVars>>

(* The end of the HUP, USR1 and USR2 handlers: fclose(fp),                  *)
(* squid_reconfig() and flag_need_reopen_log=1.                             *)
Reconf ==
  /\ pc = "reconf"
  /\ open' = FALSE
  /\ Reconfigure("clear") /\ (link \/ pc' = "spin")
  /\ reopen' = (reopen \/ pc' = "clear")
  /\ UNCHANGED <<logVars, via, fgen, pos, eof, offset, cyc, link, dbVars, histVars>>

(* sig_num=0 *)
SigClear ==
  /\ pc = "clear" /\ pc' = "size"
  /\ sig' = "none"
  /\ UNCHANGED <<logVars, via, fpVars, offset, cyc, reopen, intr, link, dbVars, histVars>>

----------------------------------------------------------------------------
(* fseeko(fp,0,SEEK_END): is there something new? *)
SizeSmaller ==
  /\ pc = "size" /\ open /\ Above(offset, log[fgen])
  /\ pos' = log[fgen] /\ eof' = FALSE
  /\ reopen' = TRUE /\ pc' = "top"
  /\ UNCHANGED <<logVars, via, fgen, open, offset, cyc, sig, intr, link, dbVars, histVars>>

SizeLarger ==
  /\ pc = "size" /\ open /\ Above(log[fgen], offset)
  /\ pos' = offset /\ eof' = FALSE
  /\ pc' = "read"
  /\ UNCHANGED <<logVars, via, fgen, open, offset, cyc, reopen, sig, intr, link, dbVars, histVars>>

SizeSame ==
  /\ pc = "size" /\ open /\ offset = log[fgen] /\ link
  /\ pos' = log[fgen] /\ eof' = FALSE
  /\ pc' = "top"
  /\ UNCHANGED <<logVars, via, fgen, open, offset, cyc, reopen, sig, intr, link, dbVars, histVars>>

(* The handlers left fp closed, and main() uses it all the same: undefined. *)
(* Either the process ends, or the calls fail and ftello() is -1, which is  *)
(* above every offset but Huge itself.                                      *)
SizeClosed ==
  /\ pc = "size" /\ ~open
  /\ \/ Exit /\ UNCHANGED <<logVars, dbVars, events>>
     \/ /\ pc' = IF offset = Huge THEN "top" ELSE "read"
        /\ UNCHANGED <<logVars, via, fpVars, offset, cyc, reopen, sig, intr, link, dbVars, histVars>>

----------------------------------------------------------------------------
(* The reading loop: fgets() and parse_string() per line. *)
(* A seeded fault: the loop does not look at the counter. *)
InLoopEndless == ~eof /\ sig = "none"

InLoop == ~eof /\ cyc < Batch /\ sig = "none"

(* The line that starts where the stream stands. *)
LineAt(p) == p \div 2 + 1
Whole  == pos % 2 = 0 /\ pos + 2 <= log[fgen]
OneMore(count, k) == [count EXCEPT ![k] = @ + 1]
Charge == charged' = [charged EXCEPT ![fgen] = OneMore(@, LineAt(pos))]

(* parse_string() reports a failed statement, and main() goes on to the     *)
(* next line all the same.  A line that it cannot parse has nothing to      *)
(* charge and counts like one that has; without "/" in its mode it leaves a *)
(* code in errno that is EINTR's number.                                    *)
ReadLine ==
  /\ pc = "read" /\ open /\ InLoop /\ Whole
  /\ pos' = pos + 2 /\ cyc' = cyc + 1
  /\ \/ /\ IF link THEN Charge ELSE UNCHANGED charged
        /\ \/ UNCHANGED <<intr, events>>
           \/ "badline" \in Faults /\ Spend /\ intr' = TRUE
     \/ "stmt" \in Faults /\ Spend /\ UNCHANGED <<charged, intr>>
  /\ UNCHANGED <<logVars, pc, via, fgen, open, eof, offset, reopen, sig, link, saved, hist, termSent>>

(* A seeded fault: both halves of a torn line are charged. *)
ReadTornTwice ==
  /\ pc = "read" /\ open /\ InLoop /\ pos < log[fgen] /\ ~Whole
  /\ pos' = pos + 1 /\ cyc' = cyc + 1
  /\ eof' = (pos % 2 = 0)
  /\ link /\ Charge
  /\ UNCHANGED <<logVars, pc, via, fgen, open, offset, reopen, sig, intr, link, saved, hist, histVars>>

(* Half a line: fgets() returns what there is and meets the end of the      *)
(* file.  The first half parses only if just its last field is cut, the     *)
(* second only if just its first is; what cannot be parsed may leave        *)
(* EINTR's number.                                                          *)
Parses == LineAt(pos) \in (IF pos % 2 = 0 THEN LateCuts ELSE EarlyCuts)

ReadTorn ==
  /\ pc = "read" /\ open /\ InLoop /\ pos < log[fgen] /\ ~Whole
  /\ pos' = pos + 1 /\ cyc' = cyc + 1
  /\ eof' = (pos % 2 = 0)
  /\ \/ Parses /\ link /\ Charge /\ UNCHANGED intr
     \/ UNCHANGED charged /\ intr' \in {intr, TRUE}
  /\ UNCHANGED <<logVars, pc, via, fgen, open, offset, reopen, sig, link, saved, hist, histVars>>

ReadEof ==
  /\ pc = "read" /\ open /\ InLoop /\ pos >= log[fgen]
  /\ eof' = TRUE /\ cyc' = cyc + 1
  /\ UNCHANGED <<logVars, pc, via, fgen, pos, open, offset, reopen, sig, intr, link, dbVars, histVars>>

(* On a closed stream every fgets() fails until the counter is used up. *)
ReadClosed ==
  /\ pc = "read" /\ ~open
  /\ cyc' = IF sig = "none" THEN Batch ELSE cyc
  /\ pc' = "save"
  /\ UNCHANGED <<logVars, via, fpVars, offset, reopen, sig, intr, link, dbVars, histVars>>

ReadDone ==
  /\ pc = "read" /\ open /\ ~InLoop
  /\ pc' = "save"
  /\ UNCHANGED <<logVars, via, fpVars, offset, cyc, reopen, sig, intr, link, dbVars, histVars>>

(* A seeded fault: the size of the file is stored, not the position. *)
SaveSize ==
  /\ pc = "save" /\ link
  /\ offset' = IF open THEN log[fgen] ELSE Huge
  /\ saved' = offset'
  /\ pc' = "top"
  /\ UNCHANGED <<logVars, via, fpVars, cyc, reopen, sig, intr, link, ledgerVars, histVars>>

(* offset=ftello(fp) and squid_setlogoffset() *)
Save ==
  /\ pc = "save" /\ link
  /\ offset' = IF open THEN pos ELSE Huge
  /\ saved' = offset'
  /\ pc' = "top"
  /\ UNCHANGED <<logVars, via, fpVars, cyc, reopen, sig, intr, link, ledgerVars, histVars>>

(* A server in strict mode refuses the value that does not fit a bigint. *)
SaveRefused ==
  /\ pc = "save" /\ ~open
  /\ Exit
  /\ UNCHANGED <<logVars, dbVars, events>>

----------------------------------------------------------------------------
(* The world around the daemon. *)

(* squid appends to its log. *)
daemonVars == <<pc, via, fpVars, offset, cyc, reopen, sig, intr, link>>

SquidWrite ==
  /\ present /\ log[cur] < 2 * MaxLines
  /\ \/ log[cur] % 2 = 0 /\ log' = [log EXCEPT ![cur] = @ + 2]
     \/ log[cur] % 2 = 1 /\ log' = [log EXCEPT ![cur] = @ + 1]
     \/ /\ "torn" \in Faults /\ log[cur] % 2 = 0
        /\ log' = [log EXCEPT ![cur] = @ + 1]
  /\ UNCHANGED <<cur, present, rotReq, daemonVars, dbVars, histVars>>

(* squid rotates: it renames the file, which an open stream follows, and    *)
(* creates a new one.                                                       *)
SquidRename ==
  /\ present /\ cur < MaxGen /\ log[cur] % 2 = 0
  /\ \/ rotReq /\ UNCHANGED events
     \/ "rotate" \in Faults /\ ~rotReq /\ Spend
  /\ present' = FALSE
  /\ UNCHANGED <<log, cur, rotReq, daemonVars, dbVars, termSent>>

SquidCreate ==
  /\ ~present
  /\ present' = TRUE /\ cur' = cur + 1 /\ rotReq' = FALSE
  /\ UNCHANGED <<log, daemonVars, dbVars, histVars>>

(* The log is emptied in place: an open stream sees the new, empty file. *)
Truncate ==
  /\ "truncate" \in Faults /\ Spend
  /\ present /\ cur < MaxGen /\ log[cur] % 2 = 0
  /\ cur' = cur + 1
  /\ fgen' = IF open /\ fgen = cur THEN cur + 1 ELSE fgen
  /\ UNCHANGED <<log, present, rotReq, pc, via, pos, open, eof, offset, cyc,
                 reopen, sig, intr, link, dbVars, termSent>>

(* A signal handler runs: the last signal wins.  It may have interrupted    *)
(* usleep(), sleep() or a call of MySQL's.                                  *)
Signal(s) ==
  /\ s \in Signals /\ pc # "down" /\ Spend
  /\ sig' = s /\ intr' \in {intr, TRUE}
  /\ termSent' = (termSent \/ (s = "TERM" /\ pc # "clear"))
  /\ UNCHANGED <<logVars, pc, via, fpVars, offset, cyc, reopen, link, dbVars>>

LoseLink ==
  /\ "link" \in Faults /\ pc # "down" /\ link /\ Spend
  /\ link' = FALSE
  /\ UNCHANGED <<logVars, pc, via, fpVars, offset, cyc, reopen, sig, intr, dbVars, termSent>>

Crash ==
  /\ "crash" \in Faults /\ pc # "down" /\ Spend
  /\ Exit
  /\ UNCHANGED <<logVars, dbVars>>

----------------------------------------------------------------------------
Top    == TopPass \/ TopReopen \/ TopDoubleClose \/ TopMissing
Check  == CheckQuiet \/ CheckReconf \/ CheckRecount \/ CheckMonth
Handle == SigNone \/ SigHup \/ SigUsr1 \/ SigUsr2 \/ SigTerm \/ SigClear
Script == RecountSql \/ ScriptRefused \/ MonthSql \/ Hung \/ Spin \/ Reconf
Size   == SizeSmaller \/ SizeLarger \/ SizeSame \/ SizeClosed
Read   == ReadLine \/ ReadTorn \/ ReadEof \/ ReadClosed \/ ReadDone
Store  == Save \/ SaveRefused

Daemon == Top \/ Check \/ LinkGone \/ Handle \/ Script \/ Size \/ Read \/ Store

Squid  == SquidWrite \/ SquidRename \/ SquidCreate
World  == Squid \/ Truncate \/ (\E s \in Signals : Signal(s)) \/ LoseLink \/ Crash \/ MonthCut

Next == Start \/ Daemon \/ World

Spec == Init /\ [][Next]_vars

(* The daemon is a process of its own that runs when it can; init's script  *)
(* or the operator starts it again; squid completes what it began.          *)
Fairness ==
  /\ WF_vars(Daemon) /\ WF_vars(Start)
  /\ WF_vars(SquidCreate) /\ WF_vars(rotReq /\ SquidRename)

FairSpec == Spec /\ Fairness

----------------------------------------------------------------------------
(* Properties.  Each holds of the worlds (Signals, Cmds, Faults) its runs   *)
(* name; README.md says which and why.                                      *)

Billed(g, k) == charged[g][k] + hist[g][k]

(* No line of the log is charged to its user more than once. *)
NoDoubleCharge == \A g \in Gens, k \in LineNos : Billed(g, k) <= 1

(* Every line of the log at the path that lies before the position stored   *)
(* in sys_trf has been charged: a daemon that starts there skips none.      *)
NoLineSkipped ==
  saved # Huge =>
    \A k \in LineNos :
      (2 * k <= saved /\ 2 * k <= log[cur]) => Billed(cur, k) >= 1

(* A line that went into uhistory with its month does not show up in the    *)
(* current month's counters again.                                          *)
NoLineInTwoMonths ==
  \A g \in Gens, k \in LineNos : ~(charged[g][k] > 0 /\ hist[g][k] > 0)

(* A line is charged only when every earlier line of the same file has been *)
(* charged: the daemon jumps over nothing when it reopens the log, restarts *)
(* or finds the file shrunk.                                                *)
ChargesInOrder ==
  [][\A g \in Gens, k \in LineNos :
       charged'[g][k] > charged[g][k] =>
         \A j \in 1..(k-1) : Billed(g, j) >= 1]_vars

(* Every line squid wrote is charged in the end, unless the log is rotated  *)
(* away or emptied first, the month job hangs, or a reconfiguration waits   *)
(* for an EINTR that never was.                                             *)
EveryLineCharged ==
  \A g \in Gens, k \in LineNos :
    (cur = g /\ log[g] >= 2 * k) ~> (Billed(g, k) >= 1 \/ cur # g \/ pc \in {"hung", "spin"})

(* The handlers of HUP, USR1 and USR2 leave the stream closed.  It is used  *)
(* only for the rest of that turn of the loop, and the next turn is bound   *)
(* to open the log again: no signal, no command and no later batch ever     *)
(* works on the closed stream.                                              *)
ClosedStreamConfined ==
  (pc \notin {"down", "spin"} /\ ~open) =>
    (reopen /\ pc \in {"clear", "size", "read", "save", "top"})

(* A TERM sent to the running daemon ends it, unless it comes between a     *)
(* switch that found no signal and sig_num=0, or a reconfiguration waits    *)
(* for an EINTR that never was.                                             *)
TermStops == termSent ~> (pc \in {"down", "spin"})
=============================================================================

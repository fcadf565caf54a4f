# A verification of the SAcc squid accounting daemon

SAcc counts the traffic of the users of a squid proxy.  A daemon written in C++
(`src/src/main.cpp`) follows squid's `access.log`, adds the size of every line to
the user's counter in MySQL, and rewrites `squid.conf` when users run out of
quota.  PHP pages administrate the users and put commands for the daemon into a
table.  Everything that must survive a restart is in MySQL (MyISAM: no
transactions), most importantly `sys_trf.offset`, the position in the log up to
which lines were counted.

This directory holds TLA+ modules of the daemon, TLC configurations that check
them on small instances and TLAPS proofs of what matters most.

## 1. The system

| Component | State | Operations | Talks to |
|---|---|---|---|
| Log follower: `main()` and its helpers | stream `fp`, `offset`, `cycle_counter`, `flag_need_reopen_log`, `sig_num` | start, reopen, look at the state, handle a signal, read a batch, store the position, leave | squid through the log and `kill`, MySQL |
| Charging: `parse_string()` | the two caches, rows of `users`, `site`, `detail` | parse a line, find its user and tariff, charge | MySQL |
| Command queue and `check_state()` | rows of `queue` and their status | take one command per look, mark it, run it | web pages insert, list and empty it |
| Enforcement: `check_state()`'s counts and `squid_reconfig()` | three counts of users, `squid.conf` and its lists | notice that somebody's standing changed, write the files, signal squid | MySQL, squid |
| Month job and recount: `squid_logrotate()`, `squid_recount()`, `monthly.sql`, `recount.sql` | `users.used`, `uhistory`, `shistory`, quotas, statuses | rotate, close the month, start over | squid, MySQL |
| Login cache, tariff cache | 10 and 1000 slots | look up, fill, reload | MySQL |
| Process start | the PID file | test, fork, write, remove | a second daemon |
| Administration pages (PHP) | users, ACLs, tariffs, queue | add, edit, delete a user; queue, empty, import | MySQL, beside the daemon |
| Statistics pages, reports (PHP) | none | read | MySQL |
| racc (`cisco.cpp`) | counters of a router's traffic | a cron job | MySQL |
| Logging, authentication helpers (third-party), build | none of their own | | |

What is hard in it, and what makes each part correct:

* **Log follower.** The charge of a line and the stored position are separate
  statements, so a crash between them, a signal, a command, a rotation or a
  truncated log decide whether lines are counted twice or never.  Correct means:
  no line is skipped; none is charged twice unless a crash or an operator asked
  for it; none is counted in two months; in the end every line is charged; a TERM
  stops the daemon; the stream a handler closed is not used afterwards.
* **Queue.** One status column is the only memory of what ran; the pages change
  the table under the daemon.  Correct means: a command runs once, what is
  recorded about it is true, and none is taken for another.
* **Enforcement.** Changes are noticed by comparing counts, and the files are
  rewritten in place.  Correct means: in the end the lists agree with the users.
* **Month job.** Eleven statements that may stop anywhere, a calendar month that may
  change while the daemon is down.  Correct means: each month is closed once.
* **Caches.** Filled once and looked at for ever, while pages and jobs change the tables
  they were filled from.  Correct means: a line is charged to the user who has its login, at
  the tariff of its server.
* **Site counters, racc.** An update and, when it met no row, an insert, without a lock or
  a unique key.  Correct means: one row each, which holds the sum of its lines.
* **Process start.** The test for another daemon and the file that shows there is one are far
  apart.  Correct means: one daemon at a time, named by the file.

`PROJECT.json` lists each such hazard at the line where it bites.

## 2. Modules

| Module | Models | Theorems in |
|---|---|---|
| `LogFollow` | the log follower, the core of the system | `LogFollow_proofs`, `LogFollowBilling_proofs` |
| `Billing` | what accounting promises, with no files and no positions: lines are written and billed in order without a gap, at most once (`Spec`, whose safety half is `SafeOnce`) or at least once (`LooseSpec`, `SafeLoose`), and in the end all of them | |
| `LogFollowBilling` | the refinement mapping from the first to the second | `LogFollowBilling_proofs` |
| `CommandQueue` | the table of commands between the pages and the daemon, and the calendar that puts the month job into it | `CommandQueue_proofs` |
| `PidFile` (`PidFileMC`) | start and end of the process, the PID file, the control script | `PidFile_proofs` |
| `Enforcement` | counts, `squid_reconfig()`, pages and squid | `Enforcement_proofs` |
| `Accounts` (`AccountsMC`) | the login cache, autolearning and the charge, beside pages and jobs | `Accounts_proofs` |
| `SiteCounters` | the table `site`: update, delayed insert, month job | `Counters_proofs` |
| `Tariff` | the list of tariffs, the site and the tariff of a line | `Tariff_proofs` |
| `Traffic` | racc and its script | `Counters_proofs` |
| `CountersMC` | the last three for TLC, side by side; they share no state, so one behaviour of it is a behaviour of each | `Counters_proofs` |

The components meet in a few places, and each module carries as much of its neighbour
as reaches it: the commands and jobs of the queue are events in `LogFollow` (what they
do to the position) and in `Enforcement` (what they do to quotas); the pages appear
in `CommandQueue`, `Enforcement`, `Accounts` and `SiteCounters` with the columns that module is
about; a reconfiguration that gets to its end is `Complete` in `Enforcement` and
`ReconfigLoad` in `Tariff`.  Definitions that begin with the comment "Seeded fault" are
no part of a specification: they are the wrong variants of an action with which the
properties are tested.

### LogFollow

One step of the model is the work between two places where something outside (a
signal, squid, a crash, another client of MySQL) can make a difference: `pc` says
in which part of the loop of `main()` (lines 1761-1969) the daemon is.

| `pc` | code | actions |
|---|---|---|
| `down` | not running | `Start` (1717-1759) |
| `top` | 1766-1807 | `TopPass`, `TopReopen`, `TopDoubleClose`, `TopMissing` |
| `check` | 1809-1824, `check_state()` | `CheckQuiet`, `CheckReconf`, `CheckRecount`, `CheckMonth` |
| `signal` | the switch, 1829 | `SigNone`, `SigHup`, `SigUsr1`, `SigUsr2`, `SigTerm` |
| `recount`, `rotate` | before and inside the SQL scripts of 742-803 | `RecountSql`, `MonthSql`, `MonthCut`, `ScriptRefused` |
| `hung` | the loop 784-787 | `Hung` |
| `reconf` | 1833-1838, 1844-1847, 1859-1862 | `Reconf` |
| `spin` | the loop 890-894 | `Spin` |
| `clear` | `sig_num=0`, 1867 | `SigClear` |
| `size` | 1870-1885, 1958-1968 | `SizeSmaller`, `SizeLarger`, `SizeSame`, `SizeClosed` |
| `read` | 1887-1939 | `ReadLine`, `ReadTorn`, `ReadEof`, `ReadClosed`, `ReadDone` |
| `save` | 1941-1942 | `Save`, `SaveRefused` |
| any | every exit for a lost connection | `LinkGone` |

The variables are those of the code (`offset`, `cyc` = `cycle_counter`, `reopen` =
`flag_need_reopen_log`, `sig` = `sig_num`, `fgen`/`pos`/`open`/`eof` = the stream
`fp`), of the database (`saved` = `sys_trf.offset`, `charged` = how often a line is in
`users.used`, `hist` = how often in `uhistory`) and of squid's log.

Decisions:

* *The log.* The file at the path goes through generations: a rotation (rename, then
  create; a moment without a file lies between) or a truncation starts the next one.
  An open stream stays with its generation when the file is renamed and sees
  the new one when it is truncated.  Sizes and positions count halves of a line:
  a whole line is 2, and a read that meets half a line is a torn read.
* *Data.* A line is its generation and number.  `charged` counts how often a line
  was added to its user, so charging twice and not at all are visible.
  Lines that `parse_string()` skips or cannot parse are as good as charged and
  are not distinguished, except that one without "/" in its mode (`badline`, line 1434) leaves 4,
  the number of `EINTR`, in `errno`.
* *Torn lines.* What is read of a line in two halves parses or not, depending on where it is cut: the first half only when
  just the last field is cut (`LateCuts`), the second only when just the first is
  (`EarlyCuts`).  A line can be cut in one place only, so that these sets have no line in common; all other
  halves are refused.
* *`errno`.* `intr` says that it is `EINTR`: a signal that interrupted a call (`Signal` may set it) or a line as above.
  `Reconfigure` is `squid_reconfig()` as far as it matters here: nothing between the handlers and its loop
  on `EINTR` (line 890) resets the number, and the loop does not either, so the daemon may stay there (`spin`); it may
  also get through, as a call on the way may have set `errno` to something else.
* *Closed streams* are undefined behaviour.  The model takes both outcomes seen with a real
  C library: the process ends, or the calls fail, `ftello()` is -1 and, as `unsigned long long`,
  exceeds every size (`Huge`).  MySQL clamps it to the largest bigint
  or, in strict mode, refuses it (`SaveRefused`); a seek there fails.
* *Signals* overwrite `sig_num`; the daemon also sets it to TERM itself when a file
  it needs cannot be opened.  The variable is looked at (1829) and cleared (1867) in two steps, with or without a handler
  between them: what comes in between is erased.
* *Scripts* may fail between two statements (`MonthPart`: before the first, with the history written, with the counters reset,
  with the position reset or not) or be cut there by a crash (`MonthCut`).  A script that fails leaves the daemon's own `offset`.
* *The reading loop* is limited by `cycle_counter`, which the main loop also counts:
  `TestDelay` is `USER_TEST_DELAY` (50 in the code) and `Batch` ten times that.
* *The month job* sleeps 6 seconds for squid to rotate; `slow` is a squid that needs
  longer, or a sleep cut short by a signal.
* *Faults* are a constant: a run names those it has.

Left out: the `-s` mode (no stored position, one pass), the FIFO and DEBUG builds, logging,
statistics printed every 600 seconds.

### CommandQueue

The daemon here is `check_state()` and the signal for the month job; `pc` stands between
two statements to MySQL, because another client or a crash may come there.

| `pc` | code | actions |
|---|---|---|
| `down` | `get_lastlogrotation()`, 565-634 | `Start` |
| `look` | the calendar, 1199-1233; USR1, 1856-1859 | `Look`, `SignalMonth` |
| `select` | 1302-1345, 1362 | `SelectNone`, `SelectRow` |
| `mark` | 1347, 1352, 1357 | `Mark` |
| `run` | 1348, 1353, 1358 | `RunReconf`, `RunRecount`, `RunMonth` |
| `history`, `reset` | `monthly.sql` | `MonthHistory`, `MonthReset` |
| `final` | 1364 | `Final` |

The pages' operations are `PageAdd`, `PageClean` and `PageMark`; MySQL's are `DelayedInsert` and
`DelayedLost`.  A row is `owner[id]` (which command it stands for) and
`status[id]` (the column `complete`); since emptying the table starts the ids again,
a command has a number of its own besides its id.  `ran`, `outcome` and `archived` are history:
how often a command ran and whether without error, how often a month was written
to `uhistory`.  "Without error" is what the functions themselves know: the result 0
of `squid_logrotate()` and `squid_recount()`, a `squid_reconfig()` that got through.
`select ... limit 1` has no order, so any waiting row may be the one.
A month lasts longer than a running daemon needs for the job of the last one (`NextMonth`).
`Look` compares the months with `!=`, as the default build does (`SAFE_LOGROTATE`); with the `<` of the other one
it is the same, since the calendar only goes forward.
That the month job may wait for ever on its stream is in `LogFollow` (`Hung`) and not repeated here.

### PidFile

| `pc` | code | actions |
|---|---|---|
| `read`, `probe` | `checkRunningPid()`, `PidFile_read()` | `Begin`, `Read`, `ProbeRefused`, `ProbePassed` |
| `fork` | the two forks of `sys_daemonize()`, unless started not to | `Fork`, `ForkFails`, `NoDaemon` |
| `signals` | the handlers are installed | `InstallHandlers` |
| `open`, `write` | `PidFile_write()`: `fopen` empties the file, `fclose` fills it | `Open`, `OpenFails`, `Write` |
| `run` | the main loop | `Stop` |
| `unlink`, `fail`, `end` | `exit_all()` | `Unlink`, `Ended` |
| any | | `Crash`, `ForeignStarts`, `ForeignEnds`, `ControlReads`, `ControlStops` |

The kernel gives out any free number, also one that stands in the file (`reused`).  The
control script reads the file and signals later.  `raced` remembers that two starts
overlapped, `victim` that the script killed something else than a daemon.

### Enforcement

| `pc` | code | actions |
|---|---|---|
| `loop` | the rest of `main()`: lines, signals | `Charge`, `BadLine`, `Hup`, `Usr`, `Term` |
| `loop`, `positive`, `negative` | the three counts of `check_state()` | `CountTotal`, `CountPositive`, `CountNegative` |
| `queue` | one command | `Command`, `CommandMonth`, `CommandRecount`, `NoCommand` |
| `final` | the end of `check_state()` after a command | `Final` |
| `open` | `squid_reconfig()` up to the first list | `NoOrig`, `NoConf`, `Truncate`, `NoAcls`, `Spin` |
| `group` | one access list after the other | `GroupEmpty`, `Group`, `NoList`, `Complete` |
| `down` | | `Start`, `Crash` |

The pages are `PageCreate`, `PageSave`, `PageDelete`, `PageKill`, `PageAcl`, `PageAclRemove`; the statements
a page has still to execute are in `due` (`PageMoveUsers`, `PageQueue`), so that the daemon
can come between them.  squid is told (`hup`) and reads later (`SquidReload`), or is
started (`SquidStarts`), perhaps in the middle of a reconfiguration, and reads what is there then.  A user is a
row of his used, quota, status and access list; the files are sets of logins, `conf.rules` the
`http_access` rules in the order in which they are written, `conf.whole` that `squid.conf` was written to its end.  squid decides by the
first rule that is about a user (`Passing`): a group's rule lets its list pass, that of `group_noinet` refuses the disabled
users, of whom some may be in a group's list as well (quota 0 and traffic).
The edit form stores used, quota, status and access list at once (`PageSave`).  A signal may leave `EINTR` in `errno` (`Interrupts`), and
so may a line (`BadLine`); the reconfiguration that follows then stays in its loop (`Spin`).

`since` collects who was entitled at some moment since the files were begun.  `recent` and `lost` describe
what the code does not notice, and nothing else is excepted: a change of status without a
command, two users changing class in one round or in two rounds that follow each other
(the counts may come out equal), and a reconfiguration that was skipped and is not
repeated.  Line 1265 asks for a second query while the first result is not read; the client
library refuses it ("commands out of sync"), so its branch is never taken and is not in the model.
White, black and stop lists and the times of an access list go where its group goes
and are not distinguished from it.

### Accounts

| `pc` | code in `parse_string()` | actions |
|---|---|---|
| `idle` | the search in the cache, 1495-1508 | `ReadHit`, `ReadMiss` |
| `select` | the search in the table | `SelectFound`, `SelectUnknown`, `SelectNew`, `StatementFails` |
| `learn` | option `-a` | `Learn`, `LearnNothing`, `StatementFails` |
| `charge` | the update of `users` | `Charge`, `ChargeNobody`, `ChargeFails` |
| `site` | the update of `site` | `CountSite` |

A line is of a tariff, of a tariff 0 (its site is counted, its user pays nothing) or was answered from squid's cache (its user is
looked up and learned, and nothing is counted); `Bill` is the step from the known id to that.
Beside it `Job` (recount and month), `Restart`, and the pages: creation in two statements with a `used` that is typed (`PageLook`,
`PageCreate`), the edit form, which stores the `used` it showed when it was opened or what was typed over it (`PageOpen`, `PageSave`),
"Delete now" (`PageKill`) and the import, which empties the table, with it starts the ids again, and inserts rows with the
`used` that was exported (`PageImport`, `PageImportRow`).  `stale` holds the ids that changed hands or went while the
daemon ran.  `due` is what a user ought to have used: the lines charged since the counters were cleared, the `used` his row was inserted with, and what
the forms changed on purpose, which is the difference between what was stored and what was shown.  `overwritten` holds the ids stored from
a form that a change of `used` had overtaken while it was open, and `raced` the logins that were inserted while somebody else was about to
insert them, or given to a row by a form while they were taken: no key of the table keeps them apart.

### SiteCounters

`at` is `idle`, `new` (the update met no row and the insert is due) or `truncate` (inside
`monthly.sql`, between the archive and the truncation).  `SiteUpdate`, `SiteMisses`, `SiteInsert` are the end of
`parse_string()`; `DelayedInsert` is the thread of MySQL that writes delayed rows when it likes;
`MonthArchive`, `MonthTruncate`, `MonthFails`, `Recount` the scripts; `PageKillSites` the page.  `booked` counts
the lines of a site; `missed`, `twice`, `late` and `gone` say in which of the four ways its sum may
differ from them.

### Tariff

`Load` is `get_tarified_sites()`: the old entries are freed by the old length, the rows are
written from the start, in any order, as the select has none.  It runs at the start (`StartLoad`, line 1741)
and at the end of a `squid_reconfig()` that gets there (`ReconfigLoad`, 1169).  `LineCounts` is `parse_string()` up to the
lookup of the user: `Host` cuts the url (1436-1458), the last entry that occurs in it decides
(1459-1467).  `LineSkipped` stands for every line that is refused or costs nothing; which of
the tests refuses it makes no difference to the state.  Strings are sequences of
characters, as far as `strstr()` and `strchr()` see them.  No page edits the table, so that
`EditSites` is an edit by hand.  More rows than `TRF_CACHE_SIZE` are excluded by an assumption: the code does
not look, and what a write beyond the array does cannot be modelled.

### Traffic

A script (`ScriptStarts`, `ScriptEnds`) runs racc for each file it found; racc reads a file (`RaccStarts`,
`RaccEnds`, `RaccFails`) and updates or inserts each pair of addresses (`Update`, `UpdateMisses`, `Insert`, `InsertFails`), while
the router's next files are written (`WriteLine`, `CloseFile`).  Two scripts may run at once.  `counted` is what was
counted, `raced` the pairs that two runs looked for before either inserted, `clean` the scripts that
ran alone and met neither a failure nor a growing file.  racc's buffer is not initialized when its
file is empty; that it is parsed then is not modelled.

## 3. What is checked

| Run | World | Properties |
|---|---|---|
| `quiet` | TERM, restarts, reconf and recount commands | `NoDoubleCharge`, `BillsOnce`: exactly once, in order, all lines |
| `crash` | the same and HUP, USR2, crashes, lost connection, failing scripts, no `squid.conf.orig`, lines that leave `EINTR` | `NoLineSkipped`, `BillsAll`: at least once, in order, all lines, unless the daemon stays in the loop of line 890 |
| `lossy` | torn lines, failing statements, rotation by others, truncation, lines that leave `EINTR`, TERM | `NoDoubleCharge`: lines get lost, none is doubled; `TermStops`, but for line 890 and the moment before 1867 |
| `month` | HUP, TERM, USR1 (rotation and month job), lines that leave `EINTR` | `NoLineInTwoMonths`, `ChargesInOrder`, `EveryLineCharged`, the last but for line 890 |
| `faults` | everything | `TypeOK`, `ClosedStreamConfined` |
| `queue_crash` | queue: crashes, failing marks, failing recount, missing squid, USR1 | `TypeOK`, `AtMostOnce`, `CompleteIsTrue`, `EveryMonthArchived` |
| `queue_pages` | no crash of the daemon; one of MySQL, failing scripts and reconfiguration, a dead squid, emptied and marked tables | `ArchivedOnce`, `EveryCommandSettles` |
| `pidfile` | three processes that start, fail, stop and crash, foreign processes, the control script | `TypeOK`, `OneDaemon`, `FileNamesDaemon`, `SignalsReachDaemon` |
| `enforce` | every use of the pages, signal, job and fault, any two of them in a behaviour | `TypeOK`, `ListsFresh`, `Enforced` |
| `accounts` | lines, pages, jobs, failures, restarts | `TypeOK`, `RightRow`, `OneEntry`, `UsedIsDue`, `LoginOnce` |
| `counters` | sites, tariffs and racc, each with its failures | `TypeOK`, `OneRow`, `NeverMore`, `NeverLess`, `BlocksLive`, `TarifInForce`, `SiteIsServer`, `TrafficAddsUp`, `AllFilesOnce` |
| `month_failure_complete` | a month job whose script fails | `CompleteIsTrue`, which TLC refutes |

### Bounds

*Log follower.* `MaxLines` lines per generation, `MaxGen` rotations or truncations, `MaxEvents` signals,
commands and faults of one behaviour; `TestDelay = 1` and `Batch = 3`, so that a batch
ends before the file does and `check_state()` runs every other turn.  Two lines are
enough to be in the middle of a file, three or four to end a batch in it; the
properties compare at most two lines.  Where lines are torn, the first may be cut late and the second
early (`LateCuts = {1}`, `EarlyCuts = {2}`), so that a half of either kind is charged; either may be read in halves, or whole.

*Queue.* `MaxEvents` uses of the pages, signals and faults, `MaxMonth`
changes of the month, and `MaxReqs` commands, enough for both together (an assumption of the module:
the calendar must never be short of a number).  Three events are enough for a page, a fault
and a second page or fault in any order; two rows are enough to mistake one for the other.

*PID file.* Three processes (one that runs, one that starts, one that fails), five numbers, so that one
is free while three processes and a foreign one live, and five starts, crashes and foreign processes.

*Enforcement.* Two users and two access lists, one of the users (`Active`) with lines in the log and with an edit form, which stores
a used of 0 (with a quota) or of 2; a quota of 1 and traffic up to 2:
below, at and above it.  Two events reach two users changing places, a page between the two
halves of another, and a fault after a change.  `Settled` also bounds: squid has
read what it was told before the files are written again, although the daemon waits for nothing between two
reconfigurations (1348, then 1373).

*Accounts.* Three logins for a cache of three slots, of which two are visible: the ring turns and
forgets.  Three ids, two events and five events and lines together.  An import has one row or two.  What is typed or imported is 1 (`Typed`); a form may
also store what it showed.

*Counters.* Two sites, four lines and four jobs or failures (an update that misses twice, a row that lands late).
Two urls of tariffs, one inside a server's name and one of a whole site, tariffs 0 and 3, two rows,
a list of three places and three edits: it grows, shrinks and becomes empty between
loads.  Servers that contain another's name, paths with slashes and `//` of their own.
Two scripts, two pairs, two files, one failure.

`CHECK_DEADLOCK FALSE` stands in `pidfile`, `enforce`, `accounts` and `counters`: there the bounds end a behaviour,
or a system at rest has really nothing to do (no process, an unchanged table, the endless loop of
line 890).  In the others a stuck state is an error.

### Where the code does not keep a promise

Where a property is *not* claimed the code breaks it.  One run shows this
against what the repository says and is the finding of `PROJECT.json`:

* `month_failure_complete`: a failed month script is recorded as complete, as `check_state()`
  knows only one of the two error results.

Six more can be had by changing the constants of a run and checking the one property:

* HUP closes the stream, -1 becomes the offset, and the next turn
  starts the log over: all its lines are charged again.  (`HUP` among the signals of `quiet`: `NoDoubleCharge`.)
* After the queue's month job the same turn reads the old log
  from its start, into the new month.  USR1 closes the stream before that and
  is not affected.  (`month` among the commands of run `month`: `NoLineInTwoMonths`.)
* A rotation by anybody else is never noticed.  (`rotate` among the faults of run `month`: `EveryLineCharged`.)
* TERM during another handler is cleared with it.  (`HUP` among the signals of `lossy`: `TermStops`.)
* A crash in the middle of `monthly.sql`, after the history is written, leaves the lines in the current month too.
  (`crash` among the faults of `month`: `NoLineInTwoMonths`.)
* A HUP that interrupts `usleep()`, or a line without "/" in its mode before any reconfiguration, may leave the daemon in the loop
  of line 890: it bills nothing any more and does not see a TERM.  (The runs `crash`, `lossy` and `month` reach `pc = "spin"`; without
  that exception TLC refutes `BillsAll`, `TermStops` and `EveryLineCharged` there.)

One is a matter of a single moment: a TERM between the look at `sig_num` (1829) and its clearing (1867) is erased.  `termSent` does not note
it; when it does, TLC refutes `TermStops` in `lossy`.

Other limits of the code are seen in the models and kept out of the worlds of the runs,
or are the exceptions of a property, each with a history variable of its own:

* A HUP leaves -1 in `sys_trf.offset`; when the daemon is restarted on it and told to rotate, the
  loop of line 784 has no end (`Hung`).
* "Clear queue" while a command runs: the next command gets the same id and is marked
  complete without having run (hence no `clean` in `queue_crash`).  So is a reconfiguration
  that failed, and a month job whose squid is dead.
* A daemon that ends during a command leaves its row in processing for good (hence no crash
  in `queue_pages`).
* After a restart between queueing and running the month job a second one is queued and
  the month is closed twice (hence no crash for `ArchivedOnce`).
* With an empty history a month that changed while the daemon was down is not closed
  (hence `FirstHistory = TRUE`).
* A command that a page marked as skipped runs when the daemon had selected it before.
* Two starts that overlap both become daemons (`raced`), and the first of them to end removes the
  file of the other.
* A crash leaves its number in the file; when the kernel gives it to another program, the
  start is refused and the control script signals that program (`reused`).
* Two users who change places leave the counts as they were, "Delete" queues no command, and a
  reconfiguration without `squid.conf.orig` is not repeated (`lost`).  After a signal or a line that left `EINTR` in `errno`
  the loop of line 890 has no end (`spin`).
* A user who is deleted, renamed or imported while the daemon has his login in its cache is
  charged under his old id (`stale`).
* With `-a` and without the two options it needs, a login is cached with id 0 and its lines are dropped.
* A form that was open while the daemon charged undoes the charges (`overwritten`).
* A login that the daemon learns while a page creates it, or that an import brings back while the daemon learns it, has two rows (`raced`).
* Two lines of a new site within the delay of the first one's insert make two rows, and from then on
  every update counts twice (`missed`); so do two runs of racc (`raced`).
* A month job that stops between archive and truncation archives the sites again (`twice`), a delayed row that
  lands there is lost (`late`).

### Fairness

`WF(Daemon)`: the daemon is a process that the system schedules; none of its steps
waits for another process except `TopMissing` (a log that is missing) and the rotation.
`WF(Start)`: init or the operator starts it again.  `WF(SquidCreate)` and
`WF(rotReq /\ SquidRename)`: squid, told to rotate, does so, and creates the file it renamed.
Nothing is assumed of squid's writing, of signals or of commands.  In the queue,
`WF(Daemon)` and `WF(Start)` for the same reasons, and `WF(DelayedInsert)`: MySQL's handler
thread executes what is delayed when nobody reads the table.  In `Enforcement`, each together
with `Watch`, which every step carries: `WF(Daemon)`, which includes the start; `WF(PageGoesOn)`, as a page that executed
its first statement executes the others; `WF(SquidReload)`, as squid handles its HUP; `WF(SquidStarts)`, as somebody starts a squid
that stopped.  Of lines, events and the use of pages nothing is assumed.  `PidFile`, `Accounts`, `SiteCounters`,
`Tariff` and `Traffic` state safety only and have no fairness.

## 4. What is proved

For all values of the constants that satisfy the assumptions of the modules.
Some theorems have a hypothesis on what the environment may do: it names the signals, commands and
faults that may be among the constants.  Each is at least as wide as the world of the run that checks the
same property, and each signal, command or fault it leaves out is one with which the code breaks the promise: with it among the
constants of that run TLC finds the property violated (with a rotation among them where the fault is one of rotations).

In `LogFollow_proofs.tla`:

* `TypeCorrect`: `Spec => []TypeOK`.  The inductive invariant adds that a log that is
  missing has a next generation (`~present => cur < MaxGen`).
* `ClosedConfined`: `Spec => []ClosedStreamConfined`.  Inductive as it stands.
* `MonthsApart`: `Spec => []NoLineInTwoMonths`, assuming `Monthly`: no month command of the queue, no failing script and no crash, which could cut the script,
  a squid that is there and rotates in time; everything else may happen, torn lines, lost connections, truncations and foreign rotations too.
  `MonthInv` says where history may be: nothing of a file yet to come is charged and nothing of the log at
  the path is history (`FilesToCome`), the file is gone from the path before the script runs
  (`RotatedFirst`), and the stream is not on a file that is history (`StreamNotHistory`).
  The last one is what a month command of the queue breaks.
* Step lemmas for the modules that extend it: which actions write the ledger, the log and the stream
  (`LedgerSteps`, `LogSteps`, `StreamSteps`), and which line a read charges (`ChargeAt`).

In `LogFollowBilling_proofs.tla`:

* `NoneSkipped`: `Spec => []NoLineSkipped`, assuming `Recoverable` (crashes, lost connections, failing scripts, no
  `squid.conf.orig`, a missing squid, lines that leave `EINTR`; no USR1, no month command).  `NoLineSkipped` speaks of the stored position
  only and is not inductive: the position comes from `offset` or from the
  stream.  The invariant `CoveredInv` therefore says of all three that each line
  before them is charged in the file they are a position of (`AllCovered`), when the control state may use them (`PosCounts`);
  that the stream is on the file at the path except during the month job (`Following`);
  and that positions and file sizes are whole lines (`WholeLines`), without which a read could jump over half a line.
  The recount is the delicate step: it clears the counters, and is safe
  because `squid_recount()` stored position 0 before.
* `InOrder`: `Spec => ChargesInOrder`, assuming `OwnRotations`, which allows USR1 when there are no crashes and no
  failing scripts, and is `Recoverable` without it.  The same invariant, over all generations of the log.
  A crash between the rotation and the new position would leave the old position to the new file;
  that is why USR1 and crashes do not go together.
* `BilledOnce`: `Spec => []NoDoubleCharge`, assuming `CleanStops`: `Monthly`, no lost connection and no HUP.  TERM, USR1 and USR2 may come at any
  moment, statements may fail, lines may be torn, and anybody may
  rotate or truncate the log; the worlds of `quiet` and of `lossy` are among these.  `OnceInv` rests on `MonthInv` and on `ClosedConfined`: the
  position in memory is the stream's between batches (`Undisturbed`);
  no count is above one, neither of this month nor in history (`ChargedOnce`); what is charged of a file lies behind
  the position the daemon goes on from *in that file* and within its size (`ChargedBehind`), where a position inside a line counts the line as charged
  if its first half is one that parses (`Early`: then its second is not); and while the stream is closed nothing is charged at all (`Emptied`), which is why the position -1 that
  the handlers of USR1 and USR2 store does no harm, while that of HUP does.  A position that is taken along to a new file may point
  anywhere: nothing of that file is charged yet.
* `BillsInTurn`: `Spec => Ledger!SafeLoose`, assuming `Recoverable`, and `BillsOnceInTurn`: `Spec => Ledger!SafeOnce`,
  assuming `CleanStops` as well: the step simulation of `Billing`.  A line that squid writes is `Write`, a read that
  charges is `BillNew` or `BillAgain` of the line at the stream, `RecountSql` is `Clear`, all else stutters.  That a read is
  in turn is `CoveredInv`; that it is the first of its line is `OnceInv`.  `OneLog`: while nobody rotates there is one
  file, and nothing is history.

In `CommandQueue_proofs.tla`:

* `QueueTypeCorrect`: `Spec => []TypeOK`.  That ids stay in range needs a count: the ids given
  since the table was last emptied and the delayed commands are together at most as many
  as the commands asked for.
* `RunsAtMostOnce`: `Spec => []AtMostOnce`, in every world.  The property excepts commands whose
  mark failed (`unmarked`); they do run again.  The invariant `OnceInv`: a command that is
  delayed, waits in a row, or was picked and not run yet has not run (`Fresh`, `WaitingNotRun`,
  `JobNotRun`); no two rows are of one command (`RowsApart`); the row of the command that runs
  does not wait any more; and the daemon never writes the status 0 (`NoRowReopened`), which
  keeps a mark that goes to the wrong row harmless for this property.
* `CompleteTold`: `Spec => []CompleteIsTrue`, assuming `Honest`: nobody empties the table while commands run, and
  no failing month script, no dead squid, no unwritable `squid.conf`, which the functions report as success.
  Crashes, failing marks, a failing recount and skipped rows are allowed.  `TruthInv`: the row the daemon holds is
  still its command's and not complete (`OwnRow`), and what it is about to write is true (`ResultIsTrue`).  That
  no other row is of the same command comes from `OnceInv`.
* `MonthArchivedOnce`: `Spec => []ArchivedOnce`, assuming `Calendar`: the calendar alone asks for the
  month job, the daemon does not crash and its marks do not fail.  It holds for either value of `FirstHistory`.  `ArchInv` is about
  the month jobs that can still run (`Armed`: delayed, waiting, or in the daemon's hand): there is at
  most one, and while there is one its month is not archived and the daemon remembers having asked (`OneJob`);
  a month the daemon has not asked for is not archived (`NotYet`).  Emptied tables, lost inserts and skipped
  rows only take jobs away.

In `PidFile_proofs.tla`, for any number of processes:

* `PidTypeCorrect`.
* `OneDaemonAlways`, `FileNames`: `Spec => []OneDaemon`, `Spec => []FileNamesDaemon`.  Neither is inductive: why no second
  daemon starts is what a process that tests the file knows.  `SoloInv` says, unless starts raced: one
  process starts at a time (`OneStart`); the file names the process that serves (`FileHeld`); what a process read and has not
  tested yet is that number (`SeenHeld`); and nobody serves when a start has passed the test (`PastFree`).  It rests on `Numbered`:
  processes that are there have numbers of their own.
* `SignalsReach`: `Spec => []SignalsReachDaemon`.  The number in the file or in the script's hand
  is free, was given out anew, or belongs to a process that has its handlers (`Fresh`).

In `Enforcement_proofs.tla`, for all finite sets of users and all access lists:

* `EnforcementTypeCorrect`: that commands stay in range needs that each event causes at most one.
* `ListsAreFresh`: `Spec => ListsFresh`, an action property.  The invariant `ListsInv`: every list that `squid.conf`
  refers to contains only users who were entitled since it was begun.  This is where it
  matters that an access list without users is left out and not referred to with its old file.

In `Accounts_proofs.tla`, for all logins and sizes of the cache:

* `AccountsTypeCorrect`.
* `OneEntryEach`: `Spec => []OneEntry`.  `RingInv` adds that the pointer is the visible size until the ring is full, so that
  the slot that becomes visible is the one just written, and that a login the table is asked for is not in the ring.
* `RightRowAlways`: `Spec => []RightRow`.  `RightInv` says the same of every slot of the ring, the hidden one included,
  and that ids not given out yet have no login.
* `UsedAlways`: `Spec => []UsedIsDue`.  `UsedInv` adds what an open form knows: while nothing overtook it, the `used` it showed is that of
  its row, so that storing another one changes `used` and `due` alike.
* `LoginAlwaysOnce`: `Spec => []LoginOnce`.  `LoginInv` adds that a login somebody is about to insert is in no row, unless it
  raced.

In `Tariff_proofs.tla`, for all tables, sizes of the list, servers and paths:

* `BlocksAlwaysLive`, `TarifAlwaysInForce`.  `ListInv`: the entries are the rows of the last load, each once.  That each row is among
  them is a counting argument: a listing is an injection between sets of the same size.
* `TariffTypeCorrect`: `TrfSpec => []TrfTypes`.  It rests on `ListInv`: that the list keeps its shape after a load that is
  shorter than the one before needs that the old length is right.
* `SiteAlwaysServer`.  The url is taken apart by theorems about sequences: where its first `//` is, and where the
  first slash after it.

In `Counters_proofs.tla`:

* `SiteTypeCorrect`; `OneRowEach`, `NeverCountedMore`, `NeverCountedLess`.  The invariants speak also of the moment between archive
  and truncation, when what is in the table is counted twice, and of a key for which the insert is due.
* `TrafficTypeCorrect`, `TrafficSums`.  `SumInv`: a pair that will be inserted has no row, unless it raced.
* `AllFilesCounted`: `TrafficSpec => []AllFilesOnce`.  `CleanInv`: a clean script is alone, the files behind it are closed, and a pair's count is that
  of its start, plus the number of files behind it that list the pair, plus one if it was read in
  the current file and needs no insert.
* `CountersTypeCorrect`: `Spec => []TypeOK` of `CountersMC`.  By the lemma `EachSpec` a behaviour of the composition is one of
  each part, so what is proved of a part holds of it.

Every invariant that a run checks is a theorem, and so are the action properties `ChargesInOrder` and `ListsFresh`.
Model-checked only: the liveness properties `TermStops`, `EveryLineCharged`,
`EveryMonthArchived`, `EveryCommandSettles`, `Enforced`, and that every line is billed in the end, which
`BillsOnce` and `BillsAll` say beyond `SafeOnce` and `SafeLoose`.  Fairness and `ENABLED` are out of the
prover's reach.

## 5. Plan

The modules of the plan are written and the invariants of the runs are proved.  What is left are proofs, in this order:

1. Specifications of what the smaller components promise, with their step simulations: a command runs at most
   once (queue), a site counts its lines (counters), one daemon at a time (process start).
2. Wider hypotheses: `NoneSkipped` and `InOrder` with statements that fail (a skipped line is then an exception of its own),
   `MonthArchivedOnce` with crashes while no month job is armed.
3. The safety that the liveness properties rest on: that a daemon that was sent a TERM before its look at `sig_num`
   (`termSent`) keeps the signal until that look, in the worlds of `TermStops`.

## 6. Not modelled, and why

* The table `detail`: the daemon writes a row per line into it and never reads it.
* The individual tests of fields in `parse_string()`: which of them refuses a line changes no state; they are one choice
  (`LineSkipped`).
* The `-s` mode (one pass over a file, no position), the FIFO, DEBUG, IP_STAT, CHEAT_MODE and FAST builds: other
  programs made from the same source.
* The pages of administrators, options, white and black lists and of the event log: they change tables the
  daemon reads as they are, with no state of its own in between.
* The statistics pages and the reports: they read and format.
* `mylog.cpp`: it writes text.
* `src/src/auth`: helpers and libraries of squid and Samba, regular expressions, an allocator and a resolver among them;
  third-party code that is built here and never called by the daemon.
* The add-ons for passwords and backups, installation and `configure`: no run-time state that meets the daemon's.
* The two databases of the router that racc reads: they are the router's.

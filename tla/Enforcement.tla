----------------------------- MODULE Enforcement -----------------------------
(****************************************************************************)
(* How quotas reach squid: the counts that check_state() compares, the      *)
(* rewriting of squid.conf and its lists by squid_reconfig(), and squid,    *)
(* which reads them when it is told to or started.  Beside the daemon the   *)
(* administration pages change users and access lists.                      *)
(****************************************************************************)
EXTENDS Integers, FiniteSets, Sequences

CONSTANTS Users,       \* logins that may be in the table
          Acls,        \* access lists that may be in the table
          DefAcl,      \* option def_timeacl
          Active,      \* bound: the users who have lines in the log and whose form is sent
          MaxUsed,     \* bound: traffic of a user
          MaxQuota,    \* bound: quotas
          MaxEvents,   \* bound: uses of the pages, signals and faults
          Events       \* which of them happen

Kinds == {"create", "save", "kill", "delete", "acl", "aclrm",
          "hup", "usr1", "usr2", "month", "recount", "badline", "noorig", "noconf", "nolist",
          "down", "crash"}

ASSUME EnforcementAssumption ==
  /\ IsFiniteSet(Users) /\ Acls \cap {"none", "queue", "noinet"} = {}
  /\ DefAcl \in Acls /\ Active \subseteq Users /\ Events \subseteq Kinds
  /\ MaxUsed \in Nat /\ MaxQuota \in Nat /\ MaxEvents \in Nat

VARIABLES
  users,     \* the table: the rows that are there, used, quota, status, aid
  acls,      \* ids in the table acl
  asked,     \* waiting commands of the queue: 1 (reconfigure)
  due,       \* statements a page has still to execute
  pc,        \* where the daemon is
  seen,      \* users_total, users_positive, users_negative
  need,      \* need_reconf
  ret,       \* who called squid_reconfig(): the end of check_state(), a command, a signal
  todo,      \* acl rows it has still to write
  intr,      \* errno is EINTR, from an interrupted call or as parse_string()'s code 4
  term,      \* sig_num is TERM
  conf,      \* squid.conf: complete or not, and its http_access rules
  list,      \* the group files
  off,       \* the file of disabled users
  squid,     \* squid: running, told to reload, and what it read last
  since,     \* history: who was enabled and within quota since the files were begun
  recent,    \* history: a change of class since the last count of users (2) or the one before (1)
  lost,      \* history: a change the code does not notice, since the files were begun
  events     \* bounded events so far

table  == <<users, acls, asked, due>>
files  == <<conf, list, off>>
locals == <<seen, need, ret, todo, intr, term>>
vars   == <<table, pc, locals, files, squid, since, recent, lost, events>>

Row == [in : BOOLEAN, used : 0..MaxUsed, quota : 0..MaxQuota, status : 0..3, aid : Acls]
Absent == [in |-> FALSE, used |-> 0, quota |-> 0, status |-> 0, aid |-> DefAcl]
Present == {u \in Users : users[u].in}

(* The three conditions of the code's SQL. *)
Positive(r) == r.used < r.quota \/ r.quota = 0
Negative(r) == r.used > r.quota /\ r.quota # 0
Allowed(r, a) == r.in /\ Positive(r) /\ r.status = 0 /\ r.aid = a

(* Who may pass, by the tables: enabled, within quota, in an access list. *)
EntitledBy(rows, lists) == {u \in Users : \E a \in lists : Allowed(rows[u], a)}
Entitled == EntitledBy(users, acls)

(* Who passes by the files.  The first rule that is about a user decides: a *)
(* group's rule allows who is in its list, the rule of group_noinet denies  *)
(* the disabled users, and "deny all" everybody else.                       *)
NoInet == "noinet"
Confs == [whole : BOOLEAN, rules : Seq(Acls \cup {NoInet})]
Passing(rules, lists, disabled) ==
  {u \in Users : \E i \in DOMAIN rules :
     /\ rules[i] # NoInet /\ u \in lists[rules[i]]
     /\ u \in disabled => \A j \in 1..(i - 1) : rules[j] # NoInet}

(* As installed: no group passes yet. *)
Init ==
  /\ users = [u \in Users |-> [in |-> TRUE, used |-> 0, quota |-> MaxQuota, status |-> 0, aid |-> DefAcl]]
  /\ acls = Acls /\ asked = 0 /\ due = "none"
  /\ pc = "loop" /\ seen = [total |-> 0, positive |-> 0, negative |-> 0]
  /\ need = FALSE /\ ret = "loop" /\ todo = {} /\ intr = FALSE /\ term = FALSE
  /\ conf = [whole |-> TRUE, rules |-> << >>] /\ list = [a \in Acls |-> {}] /\ off = {}
  /\ squid = [up |-> TRUE, hup |-> FALSE, whole |-> TRUE, pass |-> {}]
  /\ since = Users /\ recent = 0 /\ lost = FALSE /\ events = 0

Event(k) == k \in Events /\ events < MaxEvents /\ events' = events + 1

(* What the counts tell apart. *)
Class(r) == IF ~r.in THEN "out" ELSE IF Positive(r) THEN "positive"
            ELSE IF Negative(r) THEN "negative" ELSE "neither"

(* Where squid_reconfig() returns to. *)
Back == IF ret = "final" THEN "final" ELSE "loop"

(* History.  The code does not notice: a change of status without a         *)
(* command; two changes of class in one round of check_state() or in two    *)
(* that follow each other, which may leave the counts as they were; and it  *)
(* does not come back to a reconfiguration that was skipped.                *)
Moved   == {u \in Users : Class(users[u]) # Class(users'[u])}
Silent  == due' = due /\ \E u \in Present : users'[u].in /\ users'[u].status # users[u].status
Skipped == pc' = Back /\ (pc = "open" \/ (pc = "group" /\ ~conf'.whole))

Watch ==
  /\ since' = IF pc = "open" /\ pc' = "group" THEN EntitledBy(users', Acls)
              ELSE IF conf'.whole /\ squid'.up /\ ~squid'.hup THEN Users
              ELSE since \cup EntitledBy(users', Acls)
  /\ recent' = IF Moved # {} THEN 2
               ELSE IF pc = "loop" /\ pc' = "positive" THEN IF recent = 0 THEN 0 ELSE recent - 1
               ELSE recent
  /\ lost' = /\ ~(pc = "open" /\ pc' = "group")
             /\ \/ lost \/ Silent \/ Skipped \/ Cardinality(Moved) > 1
                \/ Moved # {} /\ recent > 0
------------------------------------------------------------------------------
(* check_state() *)
Goto(l) == pc' = l

(* exit_all(), or no more than the end of the process. *)
Ends == Goto("down") /\ term' = FALSE /\ intr' = FALSE /\ need' = FALSE /\ ret' = "loop"
        /\ todo' = {} /\ seen' = [total |-> 0, positive |-> 0, negative |-> 0]

(* One count: a difference asks for a reconfiguration. *)
Compare(field, n) ==
  /\ seen' = [seen EXCEPT ![field] = n]
  /\ need' = (need \/ seen[field] # n)

(* Seeded fault: the difference is not noted. *)
CountPositiveBlind ==
  /\ pc = "positive" /\ Goto("negative")
  /\ seen' = [seen EXCEPT !.positive = Cardinality({u \in Present : Positive(users[u])})]
  /\ UNCHANGED <<table, need, ret, todo, intr, term, files, squid, events>>

CountTotal ==
  /\ pc = "loop" /\ ~term /\ Compare("total", Cardinality(Present)) /\ Goto("positive")
  /\ UNCHANGED <<table, ret, todo, intr, term, files, squid, events>>

CountPositive ==
  /\ pc = "positive" /\ Goto("negative")
  /\ Compare("positive", Cardinality({u \in Present : Positive(users[u])}))
  /\ UNCHANGED <<table, ret, todo, intr, term, files, squid, events>>

CountNegative ==
  /\ pc = "negative" /\ Goto("queue")
  /\ Compare("negative", Cardinality({u \in Present : Negative(users[u])}))
  /\ UNCHANGED <<table, ret, todo, intr, term, files, squid, events>>

(* The end of check_state(): a reconfiguration if a count differed. *)
Decide ==
  /\ Goto(IF need THEN "open" ELSE "loop")
  /\ need' = FALSE /\ ret' = "loop"

(* A reconfiguration by command; perhaps another one for the counts follows. *)
Command ==
  /\ pc = "queue" /\ asked > 0 /\ asked' = asked - 1
  /\ Goto("open") /\ ret' = "final"
  /\ UNCHANGED <<users, acls, due, seen, need, todo, intr, term, files, squid, events>>

(* monthly.sql, as far as it is about users: quotas become what dquota says, *)
(* status 2 becomes 0 and rows with status 3 go.                            *)
MonthRow(r, q) ==
  IF ~r.in \/ r.status = 3 THEN Absent
  ELSE [in |-> TRUE, used |-> 0, quota |-> q, aid |-> r.aid,
        status |-> IF r.status = 2 THEN 0 ELSE r.status]

MonthRows(rows) ==
  {[u \in Users |-> MonthRow(rows[u], q[u])] : q \in [Users -> 0..MaxQuota]}

(* recount.sql *)
RecountRows(rows) == [u \in Users |-> [rows[u] EXCEPT !.used = 0]]

(* The month job by command: no reconfiguration belongs to it. *)
CommandMonth ==
  /\ pc = "queue" /\ Event("month") /\ Decide
  /\ users' \in MonthRows(users)
  /\ UNCHANGED <<acls, asked, due, seen, todo, intr, term, files, squid>>

(* So it is with the recount. *)
CommandRecount ==
  /\ pc = "queue" /\ Event("recount") /\ Decide
  /\ users' = RecountRows(users)
  /\ UNCHANGED <<acls, asked, due, seen, todo, intr, term, files, squid>>

NoCommand ==
  /\ pc = "queue" /\ asked = 0 /\ Decide
  /\ UNCHANGED <<table, seen, todo, intr, term, files, squid, events>>

Final ==
  /\ pc = "final" /\ Decide
  /\ UNCHANGED <<table, seen, todo, intr, term, files, squid, events>>
------------------------------------------------------------------------------
(* squid_reconfig() *)

(* squid.conf.orig is missing: TERM to itself, which a handler forgets. *)
NoOrig ==
  /\ pc = "open" /\ Event("noorig") /\ term' = (ret # "signal") /\ Goto(Back)
  /\ UNCHANGED <<table, seen, need, ret, todo, intr, files, squid>>

(* squid.conf cannot be written: skipped. *)
NoConf ==
  /\ pc = "open" /\ Event("noconf") /\ Goto(Back)
  /\ UNCHANGED <<table, locals, files, squid>>

(* Bound: squid has read what it was told to read. *)
Settled == ~squid.hup

(* squid.conf is emptied; at the line "deny all" the acls are selected. *)
Truncate ==
  /\ pc = "open" /\ ~intr /\ Settled /\ acls # {} /\ Goto("group") /\ todo' = acls
  /\ conf' = [whole |-> FALSE, rules |-> << >>]
  /\ UNCHANGED <<table, seen, need, ret, intr, term, list, off, squid, events>>

(* No acl at all: exit_all(), with squid.conf emptied. *)
NoAcls ==
  /\ pc = "open" /\ ~intr /\ Settled /\ acls = {} /\ Ends
  /\ conf' = [whole |-> FALSE, rules |-> << >>]
  /\ UNCHANGED <<table, list, off, squid, events>>

(* With errno left at EINTR's number the loop around fgets() has no end. *)
Spin ==
  /\ pc = "open" /\ intr /\ Goto("spin") /\ conf' = [whole |-> FALSE, rules |-> << >>]
  /\ UNCHANGED <<table, locals, list, off, squid, events>>

(* Seeded fault: an empty group is referred to all the same. *)
GroupEmptyKept(a) ==
  /\ pc = "group" /\ a \in todo /\ ~\E u \in Users : Allowed(users[u], a)
  /\ todo' = todo \ {a} /\ conf' = [conf EXCEPT !.rules = Append(@, a)]
  /\ UNCHANGED <<pc, table, seen, need, ret, intr, term, list, off, squid, events>>

(* An acl without a user that may pass is left out; its old file stays. *)
GroupEmpty(a) ==
  /\ pc = "group" /\ a \in todo /\ ~\E u \in Users : Allowed(users[u], a)
  /\ todo' = todo \ {a}
  /\ UNCHANGED <<pc, table, seen, need, ret, intr, term, files, squid, events>>

Group(a) ==
  /\ pc = "group" /\ a \in todo /\ \E u \in Users : Allowed(users[u], a)
  /\ todo' = todo \ {a}
  /\ list' = [list EXCEPT ![a] = {u \in Users : Allowed(users[u], a)}]
  /\ conf' = [conf EXCEPT !.rules = Append(@, a)]
  /\ UNCHANGED <<pc, table, seen, need, ret, intr, term, off, squid, events>>

(* A list cannot be written: return, with half a squid.conf. *)
NoList ==
  /\ pc = "group" /\ Event("nolist") /\ Goto(Back) /\ todo' = {}
  /\ UNCHANGED <<table, seen, need, ret, intr, term, files, squid>>

Disabled == {u \in Present : users[u].used > users[u].quota \/ users[u].status > 0}

(* Seeded fault: the disabled users are denied before the groups are allowed. *)
CompleteDeniesFirst ==
  /\ pc = "group" /\ todo = {} /\ Goto(Back)
  /\ off' = Disabled
  /\ conf' = [whole |-> TRUE, rules |-> <<NoInet>> \o conf.rules]
  /\ squid' = [squid EXCEPT !.hup = squid.up]
  /\ UNCHANGED <<table, locals, list, events>>

(* The disabled users, the rest of squid.conf, and HUP. *)
Complete ==
  /\ pc = "group" /\ todo = {} /\ Goto(Back)
  /\ off' = Disabled
  /\ conf' = [whole |-> TRUE, rules |-> Append(conf.rules, NoInet)]
  /\ squid' = [squid EXCEPT !.hup = squid.up]
  /\ UNCHANGED <<table, locals, list, events>>

Reconfigure ==
  \/ NoOrig \/ NoConf \/ Truncate \/ NoAcls \/ Spin \/ (\E a \in Acls : GroupEmpty(a) \/ Group(a)) \/ NoList \/ Complete
------------------------------------------------------------------------------
(* Lines of the log, between two checks. *)
Charge(u) ==
  /\ pc = "loop" /\ ~term /\ users[u].in /\ users[u].used < MaxUsed
  /\ users' = [users EXCEPT ![u] = [users[u] EXCEPT !.used = users[u].used + 1]]
  /\ intr' \in {intr, FALSE}
  /\ UNCHANGED <<acls, asked, due, pc, seen, need, ret, todo, term, files, squid, events>>

(* A line without "/" in its mode: errno = 4. *)
BadLine ==
  /\ pc = "loop" /\ ~term /\ Event("badline") /\ intr' = TRUE
  /\ UNCHANGED <<table, pc, seen, need, ret, todo, term, files, squid>>

(* A signal that interrupts usleep() leaves EINTR in errno. *)
Interrupts == intr' \in {intr, TRUE}

Hup ==
  /\ pc = "loop" /\ ~term /\ Event("hup") /\ Goto("open") /\ ret' = "signal"
  /\ Interrupts
  /\ UNCHANGED <<table, seen, need, todo, term, files, squid>>

(* USR1 and USR2: the month job or the recount, then squid_reconfig(). *)
Usr ==
  /\ pc = "loop" /\ ~term /\ Goto("open") /\ ret' = "signal"
  /\ \/ Event("usr1") /\ users' \in MonthRows(users)
     \/ Event("usr2") /\ users' = RecountRows(users)
  /\ Interrupts
  /\ UNCHANGED <<acls, asked, due, seen, need, todo, term, files, squid>>

(* TERM is handled in the loop; a crash comes anywhere. *)
Term  == pc = "loop" /\ term /\ Ends /\ UNCHANGED <<table, files, squid, events>>
Crash == pc # "down" /\ Event("crash") /\ Ends /\ UNCHANGED <<table, files, squid>>

Start ==
  /\ pc = "down" /\ Goto("loop")
  /\ UNCHANGED <<table, locals, files, squid, events>>

Daemon == \/ CountTotal \/ CountPositive \/ CountNegative
          \/ Command \/ NoCommand \/ Final \/ Reconfigure \/ Term \/ Start
------------------------------------------------------------------------------
(* The pages.  An update and the insert into the queue are two statements. *)
PageIdle(k) == Event(k) /\ due = "none"

PageCreate(u) ==
  /\ PageIdle("create") /\ ~users[u].in
  /\ \E q \in 0..MaxQuota, a \in acls :
       users' = [users EXCEPT ![u] = [in |-> TRUE, used |-> 0, quota |-> q, status |-> 0, aid |-> a]]
  /\ UNCHANGED <<acls, asked, due, pc, locals, files, squid>>

(* The form stores all its fields at once, edited or as they were when it   *)
(* was opened.  Bound: used is stored as 0, with a quota, or as MaxUsed.    *)
PageSave(u) ==
  /\ PageIdle("save") /\ users[u].in
  /\ \E n \in {0, MaxUsed}, q \in 0..MaxQuota, st \in {0, 2}, a \in Acls :
       /\ n = 0 => q > 0
       /\ users' = [users EXCEPT ![u] = [in |-> TRUE, used |-> n, quota |-> q, status |-> st, aid |-> a]]
  /\ due' = "queue"
  /\ UNCHANGED <<acls, asked, pc, locals, files, squid>>

(* "Delete": status 3, and no command. *)
PageDelete(u) ==
  /\ PageIdle("delete") /\ users[u].in /\ users' = [users EXCEPT ![u].status = 3]
  /\ UNCHANGED <<acls, asked, due, pc, locals, files, squid>>

(* "Delete now": the row goes, and no command. *)
PageKill(u) ==
  /\ PageIdle("kill") /\ users[u].in
  /\ users' = [users EXCEPT ![u] = Absent]
  /\ UNCHANGED <<acls, asked, due, pc, locals, files, squid>>

PageAcl ==
  /\ PageIdle("acl") /\ \E a \in Acls : acls' = acls \cup {a}
  /\ due' = "queue"
  /\ UNCHANGED <<users, asked, pc, locals, files, squid>>

(* Removing an acl, even the default one: its row, then its users, then the *)
(* command.                                                                *)
PageAclRemove(a) ==
  /\ PageIdle("aclrm") /\ a \in acls
  /\ acls' = acls \ {a} /\ due' = a
  /\ UNCHANGED <<users, asked, pc, locals, files, squid>>

(* Seeded fault: the page is sent again. *)
PageQueueAgain ==
  /\ due = "queue" /\ asked' = asked + 1
  /\ UNCHANGED <<users, acls, due, pc, locals, files, squid, events>>

PageMoveUsers ==
  /\ due \in Acls /\ due' = "queue"
  /\ users' = [u \in Users |-> IF users[u].aid = due THEN [users[u] EXCEPT !.aid = DefAcl] ELSE users[u]]
  /\ UNCHANGED <<acls, asked, pc, locals, files, squid, events>>

PageQueue ==
  /\ due = "queue" /\ due' = "none" /\ asked' = asked + 1
  /\ UNCHANGED <<users, acls, pc, locals, files, squid, events>>

Page == \/ PageAcl \/ (\E a \in Acls : PageAclRemove(a)) \/ (\E u \in Active : PageSave(u))
        \/ \E u \in Users : PageCreate(u) \/ PageDelete(u) \/ PageKill(u)
PageGoesOn == PageMoveUsers \/ PageQueue
------------------------------------------------------------------------------
(* squid *)
Reads == [up |-> TRUE, hup |-> FALSE, whole |-> conf.whole, 
          pass |-> Passing(conf.rules, list, off)]

SquidReload ==
  /\ squid.up /\ squid.hup /\ squid' = Reads
  /\ UNCHANGED <<table, pc, locals, files, events>>

SquidStops ==
  /\ squid.up /\ Event("down") /\ squid' = [squid EXCEPT !.up = FALSE, !.hup = FALSE]
  /\ UNCHANGED <<table, pc, locals, files>>

SquidStarts ==
  /\ ~squid.up /\ squid' = Reads
  /\ UNCHANGED <<table, pc, locals, files, events>>

Next == /\ \/ Daemon \/ CommandMonth \/ CommandRecount \/ (\E u \in Active : Charge(u)) \/ BadLine
           \/ Hup \/ Usr \/ Crash
           \/ Page \/ PageGoesOn \/ SquidReload \/ SquidStops \/ SquidStarts
        /\ Watch

Fairness == /\ WF_vars(Daemon /\ Watch) /\ WF_vars(PageGoesOn /\ Watch)
            /\ WF_vars(SquidReload /\ Watch) /\ WF_vars(SquidStarts /\ Watch)

Spec == Init /\ [][Next]_vars /\ Fairness
------------------------------------------------------------------------------
(* Types, the type invariant. *)
TypeOK ==
  /\ users \in [Users -> Row] /\ acls \subseteq Acls /\ asked \in 0..MaxEvents
  /\ due \in {"none", "queue"} \cup Acls
  /\ pc \in {"loop", "positive", "negative", "queue", "final",
             "open", "group", "spin", "down"}
  /\ seen \in [total : 0..Cardinality(Users), positive : 0..Cardinality(Users),
               negative : 0..Cardinality(Users)]
  /\ need \in BOOLEAN /\ ret \in {"loop", "final", "signal"} /\ todo \subseteq Acls
  /\ intr \in BOOLEAN /\ term \in BOOLEAN
  /\ conf \in Confs
  /\ list \in [Acls -> SUBSET Users] /\ off \subseteq Users
  /\ squid \in [up : BOOLEAN, hup : BOOLEAN, whole : BOOLEAN, pass : SUBSET Users]
  /\ since \subseteq Users /\ lost \in BOOLEAN /\ recent \in 0..2 /\ events \in 0..MaxEvents

(* Whenever squid reads a complete squid.conf, whoever passes by it was     *)
(* entitled at some moment since squid_reconfig() began it: no list of an   *)
(* earlier time is left in it.                                              *)
SquidRead == squid'.up /\ ~squid'.hup /\ (squid.hup \/ ~squid.up)
ListsFresh == [][SquidRead /\ squid'.whole => squid'.pass \subseteq since]_vars

Agrees == squid.up /\ squid.whole /\ squid.pass = Entitled

(* Once nothing changes any more, squid lets exactly those pass whom the    *)
(* tables entitle, whatever crashed or was missing on the way; unless the   *)
(* code did not notice the last change (lost), has no user to count, or     *)
(* waits for an EINTR that never was.                                       *)
Enforced == <>[](Agrees \/ lost \/ Present = {} \/ acls = {} \/ pc = "spin")
=============================================================================

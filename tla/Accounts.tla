------------------------------ MODULE Accounts ------------------------------
(****************************************************************************)
(* Whom a line of the log is charged to: the lookup of its login in the     *)
(* cache and in the table users, autolearning and the charge, statement by  *)
(* statement (parse_string() in src/src/main.cpp), beside the pages that    *)
(* create, edit, kill and import users and the jobs that clear the          *)
(* counters.  A line charged is one unit of traffic; the counters of sites, *)
(* which take the id found here, are in SiteCounters.                       *)
(****************************************************************************)
EXTENDS Integers, FiniteSets

CONSTANTS Logins,      \* logins in the log and in the table
          None,        \* no login
          CacheSize,   \* USER_CACHE_SIZE
          MaxId,       \* bound: ids of users
          Typed,       \* bound: amounts typed into a form or found in an import
          MaxEvents,   \* bound: uses of the pages, jobs and failures
          MaxSteps     \* bound: those and lines

ASSUME AccountsAssumption ==
  /\ None \notin Logins
  /\ CacheSize \in Nat /\ CacheSize >= 2
  /\ MaxId \in Nat /\ Typed \subseteq Nat /\ MaxEvents \in Nat /\ MaxSteps \in Nat

VARIABLES
  flags,         \* autolearn: option -a; defaults: the options it needs are in the table
  login, used,   \* the table users, by id
  nextId,        \* its auto_increment
  cache, pointer, filled,  \* ucache, ucpointer, uccsize
  pc, line, uid, \* where parse_string() is, with which line and id
  creating,      \* login a page has looked for and will create
  form,          \* an edit form that is open
  importing,     \* logins an import has still to insert
  stale,         \* history: ids that changed hands or went since the daemon started
  due,           \* history: the lines charged since the counters were cleared,
                 \* and what the pages added to them or took from them on purpose
  overwritten,   \* history: ids stored from a form that a change of used had overtaken
  raced,         \* history: logins inserted while somebody else was about to insert them
  lines, events  \* bounded

table == <<login, used, nextId>>
ring  == <<cache, pointer, filled>>
local == <<flags, pc, line, uid>>
pages == <<creating, form, importing>>
past  == <<stale, due, overwritten, raced>>
bound == <<lines, events>>
vars  == <<table, ring, local, pages, past, bound>>

Ids   == 1..MaxId
Owners == 0..MaxId      \* mysql_insert_id() may be 0
Slots == 0..(CacheSize - 1)
LineKinds == {"paid", "free", "cached"}   \* of a tarif, of a tarif 0, from squid's cache
NoForm == [id |-> 0, shown |-> 0, fresh |-> TRUE]
NoLine == [login |-> None, kind |-> "paid"]

Named(l) == {u \in Ids : login[u] = l}

Init ==
  /\ flags \in [autolearn : BOOLEAN, defaults : BOOLEAN]
  /\ nextId \in 1..MaxId /\ login \in [Ids -> Logins \cup {None}]
  /\ \A u, v \in Ids : (login[u] = None) = (u >= nextId) /\ (login[u] = login[v] /\ u < nextId => u = v)
  /\ used = [u \in Ids |-> 0]
  /\ cache = [i \in Slots |-> [uname |-> None, uid |-> 0]] /\ pointer = 0 /\ filled = 0
  /\ pc = "idle" /\ line = NoLine /\ uid = 0
  /\ creating = None /\ form = NoForm /\ importing = {}
  /\ stale = {} /\ due = [u \in Ids |-> 0]
  /\ overwritten = {} /\ raced = {} /\ lines = 0 /\ events = 0

Event == lines + events < MaxSteps /\ events < MaxEvents /\ events' = events + 1
------------------------------------------------------------------------------
(* parse_string() *)
Goto(l) == pc' = l

(* uid is static, but every line sets it before it is used. *)
Return == Goto("idle") /\ line' = NoLine /\ uid' = 0

(* Seeded fault: the lookup overlooks the newest entry. *)
HitsShort(l) == {i \in Slots : i < filled - 1 /\ cache[i].uname = l}

(* The lookup stops before uccsize, and at a hit. *)
Hits(l) == {i \in Slots : i < filled /\ cache[i].uname = l}

(* The id is known.  A line that squid answered from its cache counts for   *)
(* nothing; one of a tarif 0 is not charged, only its site is counted.      *)
Bill(u, ln) ==
  IF ln.kind = "cached" THEN Return
  ELSE Goto(IF ln.kind = "free" THEN "site" ELSE "charge") /\ line' = ln /\ uid' = u

ReadHit(ln) ==
  /\ pc = "idle" /\ lines + events < MaxSteps /\ lines' = lines + 1
  /\ \E i \in Hits(ln.login) : Bill(cache[i].uid, ln)
  /\ UNCHANGED <<flags, table, ring, pages, past, events>>

ReadMiss(ln) ==
  /\ pc = "idle" /\ lines + events < MaxSteps /\ lines' = lines + 1
  /\ line' = ln /\ Hits(ln.login) = {}
  /\ Goto("select")
  /\ UNCHANGED <<flags, table, ring, uid, pages, past, events>>

(* Seeded fault: the pointer runs one slot too far. *)
RememberOver(l, u) ==
  /\ cache' = [cache EXCEPT ![pointer] = [uname |-> l, uid |-> u]]
  /\ pointer' = IF pointer = CacheSize THEN 0 ELSE pointer + 1
  /\ filled' = IF filled < CacheSize - 1 THEN filled + 1 ELSE filled

(* Seeded fault: the id goes into the slot after the name's. *)
RememberApart(l, u) ==
  LET next == IF pointer + 1 = CacheSize THEN 0 ELSE pointer + 1 IN
  /\ cache' = [cache EXCEPT ![pointer].uname = l, ![next].uid = u]
  /\ pointer' = next
  /\ filled' = IF filled < CacheSize - 1 THEN filled + 1 ELSE filled

(* The next slot of the ring; the size stops one short of it. *)
Remember(l, u) ==
  /\ cache' = [cache EXCEPT ![pointer] = [uname |-> l, uid |-> u]]
  /\ pointer' = IF pointer + 1 = CacheSize THEN 0 ELSE pointer + 1
  /\ filled' = IF filled < CacheSize - 1 THEN filled + 1 ELSE filled

(* select id from users where login=...: the first row that comes. *)
SelectFound ==
  /\ pc = "select" /\ \E u \in Named(line.login) : Bill(u, line) /\ Remember(line.login, u)
  /\ UNCHANGED <<flags, table, pages, past, bound>>

(* An unknown user's line is dropped. *)
SelectUnknown ==
  /\ pc = "select" /\ Named(line.login) = {} /\ ~flags.autolearn /\ Return
  /\ UNCHANGED <<flags, table, ring, pages, past, bound>>

(* With -a the login becomes a user. *)
SelectNew ==
  /\ pc = "select" /\ Named(line.login) = {} /\ flags.autolearn /\ Goto("learn")
  /\ UNCHANGED <<flags, table, ring, line, uid, pages, past, bound>>

(* Seeded fault: a select that fails is taken for one that found nobody. *)
SelectFailsNew ==
  /\ pc = "select" /\ Event /\ flags.autolearn /\ Goto("learn")
  /\ UNCHANGED <<flags, table, ring, line, uid, pages, past, lines>>

(* The select or the insert fails: the line is dropped. *)
StatementFails ==
  /\ pc \in {"select", "learn"} /\ Event /\ Return
  /\ UNCHANGED <<flags, table, ring, pages, past, lines>>

(* Who will insert a row of the login, having found none or emptied the table. *)
Inserters(l) == {w \in {"daemon", "page", "import"} :
                   \/ w = "daemon" /\ pc = "learn" /\ line.login = l
                   \/ w = "page" /\ creating = l
                   \/ w = "import" /\ l \in importing}

(* An open form is overtaken by whatever changes used of its row. *)
Overtake(s) == form' = IF form.id \in s THEN [form EXCEPT !.fresh = FALSE] ELSE form

(* A row of the table with n used; its id is that of mysql_insert_id().     *)
Insert(who, l, n) ==
  /\ nextId \in Ids /\ nextId' = nextId + 1
  /\ login' = [login EXCEPT ![nextId] = l] /\ used' = [used EXCEPT ![nextId] = n]
  /\ due' = [due EXCEPT ![nextId] = n] /\ overwritten' = overwritten \ {nextId}
  /\ raced' = IF Inserters(l) \ {who} # {} THEN raced \cup {l} ELSE raced
  /\ Overtake({nextId})

(* The new row's used is the column's default, 0. *)
Learn ==
  /\ pc = "learn" /\ flags.defaults /\ Insert("daemon", line.login, 0)
  /\ Bill(nextId, line) /\ Remember(line.login, nextId)
  /\ UNCHANGED <<flags, creating, importing, stale, bound>>

(* insert ... select of options that are not there inserts nothing: id 0. *)
LearnNothing ==
  /\ pc = "learn" /\ ~flags.defaults /\ Bill(0, line) /\ Remember(line.login, 0)
  /\ UNCHANGED <<flags, table, pages, past, bound>>

Exists(u) == u \in Ids /\ login[u] # None

(* Seeded fault: the charge goes by login, to every row that has it. *)
ChargeByLogin ==
  /\ pc = "charge" /\ Exists(uid) /\ Goto("site")
  /\ used' = [u \in Ids |-> IF login[u] = line.login THEN used[u] + 1 ELSE used[u]]
  /\ due' = [due EXCEPT ![uid] = due[uid] + 1] /\ Overtake({uid})
  /\ UNCHANGED <<flags, login, nextId, ring, line, uid, creating, importing, stale, overwritten, raced, bound>>

(* update users set used=used+... where id=... *)
Charge ==
  /\ pc = "charge" /\ Exists(uid) /\ Goto("site")
  /\ used' = [used EXCEPT ![uid] = used[uid] + 1]
  /\ due' = [due EXCEPT ![uid] = due[uid] + 1] /\ Overtake({uid})
  /\ UNCHANGED <<flags, login, nextId, ring, line, uid, creating, importing, stale, overwritten, raced, bound>>

(* No row was updated: the line is dropped. *)
ChargeNobody ==
  /\ pc = "charge" /\ ~Exists(uid) /\ Return
  /\ UNCHANGED <<flags, table, ring, pages, past, bound>>

(* A statement that fails affects -1 rows, which is not 0: on to the site.  *)
ChargeFails ==
  /\ pc = "charge" /\ Event /\ Goto("site")
  /\ UNCHANGED <<flags, table, ring, line, uid, pages, past, lines>>

(* The counters of the site, by the same id. *)
CountSite ==
  /\ pc = "site" /\ Return
  /\ UNCHANGED <<flags, table, ring, pages, past, bound>>

(* The jobs of the daemon: counters are cleared, the month drops some users. *)
Job(dead) ==
  /\ pc = "idle" /\ Event
  /\ login' = [u \in Ids |-> IF u \in dead THEN None ELSE login[u]]
  /\ used' = [u \in Ids |-> 0] /\ due' = [u \in Ids |-> 0] /\ overwritten' = {}
  /\ stale' = stale \cup dead /\ Overtake(Ids)
  /\ UNCHANGED <<nextId, ring, local, creating, importing, raced, lines>>

(* The daemon ends and is started: its cache is gone. *)
Restart ==
  /\ Event /\ Return
  /\ cache' = [i \in Slots |-> [uname |-> None, uid |-> 0]] /\ pointer' = 0 /\ filled' = 0
  /\ stale' = {}
  /\ UNCHANGED <<flags, table, pages, due, overwritten, raced, lines>>
------------------------------------------------------------------------------
(* The pages. *)

(* Creation: a look for the login, then the insert; no unique key helps. *)
PageLook(l) ==
  /\ creating = None /\ Event /\ Named(l) = {} /\ creating' = l
  /\ UNCHANGED <<table, ring, local, form, importing, past, lines>>

PageCreate ==
  /\ creating # None /\ creating' = None /\ \E n \in Typed : Insert("page", creating, n)
  /\ UNCHANGED <<ring, local, importing, stale, bound>>

(* The form shows what was used when it was opened. *)
PageOpen(u) ==
  /\ form = NoForm /\ Event /\ Exists(u)
  /\ form' = [id |-> u, shown |-> used[u], fresh |-> TRUE]
  /\ UNCHANGED <<table, ring, local, creating, importing, past, lines>>

(* It stores login and used as they stand in it, edited or not, and looks   *)
(* for nothing.                                                             *)
PageSave(l, n) ==
  /\ form # NoForm /\ Exists(form.id) /\ form' = NoForm
  /\ login' = [login EXCEPT ![form.id] = l] /\ used' = [used EXCEPT ![form.id] = n]
  /\ due' = [due EXCEPT ![form.id] = due[form.id] + (n - form.shown)]
  /\ overwritten' = IF form.fresh THEN overwritten ELSE overwritten \cup {form.id}
  /\ stale' = IF login[form.id] = l THEN stale ELSE stale \cup {form.id}
  /\ raced' = IF login[form.id] # l /\ (Named(l) # {} \/ Inserters(l) # {}) THEN raced \cup {l} ELSE raced
  /\ UNCHANGED <<nextId, ring, local, creating, importing, bound>>

PageSaveNobody ==
  /\ form # NoForm /\ ~Exists(form.id) /\ form' = NoForm
  /\ UNCHANGED <<table, ring, local, creating, importing, past, bound>>

(* "Delete now". *)
PageKill(u) ==
  /\ Event /\ Exists(u) /\ login' = [login EXCEPT ![u] = None] /\ stale' = stale \cup {u}
  /\ UNCHANGED <<used, nextId, ring, local, pages, due, overwritten, raced, lines>>

(* Import: truncate, which starts the ids again, then row after row.        *)
(* Bound: one row or two.                                                   *)
PageImport(s) ==
  /\ importing = {} /\ Event /\ importing' = s
  /\ login' = [u \in Ids |-> None] /\ nextId' = 1 /\ stale' = stale \cup 1..(nextId - 1)
  /\ UNCHANGED <<used, ring, local, creating, form, due, overwritten, raced, lines>>

(* With the used that was exported. *)
PageImportRow(l) ==
  /\ l \in importing /\ importing' = importing \ {l} /\ \E n \in Typed : Insert("import", l, n)
  /\ UNCHANGED <<ring, local, creating, stale, bound>>

ParseString ==
  \/ \E l \in Logins, k \in LineKinds : LET ln == [login |-> l, kind |-> k] IN ReadHit(ln) \/ ReadMiss(ln)
  \/ SelectFound \/ SelectUnknown \/ SelectNew \/ StatementFails \/ Learn \/ LearnNothing
  \/ Charge \/ ChargeNobody \/ ChargeFails \/ CountSite

Page ==
  \/ \E l \in Logins : PageLook(l) \/ PageImportRow(l)
  \/ \E l \in Logins, n \in Typed \cup {form.shown} : PageSave(l, n)
  \/ \E u \in Ids : PageOpen(u) \/ PageKill(u)
  \/ PageCreate \/ PageSaveNobody \/ \E k, l \in Logins : PageImport({k, l})

Next == \/ ParseString \/ Page \/ Restart
        \/ \E dead \in SUBSET {u \in Ids : login[u] # None} : Job(dead)

Spec == Init /\ [][Next]_vars
------------------------------------------------------------------------------
(* Types, the type invariant. *)
TypeOK ==
  /\ flags \in [autolearn : BOOLEAN, defaults : BOOLEAN]
  /\ login \in [Ids -> Logins \cup {None}] /\ used \in [Ids -> Nat] /\ nextId \in 1..(MaxId + 1)
  /\ cache \in [Slots -> [uname : Logins \cup {None}, uid : Owners]]
  /\ pointer \in Slots /\ filled \in 0..(CacheSize - 1)
  /\ pc \in {"idle", "select", "learn", "charge", "site"}
  /\ line \in [login : Logins \cup {None}, kind : LineKinds] /\ uid \in Owners
  /\ creating \in Logins \cup {None} /\ form \in [id : Owners, shown : Nat, fresh : BOOLEAN]
  /\ importing \subseteq Logins /\ stale \subseteq Ids
  /\ due \in [Ids -> Int]
  /\ overwritten \subseteq Ids /\ raced \subseteq Logins \cup {None}
  /\ lines \in 0..MaxSteps /\ events \in 0..MaxEvents

(* A line is charged, and its site counted, to the row of its own login;    *)
(* unless that id changed hands or went while the daemon ran, or the line   *)
(* was learned without the options.  In particular no line of a user who is *)
(* in the table under the id he always had is dropped.                      *)
RightRow ==
  pc \in {"charge", "site"} =>
    \/ uid \in Ids /\ login[uid] = line.login
    \/ uid \in stale
    \/ uid = 0 /\ ~flags.defaults

(* No login is twice among the slots that the lookup sees. *)
OneEntry ==
  \A i, j \in Slots :
    i < filled /\ j < filled /\ cache[i].uname = cache[j].uname => i = j

(* What a user used is what his lines were charged since the counters were  *)
(* cleared, with what the pages typed, imported or changed on purpose;      *)
(* unless a form was stored that a charge, a job or an import had overtaken *)
(* while it was open.                                                       *)
UsedIsDue ==
  \A u \in Ids : Exists(u) => used[u] = due[u] \/ u \in overwritten

(* No login has two rows, although no key of the table forbids it, unless a *)
(* row was inserted while another one who had found none was still to       *)
(* insert his, or a form gave a row a login that was taken: the daemon does *)
(* not learn whom it has.                                                   *)
LoginOnce ==
  \A u, v \in Ids : Exists(u) /\ login[u] = login[v] => u = v \/ login[u] \in raced
=============================================================================

---------------------------- MODULE SiteCounters ----------------------------
(****************************************************************************)
(* The table site: an update, an insert delayed when it met no row, the     *)
(* thread of the server that writes delayed rows, and what empties the      *)
(* table (parse_string() in src/src/main.cpp, monthly.sql, recount.sql, the *)
(* page that kills a user).  The table has no unique key.  A key is one     *)
(* site of one user, a line one unit of traffic.                            *)
(****************************************************************************)
EXTENDS Integers, FiniteSets

CONSTANTS Keys,           \* users, each with a site
          NoKey,          \* none of them
          MaxSiteLines,   \* bound: lines
          MaxSiteEvents   \* bound: jobs, kills, failures

ASSUME SiteAssumption ==
  NoKey \notin Keys /\ MaxSiteLines \in Nat /\ MaxSiteEvents \in Nat

VARIABLES
  rows, size,      \* the table site: rows of a key and their sum
  pending,         \* rows the server has still to write
  archived,        \* sums in the table shistory
  at, key,         \* where the daemon is: idle, new, truncate
  booked,          \* history: lines of a key since it was last emptied on purpose
  missed,          \* history: keys whose delayed row an update did not meet
  twice,           \* history: keys a broken month job left to be archived again
  late,            \* history: keys with a row written between archive and truncate
  gone,            \* history: keys that lost a row or a statement
  siteLines, siteEvents  \* bounded

content  == <<rows, size, pending, archived>>
account  == <<booked, missed, twice, late, gone>>
siteVars == <<content, at, key, account, siteLines, siteEvents>>

Zero == [k \in Keys |-> 0]
Add(f, k, n) == [f EXCEPT ![k] = f[k] + n]
Total(k) == size[k] + pending[k] + archived[k]

SiteInit ==
  /\ rows = Zero /\ size = Zero /\ pending = Zero /\ archived = Zero
  /\ at = "idle" /\ key = NoKey
  /\ booked = Zero /\ missed = {} /\ twice = {} /\ late = {} /\ gone = {}
  /\ siteLines = 0 /\ siteEvents = 0

SiteLine  == siteLines < MaxSiteLines /\ siteLines' = siteLines + 1 /\ UNCHANGED siteEvents
SiteEvent == siteEvents < MaxSiteEvents /\ siteEvents' = siteEvents + 1 /\ UNCHANGED siteLines
------------------------------------------------------------------------------
(* parse_string() *)

(* Seeded fault: the number of rows that were updated is not looked at. *)
SiteUpdateInserts(k) ==
  /\ at = "idle" /\ rows[k] > 0 /\ SiteLine
  /\ size' = Add(size, k, rows[k]) /\ at' = "new" /\ key' = k
  /\ UNCHANGED <<rows, pending, archived, account>>

(* update site set size=size+...: every row of the key. *)
SiteUpdate(k) ==
  /\ at = "idle" /\ rows[k] > 0 /\ SiteLine
  /\ size' = Add(size, k, rows[k]) /\ booked' = Add(booked, k, 1)
  /\ UNCHANGED <<rows, pending, archived, at, key, missed, twice, late, gone>>

(* Seeded fault: the key for the insert is not kept. *)
SiteMissesUnset(k) ==
  /\ at = "idle" /\ rows[k] = 0 /\ SiteLine /\ at' = "new" /\ key' = key
  /\ missed' = IF pending[k] > 0 THEN missed \cup {k} ELSE missed
  /\ UNCHANGED <<content, booked, twice, late, gone>>

SiteMisses(k) ==
  /\ at = "idle" /\ rows[k] = 0 /\ SiteLine /\ at' = "new" /\ key' = k
  /\ missed' = IF pending[k] > 0 THEN missed \cup {k} ELSE missed
  /\ UNCHANGED <<content, booked, twice, late, gone>>

(* A query that fails affects -1 rows: no insert follows. *)
SiteUpdateFails(k) ==
  /\ at = "idle" /\ SiteEvent /\ booked' = Add(booked, k, 1) /\ gone' = gone \cup {k}
  /\ UNCHANGED <<content, at, key, missed, twice, late>>

SiteInsert ==
  /\ at = "new" /\ at' = "idle" /\ key' = NoKey
  /\ pending' = Add(pending, key, 1) /\ booked' = Add(booked, key, 1)
  /\ UNCHANGED <<rows, size, archived, missed, twice, late, gone, siteLines, siteEvents>>

(* Nobody looks whether the insert failed. *)
SiteInsertFails ==
  /\ at = "new" /\ SiteEvent /\ at' = "idle" /\ key' = NoKey
  /\ booked' = Add(booked, key, 1) /\ gone' = gone \cup {key}
  /\ UNCHANGED <<content, missed, twice, late>>

(* The server writes a delayed row when it likes. *)
DelayedInsert(k) ==
  /\ pending[k] > 0 /\ pending' = Add(pending, k, -1)
  /\ rows' = Add(rows, k, 1) /\ size' = Add(size, k, 1)
  /\ late' = IF at = "truncate" THEN late \cup {k} ELSE late
  /\ UNCHANGED <<archived, at, key, booked, missed, twice, gone, siteLines, siteEvents>>

(* The server dies: its delayed rows are lost. *)
ServerCrash ==
  /\ SiteEvent /\ pending' = Zero /\ gone' = gone \cup {k \in Keys : pending[k] > 0}
  /\ UNCHANGED <<rows, size, archived, at, key, booked, missed, twice, late>>
------------------------------------------------------------------------------
(* Seeded fault: the archive comes after the truncation, with nothing left. *)
MonthArchiveLate ==
  /\ at = "idle" /\ SiteEvent /\ at' = "truncate" /\ late' = {}
  /\ UNCHANGED <<content, key, booked, missed, twice, gone>>

(* monthly.sql runs on a connection of its own, statement by statement, but *)
(* the daemon waits for it.                                                 *)
MonthArchive ==
  /\ at = "idle" /\ SiteEvent /\ at' = "truncate" /\ late' = {}
  /\ archived' = [k \in Keys |-> archived[k] + size[k]]
  /\ UNCHANGED <<rows, size, pending, key, booked, missed, twice, gone>>

(* truncate table site; a delayed row may go with it or not. *)
Truncate == rows' = Zero /\ size' = Zero /\ pending' \in {pending, Zero}

(* Seeded fault: the table is not emptied. *)
MonthKeeps ==
  /\ at = "truncate" /\ at' = "idle" /\ late' = {}
  /\ UNCHANGED <<content, key, booked, missed, twice, gone, siteLines, siteEvents>>

MonthTruncate ==
  /\ at = "truncate" /\ at' = "idle" /\ Truncate /\ late' = {}
  /\ gone' = gone \cup late \cup {k \in Keys : pending'[k] < pending[k]}
  /\ UNCHANGED <<archived, key, booked, missed, twice, siteLines, siteEvents>>

(* A statement of the script fails, or the daemon dies: the month is        *)
(* archived and still in the table.                                         *)
MonthFails ==
  /\ at = "truncate" /\ SiteEvent /\ at' = "idle" /\ late' = {}
  /\ twice' = twice \cup {k \in Keys : size[k] > 0}
  /\ UNCHANGED <<content, key, booked, missed, gone>>

Recount ==
  /\ at = "idle" /\ SiteEvent /\ Truncate
  /\ booked' = [k \in Keys |-> pending'[k] + archived[k]]
  /\ missed' = {k \in Keys : pending'[k] > 1} /\ twice' = {} /\ gone' = {}
  /\ UNCHANGED <<archived, at, key, late>>

(* "Delete now": delete from site where u_id=... *)
PageKillSites(k) ==
  /\ SiteEvent /\ rows' = [rows EXCEPT ![k] = 0] /\ size' = [size EXCEPT ![k] = 0]
  /\ booked' = [booked EXCEPT ![k] = pending[k] + archived[k]]
  /\ missed' = IF pending[k] > 1 THEN missed \cup {k} ELSE missed
  /\ late' = late \ {k}
  /\ UNCHANGED <<pending, archived, at, key, twice, gone>>

SiteCrash ==
  /\ at = "new" /\ SiteEvent /\ at' = "idle" /\ key' = NoKey
  /\ UNCHANGED <<content, account>>

SiteNext ==
  \/ \E k \in Keys : \/ SiteUpdate(k) \/ SiteMisses(k) \/ SiteUpdateFails(k)
                     \/ DelayedInsert(k) \/ PageKillSites(k)
  \/ SiteInsert \/ SiteInsertFails \/ ServerCrash \/ SiteCrash
  \/ MonthArchive \/ MonthTruncate \/ MonthFails \/ Recount

SiteSpec == SiteInit /\ [][SiteNext]_siteVars
------------------------------------------------------------------------------
(* Types, the type invariant. *)
SiteTypes ==
  /\ rows \in [Keys -> Nat] /\ size \in [Keys -> Nat] /\ pending \in [Keys -> Nat]
  /\ archived \in [Keys -> Nat] /\ booked \in [Keys -> Nat]
  /\ at \in {"idle", "new", "truncate"} /\ key \in Keys \cup {NoKey} /\ (at = "new" => key \in Keys)
  /\ missed \subseteq Keys /\ twice \subseteq Keys /\ late \subseteq Keys /\ gone \subseteq Keys
  /\ siteLines \in 0..MaxSiteLines /\ siteEvents \in 0..MaxSiteEvents

(* The site of a user has one row, written or still delayed, unless an      *)
(* update came while the row was delayed (main.cpp:1587 and 1595).          *)
OneRow == \A k \in Keys : rows[k] + pending[k] <= 1 \/ k \in missed

(* A site is not counted higher, in this month and the archived ones        *)
(* together, than its lines, unless its rows were doubled in that way, or a *)
(* month job broke off between archive and truncation.                      *)
NeverMore ==
  at # "truncate" => \A k \in Keys : Total(k) <= booked[k] \/ k \in missed \cup twice

(* Nor is it counted lower, unless a statement failed, the server lost      *)
(* delayed rows, or one was written between archive and truncation.         *)
NeverLess == \A k \in Keys : Total(k) >= booked[k] \/ k \in gone
=============================================================================

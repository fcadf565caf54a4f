------------------------------- MODULE Tariff -------------------------------
(****************************************************************************)
(* What a line of the log costs: the list of sites with a tariff that the   *)
(* daemon keeps in memory (get_tarified_sites() in src/src/main.cpp), and   *)
(* parse_string() up to the lookup of the user: which lines count, under    *)
(* which site, at which tariff.  Strings are sequences of characters as far *)
(* as strstr() and strchr() look at them.                                   *)
(****************************************************************************)
EXTENDS Integers, Sequences, FiniteSetsExt, Functions

CONSTANTS SiteUrls,     \* column url of the table tsites
          Tarifs,       \* its column tarif
          SiteIds,      \* bound: its ids
          TrfCacheSize, \* TRF_CACHE_SIZE
          Servers,      \* bound: servers in requests, without a slash
          Paths,        \* bound: paths in requests, empty or with a slash first
          MaxEdits      \* bound: edits of the table and failures

ASSUME TariffAssumption ==
  /\ SiteIds \subseteq Nat \ {0} /\ IsFiniteSet(SiteIds) /\ Tarifs \subseteq Nat
  /\ TrfCacheSize \in Nat /\ Cardinality(SiteIds) <= TrfCacheSize /\ MaxEdits \in Nat
  /\ Servers \subseteq Seq(STRING) /\ Paths \subseteq Seq(STRING)
  /\ \A s \in Servers : \A i \in DOMAIN s : s[i] # "/"
  /\ \A p \in Paths : p = <<>> \/ p[1] = "/"

VARIABLES
  tsites,           \* the table: a row for each of some ids
  tcache, trfsize,  \* the list in memory and its length
  running,          \* the daemon is
  charge,           \* history: the last line that counted
  inForce,          \* history: the table when the list was loaded
  edits             \* bounded

trfVars == <<tsites, tcache, trfsize, running, charge, inForce, edits>>

Slots    == 0..(TrfCacheSize - 1)
SiteRow  == [url : SiteUrls, tarif : Tarifs]
NoCharge == [counted |-> FALSE]
Empty    == [url |-> <<>>, tid |-> 0, tval |-> 0, live |-> FALSE]

TrfInit ==
  /\ \E ids \in SUBSET SiteIds : tsites \in [ids -> SiteRow]
  /\ tcache = [i \in Slots |-> Empty] /\ trfsize = 0 /\ running = FALSE
  /\ charge = NoCharge /\ inForce = tsites /\ edits = 0

Edit == edits < MaxEdits /\ edits' = edits + 1
------------------------------------------------------------------------------
(* get_tarified_sites() *)

(* The rows as the select gives them, in any order. *)
Listings(t) == Injection(0..(Cardinality(DOMAIN t) - 1), DOMAIN t)

(* Seeded fault: an empty table leaves the old length. *)
LoadKeepsSize ==
  \E f \in Listings(tsites) :
    /\ tcache' = [i \in Slots |->
         IF i \in DOMAIN f THEN [url |-> tsites[f[i]].url, tid |-> f[i], tval |-> tsites[f[i]].tarif, live |-> TRUE]
         ELSE [tcache[i] EXCEPT !.live = tcache[i].live /\ i >= trfsize]]
    /\ trfsize' = IF DOMAIN f = {} THEN trfsize ELSE Cardinality(DOMAIN f)
    /\ inForce' = tsites /\ charge' = NoCharge

(* Seeded fault: what the old list points to is not freed. *)
LoadLeaks ==
  \E f \in Listings(tsites) :
    /\ tcache' = [i \in Slots |->
         IF i \in DOMAIN f THEN [url |-> tsites[f[i]].url, tid |-> f[i], tval |-> tsites[f[i]].tarif, live |-> TRUE]
         ELSE tcache[i]]
    /\ trfsize' = Cardinality(DOMAIN f)
    /\ inForce' = tsites /\ charge' = NoCharge

(* The old urls are freed, the new ones written over them from the start. *)
Load ==
  \E f \in Listings(tsites) :
    /\ tcache' = [i \in Slots |->
         IF i \in DOMAIN f THEN [url |-> tsites[f[i]].url, tid |-> f[i], tval |-> tsites[f[i]].tarif, live |-> TRUE]
         ELSE [tcache[i] EXCEPT !.live = tcache[i].live /\ i >= trfsize]]
    /\ trfsize' = Cardinality(DOMAIN f)
    /\ inForce' = tsites /\ charge' = NoCharge

StartLoad == ~running /\ running' = TRUE /\ Load /\ UNCHANGED <<tsites, edits>>

(* At the end of a squid_reconfig() that gets there. *)
ReconfigLoad == running /\ Load /\ UNCHANGED <<tsites, running, edits>>

(* The process ends, its memory with it: a select that fails, a stop. *)
Ends ==
  /\ running /\ running' = FALSE /\ Edit
  /\ tcache' = [i \in Slots |-> Empty] /\ trfsize' = 0 /\ charge' = NoCharge
  /\ UNCHANGED <<tsites, inForce>>

(* The table is edited by hand; no page does. *)
EditSites ==
  /\ Edit
  /\ \E id \in SiteIds :
       \/ \E r \in SiteRow : tsites' = [i \in DOMAIN tsites \cup {id} |-> IF i = id THEN r ELSE tsites[i]]
       \/ tsites' = [i \in DOMAIN tsites \ {id} |-> tsites[i]]
  /\ UNCHANGED <<tcache, trfsize, running, charge, inForce>>
------------------------------------------------------------------------------
(* parse_string() *)

(* A request: CONNECT logs a server alone, the others a url with a scheme.  *)
Requests ==
  [scheme : {TRUE}, server : Servers, path : Paths] \cup [scheme : {FALSE}, server : Servers, path : {<<>>}]
Url(r) == IF r.scheme THEN <<"h", ":", "/", "/">> \o r.server \o r.path ELSE r.server

Slashes(u, from) == {i \in from..Len(u) : u[i] = "/"}
Doubles(u) == {i \in 1..(Len(u) - 1) : u[i] = "/" /\ u[i + 1] = "/"}

(* Seeded fault: the site ends at the last slash. *)
HostLast(u) ==
  IF Doubles(u) = {} THEN u
  ELSE LET rest == Slashes(u, Min(Doubles(u)) + 2) IN
       IF rest = {} THEN SubSeq(u, Min(Doubles(u)) + 2, Len(u)) ELSE SubSeq(u, 1, Max(rest))

(* After "//" up to the next slash, that and the scheme included; without   *)
(* that slash the scheme is left out too.                                   *)
Host(u) ==
  IF Doubles(u) = {} THEN u
  ELSE LET rest == Slashes(u, Min(Doubles(u)) + 2) IN
       IF rest = {} THEN SubSeq(u, Min(Doubles(u)) + 2, Len(u)) ELSE SubSeq(u, 1, Min(rest))

Occurs(s, u) == \E i \in 0..(Len(u) - Len(s)) : SubSeq(u, i + 1, i + Len(s)) = s

(* The entries that occur in a host; the last one decides. *)
Entries(host) == {i \in Slots : i < trfsize /\ Occurs(tcache[i].url, host)}

Counted(r, host, tid, tarif) == [counted |-> TRUE, request |-> r, site |-> host, tid |-> tid, tarif |-> tarif]

LineCounts(r) ==
  LET host == Host(Url(r)) IN
  /\ running
  /\ \/ Entries(host) = {} /\ charge' = Counted(r, host, 0, 1)
     \/ \E i \in Entries(host) :
          /\ \A j \in Entries(host) : j <= i
          /\ charge' = Counted(r, host, tcache[i].tid, tcache[i].tval)
  /\ UNCHANGED <<tsites, tcache, trfsize, running, inForce, edits>>

(* A line with too few fields, or one whose time, address, code or mode is  *)
(* not of its form, is an error; a short line, nothing sent, no user, a     *)
(* local or no server, a refusal or a hit in squid's cache cost nothing.    *)
LineSkipped ==
  /\ running /\ charge' = NoCharge
  /\ UNCHANGED <<tsites, tcache, trfsize, running, inForce, edits>>

TrfNext ==
  \/ StartLoad \/ ReconfigLoad \/ Ends \/ EditSites \/ LineSkipped
  \/ \E r \in Requests : LineCounts(r)

TrfSpec == TrfInit /\ [][TrfNext]_trfVars
------------------------------------------------------------------------------
Tables == UNION {[ids -> SiteRow] : ids \in SUBSET SiteIds}

(* Types, the type invariant. *)
TrfTypes ==
  /\ tsites \in Tables /\ inForce \in Tables
  /\ tcache \in [Slots -> [url : SiteUrls \cup {<<>>}, tid : SiteIds \cup {0}, tval : Tarifs \cup {0}, live : BOOLEAN]]
  /\ trfsize \in 0..TrfCacheSize /\ running \in BOOLEAN /\ edits \in 0..MaxEdits
  /\ \/ charge = NoCharge
     \/ /\ charge.request \in Requests /\ charge.tid \in SiteIds \cup {0} /\ charge.tarif \in Tarifs \cup {1}
        /\ charge = Counted(charge.request, Host(Url(charge.request)), charge.tid, charge.tarif)

(* Exactly the entries of the list are allocated: none is freed and used,   *)
(* none is lost, over any number of loads that grow, shrink or empty it     *)
(* (main.cpp:497-561).                                                      *)
BlocksLive == {i \in Slots : tcache[i].live} = {i \in Slots : i < trfsize}

(* A line is charged at the tariff of a row that was in the table at the    *)
(* last load and whose url occurs in the line's site, and at the normal     *)
(* tariff only when there was none (main.cpp:1459-1467).                    *)
TarifInForce ==
  charge.counted =>
    LET matching == {id \in DOMAIN inForce : Occurs(inForce[id].url, charge.site)} IN
    IF charge.tid = 0 THEN matching = {} /\ charge.tarif = 1
    ELSE charge.tid \in matching /\ charge.tarif = inForce[charge.tid].tarif

(* Lines of one server come to one site, whatever their path: the scheme,   *)
(* the server and a slash, or the server alone when nothing follows it      *)
(* (main.cpp:1434-1458).                                                    *)
SiteIsServer ==
  charge.counted =>
    charge.site = IF charge.request.scheme /\ charge.request.path # <<>>
                  THEN <<"h", ":", "/", "/">> \o charge.request.server \o <<"/">>
                  ELSE charge.request.server
=============================================================================

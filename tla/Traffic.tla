------------------------------ MODULE Traffic ------------------------------
(****************************************************************************)
(* racc (src/src/cisco.cpp): the accounting tables of a router, one file    *)
(* per visit, are added up in the table traffic by update or insert.  The   *)
(* script src/addons/racc/recount runs racc for every file there is; no     *)
(* lock keeps a second one away, and the last file may still be written.  A *)
(* router names a pair of addresses once per table; every count is one.     *)
(****************************************************************************)
EXTENDS Integers, FiniteSets

CONSTANTS Scripts,     \* runs of the script recount
          Pairs,       \* source and destination
          Files,       \* visits of the router
          NoPair, NoFile,
          MaxFaults,   \* bound: failures
          MaxRuns      \* bound: starts of the script

ASSUME TrafficAssumption ==
  /\ NoPair \notin Pairs /\ NoFile \notin Files /\ IsFiniteSet(Files)
  /\ MaxFaults \in Nat /\ MaxRuns \in Nat

VARIABLES
  entries, bytes,  \* the table traffic: rows of a pair and their sum
  lists,           \* pairs in a file
  closed,          \* files that are complete
  step,            \* where a script is: off, next, read, insert
  todo, file,      \* its files that are left, and the one racc reads
  seen, pair,      \* what racc has read of it, and the pair it will insert
  counted,         \* history: statements that counted a pair
  raced,           \* history: pairs that two scripts looked for before either inserted
  before, found,   \* history: counts and files when a script started
  clean,           \* history: scripts that ran alone and met no failure
  faults, runs     \* bounded

tableVars   == <<entries, bytes>>
fileVars    == <<lists, closed>>
scriptVars  == <<step, todo, file, seen, pair>>
historyVars == <<counted, raced, before, found, clean>>
limits      == <<faults, runs>>
trafficVars == <<tableVars, fileVars, scriptVars, historyVars, limits>>

None0 == [k \in Pairs |-> 0]

TrafficInit ==
  /\ entries = None0 /\ bytes = None0
  /\ lists = [f \in Files |-> {}] /\ closed = {}
  /\ step = [s \in Scripts |-> "off"] /\ todo = [s \in Scripts |-> {}]
  /\ file = [s \in Scripts |-> NoFile] /\ seen = [s \in Scripts |-> {}] /\ pair = [s \in Scripts |-> NoPair]
  /\ counted = None0 /\ raced = {}
  /\ before = [s \in Scripts |-> None0] /\ found = [s \in Scripts |-> {}] /\ clean = {}
  /\ faults = 0 /\ runs = 0

Present == closed \cup {f \in Files : lists[f] # {}}
Fault   == faults < MaxFaults /\ faults' = faults + 1 /\ UNCHANGED runs
------------------------------------------------------------------------------
(* get_stat writes a file. *)
WriteLine(f, k) ==
  /\ f \notin closed /\ k \notin lists[f] /\ lists' = [lists EXCEPT ![f] = lists[f] \cup {k}]
  /\ UNCHANGED <<tableVars, closed, scriptVars, historyVars, limits>>

CloseFile(f) ==
  /\ f \notin closed /\ closed' = closed \cup {f}
  /\ UNCHANGED <<tableVars, lists, scriptVars, historyVars, limits>>

(* for i in `ls ./data` *)
ScriptStarts(s) ==
  /\ step[s] = "off" /\ runs < MaxRuns /\ runs' = runs + 1
  /\ step' = [step EXCEPT ![s] = "next"] /\ todo' = [todo EXCEPT ![s] = Present]
  /\ before' = [before EXCEPT ![s] = counted] /\ found' = [found EXCEPT ![s] = Present]
  /\ clean' = IF \A o \in Scripts : step[o] = "off" THEN {s} ELSE {}
  /\ UNCHANGED <<tableVars, fileVars, file, seen, pair, counted, raced, faults>>

(* Seeded fault: racc goes on where it was in the file before. *)
RaccStartsThere(s, f) ==
  /\ step[s] = "next" /\ f \in todo[s] /\ todo' = [todo EXCEPT ![s] = todo[s] \ {f}]
  /\ step' = [step EXCEPT ![s] = "read"] /\ file' = [file EXCEPT ![s] = f]
  /\ UNCHANGED <<tableVars, fileVars, seen, pair, historyVars, limits>>

(* racc -f file *)
RaccStarts(s, f) ==
  /\ step[s] = "next" /\ f \in todo[s] /\ todo' = [todo EXCEPT ![s] = todo[s] \ {f}]
  /\ step' = [step EXCEPT ![s] = "read"] /\ file' = [file EXCEPT ![s] = f]
  /\ seen' = [seen EXCEPT ![s] = {}]
  /\ UNCHANGED <<tableVars, fileVars, pair, historyVars, limits>>

ScriptEnds(s) ==
  /\ step[s] = "next" /\ todo[s] = {} /\ step' = [step EXCEPT ![s] = "off"]
  /\ seen' = [seen EXCEPT ![s] = {}] /\ clean' = clean \ {s}
  /\ before' = [before EXCEPT ![s] = None0] /\ found' = [found EXCEPT ![s] = {}]
  /\ UNCHANGED <<tableVars, fileVars, todo, file, pair, counted, raced, limits>>

Reads(s, k) ==
  step[s] = "read" /\ k \in lists[file[s]] \ seen[s] /\ seen' = [seen EXCEPT ![s] = seen[s] \cup {k}]

(* Seeded fault: the row is inserted although others were updated. *)
UpdateInserts(s, k) ==
  /\ Reads(s, k) /\ entries[k] > 0 /\ bytes' = [bytes EXCEPT ![k] = bytes[k] + entries[k]]
  /\ step' = [step EXCEPT ![s] = "insert"] /\ pair' = [pair EXCEPT ![s] = k]
  /\ UNCHANGED <<entries, fileVars, todo, file, historyVars, limits>>

(* update traffic set bytes=bytes+...: every row of the pair. *)
Update(s, k) ==
  /\ Reads(s, k) /\ entries[k] > 0 /\ bytes' = [bytes EXCEPT ![k] = bytes[k] + entries[k]]
  /\ counted' = [counted EXCEPT ![k] = counted[k] + 1]
  /\ UNCHANGED <<entries, fileVars, step, todo, file, pair, raced, before, found, clean, limits>>

UpdateMisses(s, k) ==
  /\ Reads(s, k) /\ entries[k] = 0
  /\ step' = [step EXCEPT ![s] = "insert"] /\ pair' = [pair EXCEPT ![s] = k]
  /\ raced' = IF \E o \in Scripts : pair[o] = k THEN raced \cup {k} ELSE raced
  /\ UNCHANGED <<tableVars, fileVars, todo, file, counted, before, found, clean, limits>>

(* insert into traffic *)
Insert(s) ==
  /\ step[s] = "insert" /\ step' = [step EXCEPT ![s] = "read"] /\ pair' = [pair EXCEPT ![s] = NoPair]
  /\ entries' = [entries EXCEPT ![pair[s]] = entries[pair[s]] + 1]
  /\ bytes' = [bytes EXCEPT ![pair[s]] = bytes[pair[s]] + 1]
  /\ counted' = [counted EXCEPT ![pair[s]] = counted[pair[s]] + 1]
  /\ UNCHANGED <<fileVars, todo, file, seen, raced, before, found, clean, limits>>

(* Nobody looks whether it failed. *)
InsertFails(s) ==
  /\ step[s] = "insert" /\ Fault /\ clean' = clean \ {s}
  /\ step' = [step EXCEPT ![s] = "read"] /\ pair' = [pair EXCEPT ![s] = NoPair]
  /\ UNCHANGED <<tableVars, fileVars, todo, file, seen, counted, raced, before, found>>

(* racc ends, at the end of the file; *)
Leave(s) ==
  /\ step' = [step EXCEPT ![s] = "next"] /\ file' = [file EXCEPT ![s] = NoFile]
  /\ pair' = [pair EXCEPT ![s] = NoPair]

RaccEnds(s) ==
  /\ step[s] = "read" /\ lists[file[s]] = seen[s] /\ Leave(s)
  /\ clean' = IF file[s] \in closed THEN clean ELSE clean \ {s}
  /\ UNCHANGED <<tableVars, fileVars, todo, seen, counted, raced, before, found, limits>>

(* at an update that fails (affected -1), without a connection, or killed.  *)
(* The script goes on with the next file.                                   *)
RaccFails(s) ==
  /\ step[s] \in {"read", "insert"} /\ Fault /\ Leave(s) /\ clean' = clean \ {s}
  /\ UNCHANGED <<tableVars, fileVars, todo, seen, counted, raced, before, found>>

TrafficNext ==
  \/ \E f \in Files : CloseFile(f) \/ \E k \in Pairs : WriteLine(f, k)
  \/ \E s \in Scripts :
       \/ ScriptStarts(s) \/ ScriptEnds(s) \/ Insert(s) \/ InsertFails(s)
       \/ RaccEnds(s) \/ RaccFails(s)
       \/ \E f \in Files : RaccStarts(s, f)
       \/ \E k \in Pairs : Update(s, k) \/ UpdateMisses(s, k)

TrafficSpec == TrafficInit /\ [][TrafficNext]_trafficVars
------------------------------------------------------------------------------
(* Types, the type invariant. *)
TrafficTypes ==
  /\ entries \in [Pairs -> Nat] /\ bytes \in [Pairs -> Nat] /\ counted \in [Pairs -> Nat]
  /\ lists \in [Files -> SUBSET Pairs] /\ closed \subseteq Files
  /\ step \in [Scripts -> {"off", "next", "read", "insert"}] /\ todo \in [Scripts -> SUBSET Files]
  /\ file \in [Scripts -> Files \cup {NoFile}] /\ seen \in [Scripts -> SUBSET Pairs]
  /\ pair \in [Scripts -> Pairs \cup {NoPair}] /\ raced \subseteq Pairs
  /\ before \in [Scripts -> [Pairs -> Nat]] /\ found \in [Scripts -> SUBSET Files] /\ clean \subseteq Scripts
  /\ \A s \in Scripts : /\ (step[s] = "insert") = (pair[s] # NoPair)
                        /\ (step[s] \in {"read", "insert"}) = (file[s] # NoFile)
  /\ faults \in 0..MaxFaults /\ runs \in 0..MaxRuns

(* A pair has one row with everything that was counted, unless two scripts  *)
(* both found none before either inserted (cisco.cpp, update and insert).   *)
TrafficAddsUp ==
  \A k \in Pairs : (entries[k] <= 1 /\ bytes[k] = counted[k]) \/ k \in raced

(* A script that ran alone, met no failure and no file that was still       *)
(* written has counted every line of every file it found, once.             *)
AllFilesOnce ==
  \A s \in clean : step[s] = "next" /\ todo[s] = {} =>
    \A k \in Pairs : counted[k] = before[s][k] + Cardinality({f \in found[s] : k \in lists[f]})
=============================================================================

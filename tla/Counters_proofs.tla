--------------------------- MODULE Counters_proofs ---------------------------
(****************************************************************************)
(* Proofs about SiteCounters and Traffic, for all sets of keys, scripts,    *)
(* files and pairs and all bounds, and about the instance of CountersMC     *)
(* that puts them beside Tariff.                                            *)
(****************************************************************************)
EXTENDS CountersMC, Tariff_proofs

USE SiteAssumption, TrafficAssumption

(* The counters of a site. *)
(* A key for which a row will be inserted has none, or is missed already.   *)
OneRowInv == OneRow /\ (at = "new" => rows[key] + pending[key] = 0 \/ key \in missed)

(* What is archived while the table waits for its truncation is no more     *)
(* than the lines, since what is in the table is archived as well,          *)
MoreInv ==
  NeverMore /\
  (at = "truncate" => \A k \in Keys : archived[k] + pending[k] <= booked[k] \/ k \in missed \cup twice)

(* and no less, but for a row that was written too late.                    *)
LessInv ==
  NeverLess /\
  (at = "truncate" => \A k \in Keys : archived[k] + pending[k] >= booked[k] \/ k \in gone \cup late)
------------------------------------------------------------------------------
LEMMA SiteTypesInit == SiteInit => SiteTypes
BY DEF SiteInit, SiteTypes, Zero

LEMMA SiteTypesStep == SiteTypes /\ [SiteNext]_siteVars => SiteTypes'
<1> SUFFICES ASSUME SiteTypes, [SiteNext]_siteVars PROVE SiteTypes' OBVIOUS
<1>1. ASSUME NEW k \in Keys, SiteUpdate(k) PROVE SiteTypes'
  BY <1>1 DEF SiteUpdate, Add, SiteLine, SiteTypes
<1>2. ASSUME NEW k \in Keys, SiteMisses(k) PROVE SiteTypes'
  BY <1>2 DEF SiteMisses, SiteLine, content, SiteTypes
<1>3. ASSUME NEW k \in Keys, SiteUpdateFails(k) PROVE SiteTypes'
  BY <1>3 DEF SiteUpdateFails, Add, SiteEvent, content, SiteTypes
<1>4. ASSUME NEW k \in Keys, DelayedInsert(k) PROVE SiteTypes'
  BY <1>4 DEF DelayedInsert, Add, SiteTypes
<1>5. ASSUME NEW k \in Keys, PageKillSites(k) PROVE SiteTypes'
  BY <1>5 DEF PageKillSites, SiteEvent, SiteTypes
<1>6. CASE SiteInsert
  BY <1>6 DEF SiteInsert, Add, SiteTypes
<1>7. CASE SiteInsertFails
  BY <1>7 DEF SiteInsertFails, Add, SiteEvent, content, SiteTypes
<1>8. CASE ServerCrash
  BY <1>8 DEF ServerCrash, Zero, SiteEvent, SiteTypes
<1>9. CASE SiteCrash
  BY <1>9 DEF SiteCrash, SiteEvent, content, account, SiteTypes
<1>10. CASE MonthArchive
  BY <1>10 DEF MonthArchive, SiteEvent, SiteTypes
<1>11. CASE MonthTruncate
  BY <1>11 DEF MonthTruncate, Zero, Truncate, SiteTypes
<1>12. CASE MonthFails
  BY <1>12 DEF MonthFails, SiteEvent, content, SiteTypes
<1>13. CASE Recount
  BY <1>13 DEF Recount, Zero, SiteEvent, Truncate, SiteTypes
<1>14. CASE UNCHANGED siteVars
  BY <1>14 DEF siteVars, content, account, SiteTypes
<1> QED BY <1>1, <1>2, <1>3, <1>4, <1>5, <1>6, <1>7, <1>8, <1>9, <1>10, <1>11, <1>12, <1>13, <1>14
    DEF SiteNext

(* The state stays well typed, for all keys, lines, jobs and failures.      *)
THEOREM SiteTypeCorrect == SiteSpec => []SiteTypes
BY SiteTypesInit, SiteTypesStep, PTL DEF SiteSpec
------------------------------------------------------------------------------
LEMMA OneRowInit == SiteInit => OneRowInv
BY DEF SiteInit, OneRowInv, OneRow, Zero

LEMMA OneRowStep == SiteTypes /\ OneRowInv /\ [SiteNext]_siteVars => OneRowInv'
<1> SUFFICES ASSUME SiteTypes, OneRowInv, [SiteNext]_siteVars PROVE OneRowInv' OBVIOUS
<1>1. ASSUME NEW k \in Keys, SiteUpdate(k) PROVE OneRowInv'
  BY <1>1 DEF SiteUpdate, Add, SiteLine, OneRowInv, OneRow, SiteTypes
<1>2. ASSUME NEW k \in Keys, SiteMisses(k) PROVE OneRowInv'
  BY <1>2 DEF SiteMisses, SiteLine, content, OneRowInv, OneRow, SiteTypes
<1>3. ASSUME NEW k \in Keys, SiteUpdateFails(k) PROVE OneRowInv'
  BY <1>3 DEF SiteUpdateFails, Add, SiteEvent, content, OneRowInv, OneRow, SiteTypes
<1>4. ASSUME NEW k \in Keys, DelayedInsert(k) PROVE OneRowInv'
  BY <1>4 DEF DelayedInsert, Add, OneRowInv, OneRow, SiteTypes
<1>5. ASSUME NEW k \in Keys, PageKillSites(k) PROVE OneRowInv'
  BY <1>5 DEF PageKillSites, SiteEvent, OneRowInv, OneRow, SiteTypes
<1>6. CASE SiteInsert
  BY <1>6 DEF SiteInsert, Add, OneRowInv, OneRow, SiteTypes
<1>7. CASE SiteInsertFails
  BY <1>7 DEF SiteInsertFails, Add, SiteEvent, content, OneRowInv, OneRow, SiteTypes
<1>8. CASE ServerCrash
  BY <1>8 DEF ServerCrash, Zero, SiteEvent, OneRowInv, OneRow, SiteTypes
<1>9. CASE SiteCrash
  BY <1>9 DEF SiteCrash, SiteEvent, content, account, OneRowInv, OneRow, SiteTypes
<1>10. CASE MonthArchive
  BY <1>10 DEF MonthArchive, SiteEvent, OneRowInv, OneRow, SiteTypes
<1>11. CASE MonthTruncate
  BY <1>11 DEF MonthTruncate, Zero, Truncate, OneRowInv, OneRow, SiteTypes
<1>12. CASE MonthFails
  BY <1>12 DEF MonthFails, SiteEvent, content, OneRowInv, OneRow, SiteTypes
<1>13. CASE Recount
  BY <1>13 DEF Recount, Zero, SiteEvent, Truncate, OneRowInv, OneRow, SiteTypes
<1>14. CASE UNCHANGED siteVars
  BY <1>14 DEF siteVars, content, account, OneRowInv, OneRow, SiteTypes
<1> QED BY <1>1, <1>2, <1>3, <1>4, <1>5, <1>6, <1>7, <1>8, <1>9, <1>10, <1>11, <1>12, <1>13, <1>14
    DEF SiteNext

(* A site of a user has one row, unless an update came while the row was    *)
(* delayed (main.cpp:1587 and 1595).                                        *)
THEOREM OneRowEach == SiteSpec => []OneRow
<1>1. OneRowInv => OneRow BY DEF OneRowInv
<1> QED BY <1>1, OneRowInit, OneRowStep, SiteTypeCorrect, PTL DEF SiteSpec
------------------------------------------------------------------------------
LEMMA MoreInit == SiteInit => MoreInv
BY DEF SiteInit, MoreInv, NeverMore, Total, Zero

LEMMA MoreStep == SiteTypes /\ OneRow /\ MoreInv /\ [SiteNext]_siteVars => MoreInv'
<1> SUFFICES ASSUME SiteTypes, OneRow, MoreInv, [SiteNext]_siteVars PROVE MoreInv' OBVIOUS
<1>1. ASSUME NEW k \in Keys, SiteUpdate(k) PROVE MoreInv'
  BY <1>1 DEF SiteUpdate, Add, SiteLine, MoreInv, NeverMore, Total, OneRow, SiteTypes
<1>2. ASSUME NEW k \in Keys, SiteMisses(k) PROVE MoreInv'
  BY <1>2 DEF SiteMisses, SiteLine, content, MoreInv, NeverMore, Total, OneRow, SiteTypes
<1>3. ASSUME NEW k \in Keys, SiteUpdateFails(k) PROVE MoreInv'
  BY <1>3 DEF SiteUpdateFails, Add, SiteEvent, content, MoreInv, NeverMore, Total, OneRow, SiteTypes
<1>4. ASSUME NEW k \in Keys, DelayedInsert(k) PROVE MoreInv'
  BY <1>4 DEF DelayedInsert, Add, MoreInv, NeverMore, Total, OneRow, SiteTypes
<1>5. ASSUME NEW k \in Keys, PageKillSites(k) PROVE MoreInv'
  BY <1>5 DEF PageKillSites, SiteEvent, MoreInv, NeverMore, Total, OneRow, SiteTypes
<1>6. CASE SiteInsert
  BY <1>6 DEF SiteInsert, Add, MoreInv, NeverMore, Total, OneRow, SiteTypes
<1>7. CASE SiteInsertFails
  BY <1>7 DEF SiteInsertFails, Add, SiteEvent, content, MoreInv, NeverMore, Total, OneRow, SiteTypes
<1>8. CASE ServerCrash
  BY <1>8 DEF ServerCrash, Zero, SiteEvent, MoreInv, NeverMore, Total, OneRow, SiteTypes
<1>9. CASE SiteCrash
  BY <1>9 DEF SiteCrash, SiteEvent, content, account, MoreInv, NeverMore, Total, OneRow, SiteTypes
<1>10. CASE MonthArchive
  BY <1>10 DEF MonthArchive, SiteEvent, MoreInv, NeverMore, Total, OneRow, SiteTypes
<1>11. CASE MonthTruncate
  BY <1>11 DEF MonthTruncate, Zero, Truncate, MoreInv, NeverMore, Total, OneRow, SiteTypes
<1>12. CASE MonthFails
  BY <1>12 DEF MonthFails, SiteEvent, content, MoreInv, NeverMore, Total, OneRow, SiteTypes
<1>13. CASE Recount
  BY <1>13 DEF Recount, Zero, SiteEvent, Truncate, MoreInv, NeverMore, Total, OneRow, SiteTypes
<1>14. CASE UNCHANGED siteVars
  BY <1>14 DEF siteVars, content, account, MoreInv, NeverMore, Total, OneRow, SiteTypes
<1> QED BY <1>1, <1>2, <1>3, <1>4, <1>5, <1>6, <1>7, <1>8, <1>9, <1>10, <1>11, <1>12, <1>13, <1>14
    DEF SiteNext

(* A site is never counted higher than its lines, but for doubled rows and  *)
(* broken month jobs (monthly.sql:5 and 8).                                 *)
THEOREM NeverCountedMore == SiteSpec => []NeverMore
<1>1. MoreInv => NeverMore BY DEF MoreInv
<1> QED BY <1>1, MoreInit, MoreStep, SiteTypeCorrect, OneRowEach, PTL DEF SiteSpec
------------------------------------------------------------------------------
LEMMA LessInit == SiteInit => LessInv
BY DEF SiteInit, LessInv, NeverLess, Total, Zero

LEMMA LessStep == SiteTypes /\ LessInv /\ [SiteNext]_siteVars => LessInv'
<1> SUFFICES ASSUME SiteTypes, LessInv, [SiteNext]_siteVars PROVE LessInv' OBVIOUS
<1>1. ASSUME NEW k \in Keys, SiteUpdate(k) PROVE LessInv'
  BY <1>1 DEF SiteUpdate, Add, SiteLine, LessInv, NeverLess, Total, SiteTypes
<1>2. ASSUME NEW k \in Keys, SiteMisses(k) PROVE LessInv'
  BY <1>2 DEF SiteMisses, SiteLine, content, LessInv, NeverLess, Total, SiteTypes
<1>3. ASSUME NEW k \in Keys, SiteUpdateFails(k) PROVE LessInv'
  BY <1>3 DEF SiteUpdateFails, Add, SiteEvent, content, LessInv, NeverLess, Total, SiteTypes
<1>4. ASSUME NEW k \in Keys, DelayedInsert(k) PROVE LessInv'
  BY <1>4 DEF DelayedInsert, Add, LessInv, NeverLess, Total, SiteTypes
<1>5. ASSUME NEW k \in Keys, PageKillSites(k) PROVE LessInv'
  BY <1>5 DEF PageKillSites, SiteEvent, LessInv, NeverLess, Total, SiteTypes
<1>6. CASE SiteInsert
  BY <1>6 DEF SiteInsert, Add, LessInv, NeverLess, Total, SiteTypes
<1>7. CASE SiteInsertFails
  BY <1>7 DEF SiteInsertFails, Add, SiteEvent, content, LessInv, NeverLess, Total, SiteTypes
<1>8. CASE ServerCrash
  BY <1>8 DEF ServerCrash, Zero, SiteEvent, LessInv, NeverLess, Total, SiteTypes
<1>9. CASE SiteCrash
  BY <1>9 DEF SiteCrash, SiteEvent, content, account, LessInv, NeverLess, Total, SiteTypes
<1>10. CASE MonthArchive
  BY <1>10 DEF MonthArchive, SiteEvent, LessInv, NeverLess, Total, SiteTypes
<1>11. CASE MonthTruncate
  BY <1>11 DEF MonthTruncate, Zero, Truncate, LessInv, NeverLess, Total, SiteTypes
<1>12. CASE MonthFails
  BY <1>12 DEF MonthFails, SiteEvent, content, LessInv, NeverLess, Total, SiteTypes
<1>13. CASE Recount
  BY <1>13 DEF Recount, Zero, SiteEvent, Truncate, LessInv, NeverLess, Total, SiteTypes
<1>14. CASE UNCHANGED siteVars
  BY <1>14 DEF siteVars, content, account, LessInv, NeverLess, Total, SiteTypes
<1> QED BY <1>1, <1>2, <1>3, <1>4, <1>5, <1>6, <1>7, <1>8, <1>9, <1>10, <1>11, <1>12, <1>13, <1>14
    DEF SiteNext

(* Nor lower, but for failed statements, rows that the server lost, and     *)
(* rows written between archive and truncation.                             *)
THEOREM NeverCountedLess == SiteSpec => []NeverLess
<1>1. LessInv => NeverLess BY DEF LessInv
<1> QED BY <1>1, LessInit, LessStep, SiteTypeCorrect, PTL DEF SiteSpec
------------------------------------------------------------------------------
(* What racc counts. *)
(* While a script is about to insert a pair, either another one looked for  *)
(* the pair in the meantime or it has no row.                               *)
SumInv ==
  /\ TrafficAddsUp
  /\ \A k \in Pairs : k \notin raced => (entries[k] = 0 => bytes[k] = 0)
  /\ \A s \in Scripts : pair[s] \in Pairs /\ pair[s] \notin raced =>
       /\ entries[pair[s]] = 0
       /\ \A o \in Scripts : pair[o] = pair[s] => o = s
------------------------------------------------------------------------------
LEMMA TrafficTypesInit == TrafficInit => TrafficTypes
BY DEF TrafficInit, TrafficTypes, None0

LEMMA TrafficTypesStep == TrafficTypes /\ [TrafficNext]_trafficVars => TrafficTypes'
<1> SUFFICES ASSUME TrafficTypes, [TrafficNext]_trafficVars PROVE TrafficTypes' OBVIOUS
<1>1. ASSUME NEW f \in Files, CloseFile(f) PROVE TrafficTypes'
  BY <1>1 DEF CloseFile, tableVars, scriptVars, historyVars, limits, TrafficTypes
<1>2. ASSUME NEW f \in Files, NEW k \in Pairs, WriteLine(f, k) PROVE TrafficTypes'
  BY <1>2 DEF WriteLine, tableVars, scriptVars, historyVars, limits, TrafficTypes
<1>3. ASSUME NEW s \in Scripts, ScriptStarts(s) PROVE TrafficTypes'
  BY <1>3 DEF ScriptStarts, tableVars, fileVars, TrafficTypes, Present
<1>4. ASSUME NEW s \in Scripts, ScriptEnds(s) PROVE TrafficTypes'
  BY <1>4 DEF ScriptEnds, tableVars, fileVars, limits, TrafficTypes, None0
<1>5. ASSUME NEW s \in Scripts, Insert(s) PROVE TrafficTypes'
  BY <1>5 DEF Insert, fileVars, limits, TrafficTypes
<1>6. ASSUME NEW s \in Scripts, InsertFails(s) PROVE TrafficTypes'
  BY <1>6 DEF InsertFails, Fault, tableVars, fileVars, TrafficTypes
<1>7. ASSUME NEW s \in Scripts, RaccEnds(s) PROVE TrafficTypes'
  BY <1>7 DEF RaccEnds, Leave, tableVars, fileVars, limits, TrafficTypes
<1>8. ASSUME NEW s \in Scripts, RaccFails(s) PROVE TrafficTypes'
  BY <1>8 DEF RaccFails, Leave, Fault, tableVars, fileVars, TrafficTypes
<1>9. ASSUME NEW s \in Scripts, NEW f \in Files, RaccStarts(s, f) PROVE TrafficTypes'
  BY <1>9 DEF RaccStarts, tableVars, fileVars, historyVars, limits, TrafficTypes
<1>10. ASSUME NEW s \in Scripts, NEW k \in Pairs, Update(s, k) PROVE TrafficTypes'
  BY <1>10 DEF Update, Reads, fileVars, limits, TrafficTypes
<1>11. ASSUME NEW s \in Scripts, NEW k \in Pairs, UpdateMisses(s, k) PROVE TrafficTypes'
  BY <1>11 DEF UpdateMisses, Reads, tableVars, fileVars, limits, TrafficTypes
<1>12. CASE UNCHANGED trafficVars
  BY <1>12 DEF trafficVars, tableVars, fileVars, scriptVars, historyVars, limits, TrafficTypes
<1> QED BY <1>1, <1>2, <1>3, <1>4, <1>5, <1>6, <1>7, <1>8, <1>9, <1>10, <1>11, <1>12 DEF TrafficNext

(* The state stays well typed, for all scripts, files, pairs and failures.  *)
THEOREM TrafficTypeCorrect == TrafficSpec => []TrafficTypes
BY TrafficTypesInit, TrafficTypesStep, PTL DEF TrafficSpec
------------------------------------------------------------------------------
LEMMA SumInit == TrafficInit => SumInv
BY DEF TrafficInit, SumInv, TrafficAddsUp, None0

LEMMA SumStep == TrafficTypes /\ SumInv /\ [TrafficNext]_trafficVars => SumInv'
<1> SUFFICES ASSUME TrafficTypes, SumInv, [TrafficNext]_trafficVars PROVE SumInv' OBVIOUS
<1>1. ASSUME NEW f \in Files, CloseFile(f) PROVE SumInv'
  BY <1>1 DEF CloseFile, tableVars, scriptVars, historyVars, limits, SumInv, TrafficAddsUp, TrafficTypes
<1>2. ASSUME NEW f \in Files, NEW k \in Pairs, WriteLine(f, k) PROVE SumInv'
  BY <1>2 DEF WriteLine, tableVars, scriptVars, historyVars, limits, SumInv, TrafficAddsUp, TrafficTypes
<1>3. ASSUME NEW s \in Scripts, ScriptStarts(s) PROVE SumInv'
  BY <1>3 DEF ScriptStarts, tableVars, fileVars, SumInv, TrafficAddsUp, TrafficTypes
<1>4. ASSUME NEW s \in Scripts, ScriptEnds(s) PROVE SumInv'
  BY <1>4 DEF ScriptEnds, tableVars, fileVars, limits, SumInv, TrafficAddsUp, TrafficTypes
<1>5. ASSUME NEW s \in Scripts, Insert(s) PROVE SumInv'
  BY <1>5 DEF Insert, fileVars, limits, SumInv, TrafficAddsUp, TrafficTypes
<1>6. ASSUME NEW s \in Scripts, InsertFails(s) PROVE SumInv'
  BY <1>6 DEF InsertFails, Fault, tableVars, fileVars, SumInv, TrafficAddsUp, TrafficTypes
<1>7. ASSUME NEW s \in Scripts, RaccEnds(s) PROVE SumInv'
  BY <1>7 DEF RaccEnds, Leave, tableVars, fileVars, limits, SumInv, TrafficAddsUp, TrafficTypes
<1>8. ASSUME NEW s \in Scripts, RaccFails(s) PROVE SumInv'
  BY <1>8 DEF RaccFails, Leave, Fault, tableVars, fileVars, SumInv, TrafficAddsUp, TrafficTypes
<1>9. ASSUME NEW s \in Scripts, NEW f \in Files, RaccStarts(s, f) PROVE SumInv'
  BY <1>9 DEF RaccStarts, tableVars, fileVars, historyVars, limits, SumInv, TrafficAddsUp, TrafficTypes
<1>10. ASSUME NEW s \in Scripts, NEW k \in Pairs, Update(s, k) PROVE SumInv'
  BY <1>10 DEF Update, Reads, fileVars, limits, SumInv, TrafficAddsUp, TrafficTypes
<1>11. ASSUME NEW s \in Scripts, NEW k \in Pairs, UpdateMisses(s, k) PROVE SumInv'
  BY <1>11 DEF UpdateMisses, Reads, tableVars, fileVars, limits, SumInv, TrafficAddsUp, TrafficTypes
<1>12. CASE UNCHANGED trafficVars
  BY <1>12 DEF trafficVars, tableVars, fileVars, scriptVars, historyVars, limits, SumInv, TrafficAddsUp,
      TrafficTypes
<1> QED BY <1>1, <1>2, <1>3, <1>4, <1>5, <1>6, <1>7, <1>8, <1>9, <1>10, <1>11, <1>12 DEF TrafficNext

(* The table holds what was counted in one row for each pair, unless two    *)
(* scripts both looked for the pair before either inserted it.              *)
THEOREM TrafficSums == TrafficSpec => []TrafficAddsUp
<1>1. SumInv => TrafficAddsUp BY DEF SumInv
<1> QED BY <1>1, SumInit, SumStep, TrafficTypeCorrect, PTL DEF TrafficSpec
------------------------------------------------------------------------------
(* The files a script has dealt with, and those of them that list a pair. *)
Done(s)    == found[s] \ (todo[s] \cup {file[s]})
Listed(s, k) == {f \in Done(s) : k \in lists[f]}

(* The pairs of the current file that are counted. *)
Here(s, k) == IF file[s] # NoFile /\ k \in seen[s] /\ pair[s] # k THEN 1 ELSE 0

(* A clean script is alone, the files behind it are closed, and every pair  *)
(* was counted once for each of them, and for what it has read of this one. *)
Alone(s)   == \A o \in Scripts : o # s => step[o] = "off"
Behind(s)  ==
  /\ todo[s] \subseteq found[s] /\ Done(s) \subseteq closed
  /\ file[s] # NoFile => file[s] \in found[s] \ todo[s] /\ seen[s] \subseteq lists[file[s]]
  /\ pair[s] # NoPair => pair[s] \in seen[s]
CountedThem(s) == \A k \in Pairs : counted[k] = before[s][k] + Cardinality(Listed(s, k)) + Here(s, k)

CleanInv == \A s \in clean : step[s] # "off" /\ Alone(s) /\ Behind(s) /\ CountedThem(s)

(* Files that list a pair can be counted. *)
LEMMA ListedCount ==
  ASSUME TrafficTypes, NEW s \in Scripts
  PROVE  \A k \in Pairs : IsFiniteSet(Listed(s, k)) /\ Cardinality(Listed(s, k)) \in Nat
<1> SUFFICES ASSUME NEW k \in Pairs
             PROVE IsFiniteSet(Listed(s, k)) /\ Cardinality(Listed(s, k)) \in Nat
  OBVIOUS
<1>1. Listed(s, k) \subseteq Files BY DEF Listed, Done, TrafficTypes
<1>2. IsFiniteSet(Listed(s, k)) BY <1>1, FS_Subset
<1> QED BY <1>2, FS_CardinalityType

LEMMA CleanStep == TrafficTypes /\ CleanInv /\ [TrafficNext]_trafficVars => CleanInv'
<1> SUFFICES ASSUME TrafficTypes, CleanInv, [TrafficNext]_trafficVars, NEW z \in clean'
             PROVE  step'[z] # "off" /\ Alone(z)' /\ Behind(z)' /\ CountedThem(z)'
  BY DEF CleanInv
<1> DEFINE Goal == step'[z] # "off" /\ Alone(z)' /\ Behind(z)' /\ CountedThem(z)'
<1>c. clean \subseteq Scripts /\ (NoPair \notin Pairs) BY DEF TrafficTypes
<1>1. ASSUME NEW f \in Files, CloseFile(f) PROVE Goal
  <2>1. z \in clean BY <1>1 DEF CloseFile, historyVars
  <2>2. \A k \in Pairs : Listed(z, k)' = Listed(z, k) /\ Here(z, k)' = Here(z, k)
    BY <1>1, <2>1
        DEF CloseFile, tableVars, scriptVars, historyVars, limits, CleanInv, Alone, Behind, CountedThem,
        Done, Listed, Here, TrafficTypes
  <2>3. step'[z] # "off" /\ Alone(z)' /\ Behind(z)' BY <1>1, <2>1
      DEF CloseFile, tableVars, scriptVars, historyVars, limits, CleanInv, Alone, Behind, Done,
      TrafficTypes
  <2>4. CountedThem(z)' BY <1>1, <2>1, <2>2
      DEF CloseFile, tableVars, scriptVars, historyVars, limits, CleanInv, CountedThem, TrafficTypes
  <2> QED BY <2>3, <2>4
<1>2. ASSUME NEW f \in Files, NEW k \in Pairs, WriteLine(f, k) PROVE Goal
  <2>1. z \in clean BY <1>2 DEF WriteLine, historyVars
  <2>2. \A j \in Pairs : Listed(z, j)' = Listed(z, j) /\ Here(z, j)' = Here(z, j)
    BY <1>2, <2>1
        DEF WriteLine, tableVars, scriptVars, historyVars, limits, CleanInv, Alone, Behind, CountedThem,
        Done, Listed, Here, TrafficTypes
  <2>3. step'[z] # "off" /\ Alone(z)' /\ Behind(z)' BY <1>2, <2>1
      DEF WriteLine, tableVars, scriptVars, historyVars, limits, CleanInv, Alone, Behind, Done,
      TrafficTypes
  <2>4. CountedThem(z)' BY <1>2, <2>1, <2>2
      DEF WriteLine, tableVars, scriptVars, historyVars, limits, CleanInv, CountedThem, TrafficTypes
  <2> QED BY <2>3, <2>4
<1>3. ASSUME NEW s \in Scripts, ScriptStarts(s) PROVE Goal
  <2>1. z = s /\ Alone(s)' BY <1>3 DEF ScriptStarts, Alone, TrafficTypes
  <2>2. file'[s] = NoFile /\ pair'[s] = NoPair /\ todo'[s] = found'[s] /\ before'[s] = counted'
    BY <1>3 DEF ScriptStarts, TrafficTypes
  <2>3. \A k \in Pairs : Listed(s, k)' = {} /\ Here(s, k)' = 0 BY <2>2 DEF Listed, Done, Here
  <2>4. CountedThem(s)'
    <3>1. counted' = counted BY <1>3 DEF ScriptStarts
    <3>2. Cardinality({}) = 0 BY FS_EmptySet
    <3>3. \A k \in Pairs : counted[k] = counted[k] + 0 + 0 BY DEF TrafficTypes
    <3> QED BY <2>2, <2>3, <3>1, <3>2, <3>3 DEF CountedThem
  <2>5. step'[s] # "off" /\ Behind(s)' BY <1>3, <2>2 DEF ScriptStarts, Behind, Done, TrafficTypes
  <2> QED BY <2>1, <2>4, <2>5
<1>4. ASSUME NEW s \in Scripts, ScriptEnds(s) PROVE Goal
  <2>1. z \in clean /\ z # s BY <1>4 DEF ScriptEnds
  <2> QED BY <1>4, <2>1 DEF ScriptEnds, CleanInv, Alone, TrafficTypes
<1>5. ASSUME NEW s \in Scripts, Insert(s) PROVE Goal
  <2>1. z \in clean /\ z = s BY <1>5 DEF Insert, fileVars, limits, CleanInv, Alone, TrafficTypes
  <2> DEFINE k == pair[s]
  <2>2. file'[s] = file[s] /\ file[s] # NoFile /\ seen' = seen /\ k \in seen[s] /\ k \in Pairs /\ pair'[s] = NoPair
    BY <1>5, <2>1 DEF Insert, CleanInv, Behind, TrafficTypes
  <2>3. \A j \in Pairs : Listed(s, j)' = Listed(s, j) BY <1>5 DEF Insert, Listed, Done, fileVars
  <2>5. CountedThem(s)'
    <3> SUFFICES ASSUME NEW j \in Pairs
                 PROVE counted'[j] = before'[s][j] + Cardinality(Listed(s, j)') + Here(s, j)'
      BY DEF CountedThem
    <3>1. counted[j] = before[s][j] + Cardinality(Listed(s, j)) + Here(s, j) BY <2>1 DEF CleanInv, CountedThem
    <3>2. Here(s, j)' = (IF j = k THEN 1 ELSE Here(s, j)) BY <2>2 DEF Here
    <3>3. Here(s, k) = 0 BY <2>2 DEF Here
    <3>4. counted'[j] = (IF j = k THEN counted[j] + 1 ELSE counted[j]) /\ before' = before
      BY <1>5, <2>2 DEF Insert, TrafficTypes
    <3>c. Cardinality(Listed(s, j)) \in Nat /\ counted[j] \in Nat /\ before[s][j] \in Nat
      BY ListedCount, <2>1 DEF TrafficTypes
    <3> QED BY <2>3, <3>1, <3>2, <3>3, <3>4, <3>c DEF Here
  <2>6. step'[s] # "off" /\ Alone(s)' BY <1>5, <2>1 DEF Insert, Alone, CleanInv, TrafficTypes
  <2>7. Behind(s)' BY <1>5, <2>1, <2>2 DEF Insert, Behind, Done, CleanInv, TrafficTypes, fileVars
  <2> QED BY <2>1, <2>5, <2>6, <2>7
<1>6. ASSUME NEW s \in Scripts, InsertFails(s) PROVE Goal
  <2>1. z \in clean /\ z # s BY <1>6 DEF InsertFails
  <2> QED BY <1>6, <2>1 DEF InsertFails, CleanInv, Alone, TrafficTypes
<1>7. ASSUME NEW s \in Scripts, RaccEnds(s) PROVE Goal
  <2>1. z \in clean /\ z = s BY <1>7
      DEF RaccEnds, Leave, tableVars, fileVars, limits, CleanInv, Alone, TrafficTypes
  <2> DEFINE f == file[s]
  <2>2. /\ f \in Files /\ f \in closed /\ f \in found[s] \ todo[s] /\ seen[s] = lists[f]
        /\ pair[s] = NoPair /\ pair'[s] = NoPair /\ file'[s] = NoFile
    BY <1>7, <2>1 DEF RaccEnds, Leave, CleanInv, Behind, TrafficTypes
  <2>3. Done(s)' = Done(s) \cup {f} /\ f \notin Done(s)
    BY <1>7, <2>1, <2>2 DEF RaccEnds, Leave, Done, TrafficTypes
  <2>4. \A j \in Pairs : Listed(s, j)' = IF j \in seen[s] THEN Listed(s, j) \cup {f} ELSE Listed(s, j)
    BY <1>7, <2>2, <2>3 DEF RaccEnds, Listed, fileVars
  <2>5. CountedThem(s)'
    <3> SUFFICES ASSUME NEW j \in Pairs
                 PROVE counted'[j] = before'[s][j] + Cardinality(Listed(s, j)') + Here(s, j)'
      BY DEF CountedThem
    <3>1. counted[j] = before[s][j] + Cardinality(Listed(s, j)) + Here(s, j) BY <2>1 DEF CleanInv, CountedThem
    <3>2. Here(s, j)' = 0 /\ Here(s, j) = (IF j \in seen[s] THEN 1 ELSE 0) BY <2>2 DEF Here, TrafficTypes
    <3>3. f \notin Listed(s, j) /\ IsFiniteSet(Listed(s, j)) /\ Cardinality(Listed(s, j)) \in Nat
      BY <2>1, <2>3, ListedCount DEF Listed
    <3>4. Cardinality(Listed(s, j) \cup {f}) = Cardinality(Listed(s, j)) + 1 BY <3>3, FS_AddElement
    <3>5. counted' = counted /\ before' = before BY <1>7 DEF RaccEnds
    <3>6. counted[j] \in Nat /\ before[s][j] \in Nat BY <2>1 DEF TrafficTypes
    <3>7. CASE j \in seen[s]
      <4>1. Cardinality(Listed(s, j)') = Cardinality(Listed(s, j)) + 1 BY <2>4, <3>4, <3>7
      <4> QED BY <3>1, <3>2, <3>3, <3>5, <3>6, <3>7, <4>1
    <3>8. CASE j \notin seen[s]
      <4>1. Cardinality(Listed(s, j)') = Cardinality(Listed(s, j)) BY <2>4, <3>8
      <4> QED BY <3>1, <3>2, <3>3, <3>5, <3>6, <3>8, <4>1
    <3> QED BY <3>7, <3>8
  <2>6. step'[s] # "off" /\ Alone(s)' BY <1>7, <2>1 DEF RaccEnds, Leave, Alone, CleanInv, TrafficTypes
  <2>7. Behind(s)'
    BY <1>7, <2>1, <2>2, <2>3 DEF RaccEnds, Leave, Behind, CleanInv, TrafficTypes, fileVars
  <2> QED BY <2>1, <2>5, <2>6, <2>7
<1>8. ASSUME NEW s \in Scripts, RaccFails(s) PROVE Goal
  <2>1. z \in clean /\ z # s BY <1>8 DEF RaccFails
  <2> QED BY <1>8, <2>1 DEF RaccFails, CleanInv, Alone, TrafficTypes
<1>9. ASSUME NEW s \in Scripts, NEW f \in Files, RaccStarts(s, f) PROVE Goal
  <2>1. z \in clean /\ z = s BY <1>9
      DEF RaccStarts, tableVars, fileVars, historyVars, limits, CleanInv, Alone, TrafficTypes
  <2>2. file[s] = NoFile /\ pair[s] = NoPair /\ f # NoFile BY <1>9 DEF RaccStarts, TrafficTypes
  <2>3. Done(s)' = Done(s)
    <3>1. file'[s] = f /\ todo'[s] = todo[s] \ {f} /\ f \in todo[s] /\ found' = found /\ found[s] \subseteq Files
      BY <1>9 DEF RaccStarts, historyVars, TrafficTypes
    <3> QED BY <2>2, <3>1 DEF Done
  <2>4. \A k \in Pairs : Listed(s, k)' = Listed(s, k) /\ Here(s, k)' = 0 /\ Here(s, k) = 0
    BY <1>9, <2>2, <2>3 DEF RaccStarts, Listed, Here, TrafficTypes, fileVars
  <2>5. CountedThem(s)' BY <1>9, <2>1, <2>4 DEF RaccStarts, CountedThem, CleanInv, TrafficTypes, historyVars
  <2>6. step'[s] # "off" /\ Alone(s)' BY <1>9, <2>1 DEF RaccStarts, Alone, CleanInv, TrafficTypes
  <2>7. Behind(s)' BY <1>9, <2>1, <2>2, <2>3
      DEF RaccStarts, Behind, CleanInv, TrafficTypes, fileVars, historyVars
  <2> QED BY <2>1, <2>5, <2>6, <2>7
<1>10. ASSUME NEW s \in Scripts, NEW k \in Pairs, Update(s, k) PROVE Goal
  <2>1. z \in clean /\ z = s BY <1>10 DEF Update, Reads, fileVars, limits, CleanInv, Alone, TrafficTypes
  <2>2. file'[s] = file[s] /\ file[s] # NoFile /\ seen'[s] = seen[s] \cup {k} /\ k \notin seen[s] /\ k \in lists[file[s]]
    BY <1>10 DEF Update, Reads, fileVars, limits, TrafficTypes
  <2>3. \A j \in Pairs : Listed(s, j)' = Listed(s, j) BY <1>10 DEF Update, Listed, Done, fileVars
  <2>4. pair[s] = NoPair /\ pair'[s] = NoPair BY <1>10 DEF Update, Reads, TrafficTypes
  <2>5. CountedThem(s)'
    <3> SUFFICES ASSUME NEW j \in Pairs
                 PROVE counted'[j] = before'[s][j] + Cardinality(Listed(s, j)') + Here(s, j)'
      BY DEF CountedThem
    <3>1. counted[j] = before[s][j] + Cardinality(Listed(s, j)) + Here(s, j) BY <2>1 DEF CleanInv, CountedThem
    <3>2. Here(s, j)' = IF j = k THEN 1 ELSE Here(s, j) BY <1>10, <2>2, <2>4 DEF Here
    <3>3. Here(s, k) = 0 BY <2>2 DEF Here
    <3>c. Cardinality(Listed(s, j)) \in Nat BY ListedCount, <2>1 DEF TrafficTypes
    <3> QED BY <1>10, <2>3, <3>1, <3>2, <3>3, <3>c DEF Update, TrafficTypes, Here
  <2>6. step'[s] # "off" /\ Alone(s)' BY <1>10, <2>1 DEF Update, Reads, Alone, CleanInv, TrafficTypes
  <2>7. Behind(s)' BY <1>10, <2>1, <2>2, <2>4 DEF Update, Behind, Done, CleanInv, TrafficTypes, fileVars
  <2> QED BY <2>1, <2>5, <2>6, <2>7
<1>11. ASSUME NEW s \in Scripts, NEW k \in Pairs, UpdateMisses(s, k) PROVE Goal
  <2>1. z \in clean /\ z = s BY <1>11
      DEF UpdateMisses, Reads, tableVars, fileVars, limits, CleanInv, Alone, TrafficTypes
  <2>2. file'[s] = file[s] /\ file[s] # NoFile /\ seen'[s] = seen[s] \cup {k} /\ k \notin seen[s] /\ k \in lists[file[s]]
    BY <1>11 DEF UpdateMisses, Reads, tableVars, fileVars, limits, TrafficTypes
  <2>3. \A j \in Pairs : Listed(s, j)' = Listed(s, j) BY <1>11 DEF UpdateMisses, Listed, Done, fileVars
  <2>4. pair[s] = NoPair /\ pair'[s] = k BY <1>11 DEF UpdateMisses, Reads, TrafficTypes
  <2>5. CountedThem(s)'
    <3> SUFFICES ASSUME NEW j \in Pairs
                 PROVE counted'[j] = before'[s][j] + Cardinality(Listed(s, j)') + Here(s, j)'
      BY DEF CountedThem
    <3>1. counted[j] = before[s][j] + Cardinality(Listed(s, j)) + Here(s, j) BY <2>1 DEF CleanInv, CountedThem
    <3>2. Here(s, j)' = Here(s, j) BY <1>11, <2>2, <2>4 DEF Here
    <3>3. Here(s, k) = 0 BY <2>2 DEF Here
    <3>c. Cardinality(Listed(s, j)) \in Nat BY ListedCount, <2>1 DEF TrafficTypes
    <3> QED BY <1>11, <2>3, <3>1, <3>2, <3>3, <3>c DEF UpdateMisses, TrafficTypes, Here
  <2>6. step'[s] # "off" /\ Alone(s)' BY <1>11, <2>1 DEF UpdateMisses, Reads, Alone, CleanInv, TrafficTypes
  <2>7. Behind(s)' BY <1>11, <2>1, <2>2, <2>4 DEF UpdateMisses, Behind, Done, CleanInv, TrafficTypes, fileVars
  <2> QED BY <2>1, <2>5, <2>6, <2>7
<1>12. CASE UNCHANGED trafficVars
  BY <1>12 DEF CleanInv, Alone, Behind, CountedThem, Done, Listed, Here, trafficVars, tableVars, fileVars,
      scriptVars, historyVars, limits
<1> QED BY <1>1, <1>2, <1>3, <1>4, <1>5, <1>6, <1>7, <1>8, <1>9, <1>10, <1>11, <1>12 DEF TrafficNext

(* A script that ran alone, without a failure, over complete files counted  *)
(* every line of every file it found, once.                                 *)
THEOREM AllFilesCounted == TrafficSpec => []AllFilesOnce
<1>1. TrafficInit => CleanInv BY DEF TrafficInit, CleanInv
<1>2. TrafficTypes /\ CleanInv => AllFilesOnce
  <2> SUFFICES ASSUME TrafficTypes, CleanInv, NEW s \in clean, step[s] = "next", todo[s] = {}, NEW k \in Pairs
               PROVE counted[k] = before[s][k] + Cardinality({f \in found[s] : k \in lists[f]})
    BY DEF AllFilesOnce
  <2>1. s \in Scripts /\ file[s] = NoFile BY DEF TrafficTypes
  <2>2. Done(s) = found[s] BY <2>1 DEF Done, TrafficTypes
  <2>3. Listed(s, k) = {f \in found[s] : k \in lists[f]} BY <2>2 DEF Listed
  <2>4. Here(s, k) = 0 BY <2>1 DEF Here
  <2>5. Cardinality(Listed(s, k)) \in Nat /\ before[s][k] \in Nat BY <2>1, ListedCount DEF TrafficTypes
  <2>6. counted[k] = before[s][k] + Cardinality(Listed(s, k)) + Here(s, k) BY DEF CleanInv, CountedThem
  <2> QED BY <2>3, <2>4, <2>5, <2>6
<1> QED BY <1>1, <1>2, CleanStep, TrafficTypeCorrect, PTL DEF TrafficSpec
------------------------------------------------------------------------------
(* Side by side.  A behaviour of the instance is a behaviour of each of the *)
(* three: the steps of the others leave its variables alone.                *)
LEMMA EachSpec == Spec => SiteSpec /\ TrfSpec /\ TrafficSpec
<1>1. Init => SiteInit /\ TrfInit /\ TrafficInit
  BY DEF Init
<1>2. [Next]_CountersVars =>
        [SiteNext]_siteVars /\ [TrfNext]_trfVars /\ [TrafficNext]_trafficVars
  BY DEF Next, CountersVars
<1> QED BY <1>1, <1>2, PTL DEF Spec, SiteSpec, TrfSpec, TrafficSpec

(* What each of them keeps in memory and in its table stays well typed.     *)
THEOREM CountersTypeCorrect == Spec => []TypeOK
<1>1. SiteTypes /\ TrfTypes /\ TrafficTypes => TypeOK
  BY DEF TypeOK
<1> QED BY <1>1, EachSpec, SiteTypeCorrect, TariffTypeCorrect, TrafficTypeCorrect, PTL
=============================================================================

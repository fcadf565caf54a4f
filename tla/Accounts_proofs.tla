-------------------------- MODULE Accounts_proofs --------------------------
(****************************************************************************)
(* Proofs about Accounts, for all logins, cache sizes and bounds.           *)
(****************************************************************************)
EXTENDS Accounts, TLAPS

USE AccountsAssumption DEF Ids, Owners, Slots, LineKinds, NoForm, NoLine

(* The types of the table, of the ring, and of the rest. *)
TableOK ==
  /\ login \in [Ids -> Logins \cup {None}] /\ used \in [Ids -> Nat] /\ nextId \in 1..(MaxId + 1)
  /\ due \in [Ids -> Int] /\ overwritten \subseteq Ids /\ stale \subseteq Ids /\ raced \subseteq Logins \cup {None}
RingOK ==
  /\ cache \in [Slots -> [uname : Logins \cup {None}, uid : Owners]]
  /\ pointer \in Slots /\ filled \in 0..(CacheSize - 1)
PlaceOK ==
  /\ flags \in [autolearn : BOOLEAN, defaults : BOOLEAN]
  /\ pc \in {"idle", "select", "learn", "charge", "site"}
  /\ line \in [login : Logins \cup {None}, kind : LineKinds] /\ uid \in Owners
PageOK ==
  /\ creating \in Logins \cup {None} /\ form \in [id : Owners, shown : Nat, fresh : BOOLEAN] /\ importing \subseteq Logins
  /\ lines \in 0..MaxSteps /\ events \in 0..MaxEvents

(* Until the ring is full the next slot is the first that is not visible;   *)
(* and a login that the table is asked for is not in the ring.              *)
RingInv ==
  /\ OneEntry
  /\ filled < CacheSize - 1 => pointer = filled
  /\ pc \in {"select", "learn"} => Hits(line.login) = {}

(* An id that may stand for a login. *)
Right(l, u) ==
  \/ u \in Ids /\ login[u] = l
  \/ u \in stale
  \/ u = 0 /\ ~flags.defaults

(* Rows are given out in order, a line is somebody's, and the ids in the    *)
(* ring and at hand are right.                                              *)
RightInv ==
  /\ \A u \in Ids : u >= nextId => login[u] = None
  /\ pc # "idle" => line.login \in Logins
  /\ \A i \in Slots : cache[i].uname # None => Right(cache[i].uname, cache[i].uid)
  /\ pc \in {"charge", "site"} => Right(line.login, uid)
------------------------------------------------------------------------------
LEMMA TypeInit == Init => TypeOK
BY DEF Init, TypeOK

LEMMA OvertakeTypes ==
  ASSUME form \in [id : Owners, shown : Nat, fresh : BOOLEAN], NEW S, Overtake(S)
  PROVE  form' \in [id : Owners, shown : Nat, fresh : BOOLEAN]
BY DEF Overtake

(* What an insert changes. *)
LEMMA InsertTypes ==
  ASSUME TypeOK, NEW who, NEW l \in Logins \cup {None}, NEW n \in Nat, Insert(who, l, n)
  PROVE  /\ login' = [login EXCEPT ![nextId] = l] /\ nextId \in Ids /\ nextId' = nextId + 1
         /\ login' \in [Ids -> Logins \cup {None}] /\ used' \in [Ids -> Nat]
         /\ nextId' \in 1..(MaxId + 1) /\ due' \in [Ids -> Int] /\ overwritten' \subseteq Ids
         /\ raced' \subseteq Logins \cup {None}
         /\ form' \in [id : Owners, shown : Nat, fresh : BOOLEAN]
<1>1. login' = [login EXCEPT ![nextId] = l] /\ nextId \in Ids /\ nextId' = nextId + 1 BY DEF Insert
<1>2. login' \in [Ids -> Logins \cup {None}] /\ nextId' \in 1..(MaxId + 1) BY <1>1 DEF TypeOK
<1>3. used' \in [Ids -> Nat] /\ due' \in [Ids -> Int] BY DEF Insert, TypeOK
<1>4. overwritten' \subseteq Ids /\ raced' \subseteq Logins \cup {None} BY DEF Insert, TypeOK
<1>5. form' \in [id : Owners, shown : Nat, fresh : BOOLEAN] BY OvertakeTypes DEF Insert, TypeOK
<1> QED BY <1>1, <1>2, <1>3, <1>4, <1>5

(* A known id is charged, or its site counted, or its line is done with. *)
LEMMA BillTypes ==
  ASSUME NEW u \in Owners, NEW ln \in [login : Logins \cup {None}, kind : LineKinds], Bill(u, ln)
  PROVE  /\ pc' \in {"idle", "charge", "site"} /\ uid' \in Owners
         /\ line' \in [login : Logins \cup {None}, kind : LineKinds]
         /\ pc' # "idle" => line' = ln /\ uid' = u
BY DEF Bill, Goto, Return

LEMMA TypeStep == TypeOK /\ [Next]_vars => TypeOK'
<1> DEFINE Parts == TableOK /\ RingOK /\ PlaceOK /\ PageOK
<1> SUFFICES ASSUME Parts, [Next]_vars PROVE Parts'
  BY DEF TypeOK, TableOK, RingOK, PlaceOK, PageOK
<1>1. ASSUME NEW l \in Logins, NEW k \in LineKinds, ReadHit([login |-> l, kind |-> k]) PROVE Parts'
  <2>1. TableOK'
    BY <1>1 DEF ReadHit, TableOK, PageOK, PlaceOK, Goto, Bill, Return, table, ring, pages, past, Hits
  <2>2. RingOK'
    BY <1>1 DEF ReadHit, RingOK, TableOK, PlaceOK, Goto, Bill, Return, table, ring, pages, past, Hits
  <2>3. PlaceOK'
    BY <1>1 DEF ReadHit, PlaceOK, TableOK, RingOK, Goto, Bill, Return, table, ring, pages, past, Hits
  <2>4. PageOK'
    BY <1>1 DEF ReadHit, PageOK, TableOK, Goto, Bill, Return, table, ring, pages, past, Hits
  <2> QED BY <2>1, <2>2, <2>3, <2>4
<1>2. ASSUME NEW l \in Logins, NEW k \in LineKinds, ReadMiss([login |-> l, kind |-> k]) PROVE Parts'
  <2>1. TableOK'
    BY <1>2 DEF ReadMiss, TableOK, PageOK, PlaceOK, Goto, table, ring, pages, past, Hits
  <2>2. RingOK'
    BY <1>2 DEF ReadMiss, RingOK, TableOK, PlaceOK, Goto, table, ring, pages, past, Hits
  <2>3. PlaceOK'
    BY <1>2 DEF ReadMiss, PlaceOK, TableOK, RingOK, Goto, table, ring, pages, past, Hits
  <2>4. PageOK'
    BY <1>2 DEF ReadMiss, PageOK, TableOK, Goto, table, ring, pages, past, Hits
  <2> QED BY <2>1, <2>2, <2>3, <2>4
<1>3. CASE SelectFound
  <2>1. TableOK'
    BY <1>3 DEF SelectFound, Remember, TableOK, PageOK, PlaceOK, Goto, Bill, Return, table, pages, past, bound, Named
  <2>2. RingOK'
    BY <1>3 DEF SelectFound, Remember, RingOK, TableOK, PlaceOK, Goto, Bill, Return, table, pages, past, bound, Named
  <2>3. PlaceOK'
    BY <1>3 DEF SelectFound, Remember, PlaceOK, TableOK, RingOK, Goto, Bill, Return, table, pages, past, bound, Named
  <2>4. PageOK'
    BY <1>3 DEF SelectFound, Remember, PageOK, TableOK, Goto, Bill, Return, table, pages, past, bound, Named
  <2> QED BY <2>1, <2>2, <2>3, <2>4
<1>4. CASE SelectUnknown
  <2>1. TableOK'
    BY <1>4 DEF SelectUnknown, TableOK, PageOK, PlaceOK, Goto, Return, table, ring, pages, past, bound, Named
  <2>2. RingOK'
    BY <1>4 DEF SelectUnknown, RingOK, TableOK, PlaceOK, Goto, Return, table, ring, pages, past, bound, Named
  <2>3. PlaceOK'
    BY <1>4 DEF SelectUnknown, PlaceOK, TableOK, RingOK, Goto, Return, table, ring, pages, past, bound, Named
  <2>4. PageOK'
    BY <1>4 DEF SelectUnknown, PageOK, TableOK, Goto, Return, table, ring, pages, past, bound, Named
  <2> QED BY <2>1, <2>2, <2>3, <2>4
<1>5. CASE SelectNew
  <2>1. TableOK'
    BY <1>5 DEF SelectNew, TableOK, PageOK, PlaceOK, Goto, table, ring, pages, past, bound, Named
  <2>2. RingOK'
    BY <1>5 DEF SelectNew, RingOK, TableOK, PlaceOK, Goto, table, ring, pages, past, bound, Named
  <2>3. PlaceOK'
    BY <1>5 DEF SelectNew, PlaceOK, TableOK, RingOK, Goto, table, ring, pages, past, bound, Named
  <2>4. PageOK'
    BY <1>5 DEF SelectNew, PageOK, TableOK, Goto, table, ring, pages, past, bound, Named
  <2> QED BY <2>1, <2>2, <2>3, <2>4
<1>6. CASE StatementFails
  <2>1. TableOK'
    BY <1>6 DEF StatementFails, TableOK, PageOK, PlaceOK, Event, Goto, Return, table, ring, pages, past
  <2>2. RingOK'
    BY <1>6 DEF StatementFails, RingOK, TableOK, PlaceOK, Event, Goto, Return, table, ring, pages, past
  <2>3. PlaceOK'
    BY <1>6 DEF StatementFails, PlaceOK, TableOK, RingOK, Event, Goto, Return, table, ring, pages, past
  <2>4. PageOK'
    BY <1>6 DEF StatementFails, PageOK, TableOK, Event, Goto, Return, table, ring, pages, past
  <2> QED BY <2>1, <2>2, <2>3, <2>4
<1>7. CASE Learn
  <2>0. TypeOK /\ Insert("daemon", line.login, 0) /\ Bill(nextId, line) /\ Remember(line.login, nextId)
    BY <1>7 DEF Learn, TypeOK, TableOK, RingOK, PlaceOK, PageOK
  <2>1. nextId \in Ids /\ line.login \in Logins \cup {None} BY <2>0 DEF Insert, TypeOK
  <2>2. TableOK' /\ PageOK'
    BY <1>7, <2>0, <2>1, InsertTypes DEF Learn, TableOK, PageOK, bound
  <2>3. RingOK' BY <2>0, <2>1 DEF Remember, RingOK, TypeOK
  <2>4. PlaceOK' BY <1>7, <2>0, <2>1, BillTypes DEF Learn, PlaceOK, TypeOK
  <2> QED BY <2>2, <2>3, <2>4
<1>8. CASE LearnNothing
  <2>1. TableOK'
    BY <1>8 DEF LearnNothing, Remember, TableOK, PageOK, PlaceOK, Goto, Bill, Return, table, pages, past, bound
  <2>2. RingOK'
    BY <1>8 DEF LearnNothing, Remember, RingOK, TableOK, PlaceOK, Goto, Bill, Return, table, pages, past, bound
  <2>3. PlaceOK'
    BY <1>8, BillTypes DEF LearnNothing, PlaceOK
  <2>4. PageOK'
    BY <1>8 DEF LearnNothing, Remember, PageOK, TableOK, Goto, Bill, Return, table, pages, past, bound
  <2> QED BY <2>1, <2>2, <2>3, <2>4
<1>9. CASE Charge
  <2>1. TableOK'
    BY <1>9 DEF Charge, TableOK, PageOK, PlaceOK, Goto, ring, pages, bound, Exists
  <2>2. RingOK'
    BY <1>9 DEF Charge, RingOK, TableOK, PlaceOK, Goto, ring, pages, bound, Exists
  <2>3. PlaceOK'
    BY <1>9 DEF Charge, PlaceOK, TableOK, RingOK, Goto, ring, pages, bound, Exists
  <2>4. PageOK'
    BY <1>9, OvertakeTypes DEF Charge, PageOK, TableOK, Goto, ring, pages, bound, Exists
  <2> QED BY <2>1, <2>2, <2>3, <2>4
<1>10. CASE ChargeNobody
  <2>1. TableOK'
    BY <1>10 DEF ChargeNobody, TableOK, PageOK, PlaceOK, Goto, Return, table, ring, pages, past, bound, Exists
  <2>2. RingOK'
    BY <1>10 DEF ChargeNobody, RingOK, TableOK, PlaceOK, Goto, Return, table, ring, pages, past, bound, Exists
  <2>3. PlaceOK'
    BY <1>10 DEF ChargeNobody, PlaceOK, TableOK, RingOK, Goto, Return, table, ring, pages, past, bound, Exists
  <2>4. PageOK'
    BY <1>10 DEF ChargeNobody, PageOK, TableOK, Goto, Return, table, ring, pages, past, bound, Exists
  <2> QED BY <2>1, <2>2, <2>3, <2>4
<1>11. CASE ChargeFails
  <2>1. TableOK'
    BY <1>11 DEF ChargeFails, TableOK, PageOK, PlaceOK, Event, Goto, table, ring, pages, past
  <2>2. RingOK'
    BY <1>11 DEF ChargeFails, RingOK, TableOK, PlaceOK, Event, Goto, table, ring, pages, past
  <2>3. PlaceOK'
    BY <1>11 DEF ChargeFails, PlaceOK, TableOK, RingOK, Event, Goto, table, ring, pages, past
  <2>4. PageOK'
    BY <1>11 DEF ChargeFails, PageOK, TableOK, Event, Goto, table, ring, pages, past
  <2> QED BY <2>1, <2>2, <2>3, <2>4
<1>12. CASE CountSite
  <2>1. TableOK'
    BY <1>12 DEF CountSite, TableOK, PageOK, PlaceOK, Goto, Return, table, ring, pages, past, bound
  <2>2. RingOK'
    BY <1>12 DEF CountSite, RingOK, TableOK, PlaceOK, Goto, Return, table, ring, pages, past, bound
  <2>3. PlaceOK'
    BY <1>12 DEF CountSite, PlaceOK, TableOK, RingOK, Goto, Return, table, ring, pages, past, bound
  <2>4. PageOK'
    BY <1>12 DEF CountSite, PageOK, TableOK, Goto, Return, table, ring, pages, past, bound
  <2> QED BY <2>1, <2>2, <2>3, <2>4
<1>13. ASSUME NEW l \in Logins, PageLook(l) PROVE Parts'
  <2>1. TableOK'
    BY <1>13 DEF PageLook, TableOK, PageOK, PlaceOK, Event, table, ring, local, past, Named
  <2>2. RingOK'
    BY <1>13 DEF PageLook, RingOK, TableOK, PlaceOK, Event, table, ring, local, past, Named
  <2>3. PlaceOK'
    BY <1>13 DEF PageLook, PlaceOK, TableOK, RingOK, Event, table, ring, local, past, Named
  <2>4. PageOK'
    BY <1>13 DEF PageLook, PageOK, TableOK, Event, table, ring, local, past, Named
  <2> QED BY <2>1, <2>2, <2>3, <2>4
<1>14. ASSUME NEW l \in Logins, NEW n \in Typed \cup {form.shown}, PageSave(l, n) PROVE Parts'
  <2>0. n \in Nat /\ form.id \in Ids /\ form.shown \in Nat BY <1>14 DEF PageSave, Exists, PageOK
  <2>5. login' \in [Ids -> Logins \cup {None}] /\ used' \in [Ids -> Nat] /\ nextId' \in 1..(MaxId + 1)
    BY <1>14, <2>0 DEF PageSave, TableOK
  <2>6. due' \in [Ids -> Int] BY <1>14, <2>0 DEF PageSave, TableOK
  <2>7. overwritten' \subseteq Ids BY <1>14, <2>0 DEF PageSave, TableOK
  <2>8. stale' \subseteq Ids BY <1>14, <2>0 DEF PageSave, TableOK
  <2>9. raced' \subseteq Logins \cup {None} BY <1>14 DEF PageSave, TableOK
  <2>1. TableOK' BY <2>5, <2>6, <2>7, <2>8, <2>9 DEF TableOK
  <2>2. RingOK'
    BY <1>14 DEF PageSave, RingOK, TableOK, PlaceOK, ring, local, bound, Exists
  <2>3. PlaceOK'
    BY <1>14 DEF PageSave, PlaceOK, TableOK, RingOK, ring, local, bound, Exists
  <2>4. PageOK'
    BY <1>14 DEF PageSave, PageOK, TableOK, ring, local, bound, Exists
  <2> QED BY <2>1, <2>2, <2>3, <2>4
<1>15. ASSUME NEW l \in Logins, PageImportRow(l) PROVE Parts'
  <2>0. PICK n \in Typed : Insert("import", l, n) BY <1>15 DEF PageImportRow
  <2>5. TypeOK /\ n \in Nat BY <2>0 DEF TypeOK, TableOK, RingOK, PlaceOK, PageOK
  <2>1. TableOK'
    BY <1>15, <2>0, <2>5, InsertTypes DEF PageImportRow, TableOK, PageOK
  <2>2. RingOK'
    BY <1>15 DEF PageImportRow, RingOK, TableOK, PlaceOK, ring, local, bound
  <2>3. PlaceOK'
    BY <1>15 DEF PageImportRow, PlaceOK, TableOK, RingOK, ring, local, bound
  <2>4. PageOK'
    BY <1>15, <2>0, <2>5, InsertTypes DEF PageImportRow, PageOK, ring, local, bound
  <2> QED BY <2>1, <2>2, <2>3, <2>4
<1>16. ASSUME NEW u \in Ids, PageOpen(u) PROVE Parts'
  <2>1. TableOK'
    BY <1>16 DEF PageOpen, TableOK, PageOK, PlaceOK, Event, table, ring, local, past, Exists
  <2>2. RingOK'
    BY <1>16 DEF PageOpen, RingOK, TableOK, PlaceOK, Event, table, ring, local, past, Exists
  <2>3. PlaceOK'
    BY <1>16 DEF PageOpen, PlaceOK, TableOK, RingOK, Event, table, ring, local, past, Exists
  <2>4. PageOK'
    BY <1>16 DEF PageOpen, PageOK, TableOK, Event, table, ring, local, past, Exists
  <2> QED BY <2>1, <2>2, <2>3, <2>4
<1>17. ASSUME NEW u \in Ids, PageKill(u) PROVE Parts'
  <2>1. TableOK'
    BY <1>17 DEF PageKill, TableOK, PageOK, PlaceOK, Event, ring, local, pages, Exists
  <2>2. RingOK'
    BY <1>17 DEF PageKill, RingOK, TableOK, PlaceOK, Event, ring, local, pages, Exists
  <2>3. PlaceOK'
    BY <1>17 DEF PageKill, PlaceOK, TableOK, RingOK, Event, ring, local, pages, Exists
  <2>4. PageOK'
    BY <1>17 DEF PageKill, PageOK, TableOK, Event, ring, local, pages, Exists
  <2> QED BY <2>1, <2>2, <2>3, <2>4
<1>18. CASE PageCreate
  <2>0. PICK n \in Typed : Insert("page", creating, n) BY <1>18 DEF PageCreate
  <2>5. TypeOK /\ n \in Nat BY <2>0 DEF TypeOK, TableOK, RingOK, PlaceOK, PageOK
  <2>1. TableOK'
    BY <1>18, <2>0, <2>5, InsertTypes DEF PageCreate, TableOK, PageOK
  <2>2. RingOK'
    BY <1>18 DEF PageCreate, RingOK, TableOK, PlaceOK, ring, local, bound
  <2>3. PlaceOK'
    BY <1>18 DEF PageCreate, PlaceOK, TableOK, RingOK, ring, local, bound
  <2>4. PageOK'
    BY <1>18, <2>0, <2>5, InsertTypes DEF PageCreate, PageOK, ring, local, bound
  <2> QED BY <2>1, <2>2, <2>3, <2>4
<1>19. CASE PageSaveNobody
  <2>1. TableOK'
    BY <1>19 DEF PageSaveNobody, TableOK, PageOK, PlaceOK, table, ring, local, past, bound, Exists
  <2>2. RingOK'
    BY <1>19 DEF PageSaveNobody, RingOK, TableOK, PlaceOK, table, ring, local, past, bound, Exists
  <2>3. PlaceOK'
    BY <1>19 DEF PageSaveNobody, PlaceOK, TableOK, RingOK, table, ring, local, past, bound, Exists
  <2>4. PageOK'
    BY <1>19 DEF PageSaveNobody, PageOK, TableOK, table, ring, local, past, bound, Exists
  <2> QED BY <2>1, <2>2, <2>3, <2>4
<1>20. ASSUME NEW s \in SUBSET Logins, PageImport(s) PROVE Parts'
  <2>1. TableOK'
    BY <1>20 DEF PageImport, TableOK, PageOK, PlaceOK, Event, ring, local
  <2>2. RingOK'
    BY <1>20 DEF PageImport, RingOK, TableOK, PlaceOK, Event, ring, local
  <2>3. PlaceOK'
    BY <1>20 DEF PageImport, PlaceOK, TableOK, RingOK, Event, ring, local
  <2>4. PageOK'
    BY <1>20 DEF PageImport, PageOK, TableOK, Event, ring, local
  <2> QED BY <2>1, <2>2, <2>3, <2>4
<1>21. CASE Restart
  <2>1. TableOK'
    BY <1>21 DEF Restart, TableOK, PageOK, PlaceOK, Event, Goto, Return, table, pages
  <2>2. RingOK'
    BY <1>21 DEF Restart, RingOK, TableOK, PlaceOK, Event, Goto, Return, table, pages
  <2>3. PlaceOK'
    BY <1>21 DEF Restart, PlaceOK, TableOK, RingOK, Event, Goto, Return, table, pages
  <2>4. PageOK'
    BY <1>21 DEF Restart, PageOK, TableOK, Event, Goto, Return, table, pages
  <2> QED BY <2>1, <2>2, <2>3, <2>4
<1>22. ASSUME NEW dead \in SUBSET Ids, Job(dead) PROVE Parts'
  <2>1. TableOK'
    BY <1>22 DEF Job, TableOK, PageOK, PlaceOK, Event, ring, local, pages
  <2>2. RingOK'
    BY <1>22 DEF Job, RingOK, TableOK, PlaceOK, Event, ring, local, pages
  <2>3. PlaceOK'
    BY <1>22 DEF Job, PlaceOK, TableOK, RingOK, Event, ring, local, pages
  <2>4. PageOK'
    BY <1>22, OvertakeTypes DEF Job, PageOK, TableOK, Event, ring, local, pages
  <2> QED BY <2>1, <2>2, <2>3, <2>4
<1>23. CASE UNCHANGED vars
  <2>1. TableOK'
    BY <1>23 DEF vars, table, ring, local, pages, past, bound, TableOK, PageOK, PlaceOK
  <2>2. RingOK'
    BY <1>23 DEF vars, table, ring, local, pages, past, bound, RingOK, TableOK, PlaceOK
  <2>3. PlaceOK'
    BY <1>23 DEF vars, table, ring, local, pages, past, bound, PlaceOK, TableOK, RingOK
  <2>4. PageOK'
    BY <1>23 DEF vars, table, ring, local, pages, past, bound, PageOK, TableOK
  <2> QED BY <2>1, <2>2, <2>3, <2>4
<1> QED BY <1>1, <1>2, <1>3, <1>4, <1>5, <1>6, <1>7, <1>8, <1>9, <1>10, <1>11, <1>12, <1>13, <1>14, <1>15, <1>16, <1>17, <1>18, <1>19, <1>20, <1>21, <1>22, <1>23
  DEF Next, ParseString, Page

(* The state stays well typed, for all logins, cache sizes and bounds.      *)
THEOREM AccountsTypeCorrect == Spec => []TypeOK
BY TypeInit, TypeStep, PTL DEF Spec
------------------------------------------------------------------------------
LEMMA RingInit == Init => RingInv
BY DEF Init, RingInv, OneEntry

(* Remembering a login that is not visible keeps the ring's entries apart.  *)
LEMMA RingRemember ==
  ASSUME TypeOK, RingInv, NEW l, NEW u \in Owners, Hits(l) = {}, Remember(l, u), pc' \in {"idle", "charge", "site"}
  PROVE  RingInv'
<1>1. cache' = [cache EXCEPT ![pointer] = [uname |-> l, uid |-> u]] BY DEF Remember
<1>2. \A i \in Slots : i < filled => cache[i].uname # l BY DEF Hits
<1>3. filled' < CacheSize - 1 => pointer' = filled' BY DEF Remember, RingInv, TypeOK
<1>4. \A i \in Slots : i < filled' => i < filled \/ i = pointer BY DEF Remember, RingInv, TypeOK
<1>5. \A i \in Slots : cache'[i] = (IF i = pointer THEN [uname |-> l, uid |-> u] ELSE cache[i])
  BY <1>1 DEF TypeOK
<1>6. OneEntry'
  <2> SUFFICES ASSUME NEW i \in Slots, NEW j \in Slots, i < filled', j < filled', cache'[i].uname = cache'[j].uname
               PROVE  i = j
    BY DEF OneEntry
  <2>1. CASE i = pointer /\ j # pointer BY <1>2, <1>4, <1>5, <2>1
  <2>2. CASE i # pointer /\ j = pointer BY <1>2, <1>4, <1>5, <2>2
  <2>3. CASE i # pointer /\ j # pointer BY <1>4, <1>5, <2>3 DEF RingInv, OneEntry
  <2> QED BY <2>1, <2>2, <2>3
<1> QED BY <1>3, <1>6 DEF RingInv

LEMMA RingStep == TypeOK /\ RingInv /\ [Next]_vars => RingInv'
<1> SUFFICES ASSUME TypeOK, RingInv, [Next]_vars PROVE RingInv' OBVIOUS
<1>1. ASSUME NEW l \in Logins, NEW k \in LineKinds, ReadHit([login |-> l, kind |-> k]) PROVE RingInv'
  BY <1>1 DEF ReadHit, Goto, Bill, Return, table, ring, pages, past, RingInv, OneEntry, Hits, TypeOK
<1>2. ASSUME NEW l \in Logins, NEW k \in LineKinds, ReadMiss([login |-> l, kind |-> k]) PROVE RingInv'
  BY <1>2 DEF ReadMiss, Goto, table, ring, pages, past, RingInv, OneEntry, Hits, TypeOK
<1>3. CASE SelectFound
  <2>1. PICK u \in Owners : Remember(line.login, u) BY <1>3 DEF SelectFound, Named, Insert, Overtake, TypeOK
  <2>2. Hits(line.login) = {} BY <1>3 DEF SelectFound, RingInv
  <2>3. pc' \in {"idle", "charge", "site"} BY <1>3 DEF SelectFound, Goto, Bill, Return
  <2> QED BY <2>1, <2>2, <2>3, RingRemember
<1>4. CASE SelectUnknown
  BY <1>4 DEF SelectUnknown, Goto, Return, table, ring, pages, past, bound, RingInv, OneEntry, Hits, TypeOK
<1>5. CASE SelectNew
  BY <1>5 DEF SelectNew, Goto, table, ring, pages, past, bound, RingInv, OneEntry, Hits, TypeOK
<1>6. CASE StatementFails
  BY <1>6 DEF StatementFails, Event, Goto, Return, table, ring, pages, past, RingInv, OneEntry, Hits, TypeOK
<1>7. CASE Learn
  <2>1. PICK u \in Owners : Remember(line.login, u) BY <1>7 DEF Learn, Named, Insert, Overtake, TypeOK
  <2>2. Hits(line.login) = {} BY <1>7 DEF Learn, RingInv
  <2>3. pc' \in {"idle", "charge", "site"} BY <1>7 DEF Learn, Goto, Bill, Return
  <2> QED BY <2>1, <2>2, <2>3, RingRemember
<1>8. CASE LearnNothing
  <2>1. PICK u \in Owners : Remember(line.login, u) BY <1>8 DEF LearnNothing, Named, Insert, Overtake, TypeOK
  <2>2. Hits(line.login) = {} BY <1>8 DEF LearnNothing, RingInv
  <2>3. pc' \in {"idle", "charge", "site"} BY <1>8 DEF LearnNothing, Goto, Bill, Return
  <2> QED BY <2>1, <2>2, <2>3, RingRemember
<1>9. CASE Charge
  BY <1>9 DEF Charge, Overtake, Goto, ring, pages, bound, RingInv, OneEntry, Hits, TypeOK
<1>10. CASE ChargeNobody
  BY <1>10 DEF ChargeNobody, Goto, Return, table, ring, pages, past, bound, RingInv, OneEntry, Hits, TypeOK
<1>11. CASE ChargeFails
  BY <1>11 DEF ChargeFails, Event, Goto, table, ring, pages, past, RingInv, OneEntry, Hits, TypeOK
<1>12. CASE CountSite
  BY <1>12 DEF CountSite, Goto, Return, table, ring, pages, past, bound, RingInv, OneEntry, Hits, TypeOK
<1>13. ASSUME NEW l \in Logins, PageLook(l) PROVE RingInv'
  BY <1>13 DEF PageLook, Event, table, ring, local, past, RingInv, OneEntry, Hits, TypeOK
<1>14. ASSUME NEW l \in Logins, NEW n \in Typed \cup {form.shown}, PageSave(l, n) PROVE RingInv'
  BY <1>14 DEF PageSave, ring, local, bound, RingInv, OneEntry, Hits, TypeOK
<1>15. ASSUME NEW l \in Logins, PageImportRow(l) PROVE RingInv'
  BY <1>15 DEF PageImportRow, Insert, Overtake, ring, local, bound, RingInv, OneEntry, Hits, TypeOK
<1>16. ASSUME NEW u \in Ids, PageOpen(u) PROVE RingInv'
  BY <1>16 DEF PageOpen, Event, table, ring, local, past, RingInv, OneEntry, Hits, TypeOK
<1>17. ASSUME NEW u \in Ids, PageKill(u) PROVE RingInv'
  BY <1>17 DEF PageKill, Event, ring, local, pages, RingInv, OneEntry, Hits, TypeOK
<1>18. CASE PageCreate
  BY <1>18 DEF PageCreate, Insert, Overtake, ring, local, bound, RingInv, OneEntry, Hits, TypeOK
<1>19. CASE PageSaveNobody
  BY <1>19 DEF PageSaveNobody, table, ring, local, past, bound, RingInv, OneEntry, Hits, TypeOK
<1>20. ASSUME NEW s \in SUBSET Logins, PageImport(s) PROVE RingInv'
  BY <1>20 DEF PageImport, Event, ring, local, RingInv, OneEntry, Hits, TypeOK
<1>21. CASE Restart
  BY <1>21 DEF Restart, Event, Goto, Return, table, pages, RingInv, OneEntry, Hits, TypeOK
<1>22. ASSUME NEW dead \in SUBSET Ids, Job(dead) PROVE RingInv'
  BY <1>22 DEF Job, Overtake, Event, ring, local, pages, RingInv, OneEntry, Hits, TypeOK
<1>23. CASE UNCHANGED vars
  BY <1>23 DEF vars, table, ring, local, pages, past, bound, RingInv, OneEntry, Hits, TypeOK
<1> QED BY <1>1, <1>2, <1>3, <1>4, <1>5, <1>6, <1>7, <1>8, <1>9, <1>10, <1>11, <1>12, <1>13, <1>14, <1>15, <1>16, <1>17, <1>18, <1>19, <1>20, <1>21, <1>22, <1>23
  DEF Next, ParseString, Page

(* No login is in two slots that the lookup sees (main.cpp:1496-1505 and    *)
(* 1555-1563).                                                              *)
THEOREM OneEntryEach == Spec => []OneEntry
<1>1. RingInv => OneEntry BY DEF RingInv
<1> QED BY <1>1, RingInit, RingStep, AccountsTypeCorrect, PTL DEF Spec
------------------------------------------------------------------------------
LEMMA RightInit == Init => RightInv
BY DEF Init, RightInv

LEMMA RightStep == TypeOK /\ RightInv /\ [Next]_vars => RightInv'
<1> DEFINE After(m, v) ==
      \/ v \in Ids /\ login'[v] = m
      \/ v \in stale'
      \/ v = 0 /\ ~flags'.defaults
<1> SUFFICES ASSUME TypeOK, RightInv, [Next]_vars PROVE RightInv' OBVIOUS
<1>1. ASSUME NEW l \in Logins, NEW k \in LineKinds, ReadHit([login |-> l, kind |-> k]) PROVE RightInv'
  <2>1. PICK i \in Slots : cache[i].uname = l /\ Bill(cache[i].uid, [login |-> l, kind |-> k]) BY <1>1 DEF ReadHit, Hits
  <2>2. pc' # "idle" => line'.login = l /\ uid' = cache[i].uid BY <2>1 DEF Bill, Goto, Return
  <2>3. After(l, cache[i].uid) BY <2>1, <1>1 DEF RightInv, Right, ReadHit, table, past
  <2>4. /\ \A u \in Ids : u >= nextId' => login'[u] = None
        /\ \A j \in Slots : cache'[j].uname # None => After(cache'[j].uname, cache'[j].uid)
    BY <1>1 DEF ReadHit, RightInv, Right, table, ring, past
  <2> QED BY <2>2, <2>3, <2>4 DEF RightInv, Right
<1>2. ASSUME NEW l \in Logins, NEW k \in LineKinds, ReadMiss([login |-> l, kind |-> k]) PROVE RightInv'
  BY <1>2 DEF ReadMiss, Goto, table, ring, pages, past, RightInv, Right, Hits, TypeOK
<1>3. CASE SelectFound
  BY <1>3 DEF SelectFound, Remember, Goto, Bill, Return, table, pages, past, bound, RightInv, Right, Named, TypeOK
<1>4. CASE SelectUnknown
  BY <1>4 DEF SelectUnknown, Goto, Return, table, ring, pages, past, bound, RightInv, Right, Named, TypeOK
<1>5. CASE SelectNew
  BY <1>5 DEF SelectNew, Goto, table, ring, pages, past, bound, RightInv, Right, Named, TypeOK
<1>6. CASE StatementFails
  BY <1>6 DEF StatementFails, Event, Goto, Return, table, ring, pages, past, RightInv, Right, TypeOK
<1>7. CASE Learn
  <2>1. /\ login' = [login EXCEPT ![nextId] = line.login] /\ login[nextId] = None
        /\ nextId \in Ids /\ nextId' = nextId + 1
    BY <1>7 DEF Learn, Insert, Overtake, RightInv, TypeOK
  <2>2. \A m, v : Right(m, v) /\ m # None => After(m, v) BY <1>7, <2>1 DEF Learn, Right, TypeOK
  <2>3. After(line.login, nextId) /\ line.login \in Logins BY <1>7, <2>1 DEF Learn, RightInv, TypeOK
  <2>4. \A i \in Slots : cache'[i] = (IF i = pointer THEN [uname |-> line.login, uid |-> nextId] ELSE cache[i])
    BY <1>7 DEF Learn, Remember, TypeOK
  <2>5. \A u \in Ids : u >= nextId' => login'[u] = None BY <2>1 DEF RightInv, TypeOK
  <2>6. ASSUME NEW i \in Slots, cache'[i].uname # None PROVE After(cache'[i].uname, cache'[i].uid)
    <3>1. CASE i = pointer
      <4>1. cache'[i].uname = line.login /\ cache'[i].uid = nextId BY <2>4, <3>1
      <4> QED BY <4>1, <2>3
    <3>2. CASE i # pointer
      <4>1. cache'[i] = cache[i] BY <2>4, <3>2
      <4>2. Right(cache[i].uname, cache[i].uid) BY <4>1, <2>6 DEF RightInv
      <4> QED BY <4>1, <4>2, <2>2, <2>6
    <3> QED BY <3>1, <3>2
  <2>7. pc' # "idle" => line' = line /\ uid' = nextId BY <1>7 DEF Learn, Bill, Return, Goto
  <2>8. pc' # "idle" => After(line'.login, uid') /\ line'.login \in Logins BY <2>3, <2>7
  <2> QED BY <2>5, <2>6, <2>8 DEF RightInv, Right
<1>8. CASE LearnNothing
  BY <1>8 DEF LearnNothing, Remember, Goto, Bill, Return, table, pages, past, bound, RightInv, Right, TypeOK
<1>9. CASE Charge
  BY <1>9 DEF Charge, Overtake, Goto, ring, pages, bound, RightInv, Right, Exists, TypeOK
<1>10. CASE ChargeNobody
  BY <1>10 DEF ChargeNobody, Goto, Return, table, ring, pages, past, bound, RightInv, Right, Exists, TypeOK
<1>11. CASE ChargeFails
  BY <1>11 DEF ChargeFails, Event, Goto, table, ring, pages, past, RightInv, Right, TypeOK
<1>12. CASE CountSite
  BY <1>12 DEF CountSite, Goto, Return, table, ring, pages, past, bound, RightInv, Right, TypeOK
<1>13. ASSUME NEW l \in Logins, PageLook(l) PROVE RightInv'
  BY <1>13 DEF PageLook, Event, table, ring, local, past, RightInv, Right, Named, TypeOK
<1>14. ASSUME NEW l \in Logins, NEW n \in Typed \cup {form.shown}, PageSave(l, n) PROVE RightInv'
  BY <1>14 DEF PageSave, ring, local, bound, RightInv, Right, Exists, TypeOK
<1>15. ASSUME NEW l \in Logins, PageImportRow(l) PROVE RightInv'
  <2>1. PICK n \in Typed : Insert("import", l, n) BY <1>15 DEF PageImportRow
  <2>2. login' = [login EXCEPT ![nextId] = l] /\ nextId \in Ids /\ nextId' = nextId + 1 BY <2>1 DEF Insert
  <2> QED BY <1>15, <2>2 DEF PageImportRow, ring, local, bound, RightInv, Right, TypeOK
<1>16. ASSUME NEW u \in Ids, PageOpen(u) PROVE RightInv'
  BY <1>16 DEF PageOpen, Event, table, ring, local, past, RightInv, Right, Exists, TypeOK
<1>17. ASSUME NEW u \in Ids, PageKill(u) PROVE RightInv'
  BY <1>17 DEF PageKill, Event, ring, local, pages, RightInv, Right, Exists, TypeOK
<1>18. CASE PageCreate
  <2>1. PICK n \in Typed : Insert("page", creating, n) BY <1>18 DEF PageCreate
  <2>2. login' = [login EXCEPT ![nextId] = creating] /\ nextId \in Ids /\ nextId' = nextId + 1 BY <2>1 DEF Insert
  <2>3. creating \in Logins BY <1>18 DEF PageCreate, TypeOK
  <2>4. stale' = stale /\ ring' = ring /\ local' = local BY <1>18 DEF PageCreate, ring, local
  <2>5. login[nextId] = None BY <2>2 DEF RightInv, TypeOK
  <2>6. \A m, v : Right(m, v) /\ m # None => After(m, v) BY <2>2, <2>4, <2>5 DEF Right, TypeOK, local
  <2>7. \A u \in Ids : u >= nextId' => login'[u] = None BY <2>2 DEF RightInv, TypeOK
  <2>8. \A i \in Slots : cache'[i].uname # None => After(cache'[i].uname, cache'[i].uid)
    BY <2>4, <2>6 DEF RightInv, ring
  <2>9. pc' # "idle" => line'.login \in Logins BY <2>4 DEF RightInv, local
  <2>10. pc' \in {"charge", "site"} => After(line'.login, uid')
    BY <2>4, <2>6, AccountsAssumption DEF RightInv, local
  <2> QED BY <2>7, <2>8, <2>9, <2>10 DEF RightInv, Right
<1>19. CASE PageSaveNobody
  BY <1>19 DEF PageSaveNobody, table, ring, local, past, bound, RightInv, Right, Exists, TypeOK
<1>20. ASSUME NEW s \in SUBSET Logins, PageImport(s) PROVE RightInv'
  <2>1. \A m, v : Right(m, v) /\ m # None => After(m, v)
    BY <1>20 DEF PageImport, Right, RightInv, TypeOK, local
  <2>2. ring' = ring /\ local' = local BY <1>20 DEF PageImport, ring, local
  <2>3. \A u \in Ids : login'[u] = None BY <1>20 DEF PageImport
  <2>4. \A i \in Slots : cache'[i].uname # None => After(cache'[i].uname, cache'[i].uid)
    BY <2>1, <2>2 DEF RightInv, ring
  <2>5. pc' # "idle" => line'.login \in Logins BY <2>2 DEF RightInv, local
  <2>6. pc' \in {"charge", "site"} => After(line'.login, uid')
    BY <2>1, <2>2, AccountsAssumption DEF RightInv, local
  <2> QED BY <2>3, <2>4, <2>5, <2>6 DEF RightInv, Right
<1>21. CASE Restart
  BY <1>21 DEF Restart, Event, Goto, Return, table, pages, RightInv, Right, TypeOK
<1>22. ASSUME NEW dead \in SUBSET Ids, Job(dead) PROVE RightInv'
  BY <1>22 DEF Job, Overtake, Event, ring, local, pages, RightInv, Right, TypeOK
<1>23. CASE UNCHANGED vars
  BY <1>23 DEF vars, table, ring, local, pages, past, bound, RightInv, Right, TypeOK
<1> QED BY <1>1, <1>2, <1>3, <1>4, <1>5, <1>6, <1>7, <1>8, <1>9, <1>10, <1>11, <1>12, <1>13, <1>14, <1>15, <1>16, <1>17, <1>18, <1>19, <1>20, <1>21, <1>22, <1>23
  DEF Next, ParseString, Page

(* A line is charged to the row of its login, unless that id changed hands  *)
(* or went while the daemon ran, or the login was learned without options.  *)
THEOREM RightRowAlways == Spec => []RightRow
<1>1. RightInv => RightRow BY DEF RightInv, Right, RightRow
<1> QED BY <1>1, RightInit, RightStep, AccountsTypeCorrect, PTL DEF Spec
------------------------------------------------------------------------------
(* A form that nothing has overtaken shows what is used.                    *)
UsedInv ==
  /\ UsedIsDue
  /\ form.fresh /\ Exists(form.id) /\ form.id \notin overwritten => used[form.id] = form.shown

LEMMA UsedInit == Init => UsedInv
BY DEF Init, UsedInv, UsedIsDue, Exists

LEMMA UsedStep == TypeOK /\ UsedInv /\ [Next]_vars => UsedInv'
<1> SUFFICES ASSUME TypeOK, UsedInv, [Next]_vars PROVE UsedInv' OBVIOUS
<1>1. ASSUME NEW l \in Logins, NEW k \in LineKinds, ReadHit([login |-> l, kind |-> k]) PROVE UsedInv'
  BY <1>1 DEF ReadHit, table, ring, pages, past, UsedInv, UsedIsDue, Exists, TypeOK
<1>2. ASSUME NEW l \in Logins, NEW k \in LineKinds, ReadMiss([login |-> l, kind |-> k]) PROVE UsedInv'
  BY <1>2 DEF ReadMiss, table, ring, pages, past, Goto, UsedInv, UsedIsDue, Exists, TypeOK
<1>3. CASE SelectFound
  BY <1>3 DEF SelectFound, table, pages, past, Bill, Goto, Return, UsedInv, UsedIsDue, Exists, TypeOK
<1>4. CASE SelectUnknown
  BY <1>4 DEF SelectUnknown, table, pages, past, Return, Goto, UsedInv, UsedIsDue, Exists, TypeOK
<1>5. CASE SelectNew
  BY <1>5 DEF SelectNew, table, pages, past, Goto, Named, UsedInv, UsedIsDue, Exists, TypeOK
<1>6. CASE StatementFails
  BY <1>6 DEF StatementFails, table, pages, past, Return, Goto, UsedInv, UsedIsDue, Exists, TypeOK
<1>7. CASE Learn
  <2>0. Insert("daemon", line.login, 0) BY <1>7 DEF Learn
  <2>1. login' = [login EXCEPT ![nextId] = line.login] /\ nextId \in Ids
    BY <2>0 DEF Insert
  <2>2. used'[nextId] = due'[nextId] /\ overwritten' = overwritten \ {nextId}
        /\ \A u \in Ids \ {nextId} : used'[u] = used[u] /\ due'[u] = due[u]
    BY <2>0, <2>1 DEF Insert, TypeOK
  <2>3. form'.id = form.id /\ form'.shown = form.shown /\ (form.id = nextId => ~form'.fresh)
        /\ (form.id # nextId => form' = form)
    BY <2>0 DEF Insert, Overtake, TypeOK
  <2> QED BY <2>1, <2>2, <2>3 DEF UsedInv, UsedIsDue, Exists, TypeOK
<1>8. CASE LearnNothing
  BY <1>8 DEF LearnNothing, table, pages, past, Bill, Goto, Return, UsedInv, UsedIsDue, Exists, TypeOK
<1>9. CASE Charge
  <2>1. /\ used' = [used EXCEPT ![uid] = used[uid] + 1] /\ due' = [due EXCEPT ![uid] = due[uid] + 1]
        /\ uid \in Ids /\ login' = login /\ overwritten' = overwritten
    BY <1>9 DEF Charge, Exists
  <2>2. form'.id = form.id /\ form'.shown = form.shown /\ (form.id = uid => ~form'.fresh)
        /\ (form.id # uid => form' = form)
    BY <1>9 DEF Charge, Overtake, TypeOK
  <2> QED BY <2>1, <2>2 DEF UsedInv, UsedIsDue, Exists, TypeOK
<1>10. CASE ChargeNobody
  BY <1>10 DEF ChargeNobody, table, pages, past, Return, Goto, UsedInv, UsedIsDue, Exists, TypeOK
<1>11. CASE ChargeFails
  BY <1>11 DEF ChargeFails, table, pages, past, Goto, UsedInv, UsedIsDue, Exists, TypeOK
<1>12. CASE CountSite
  BY <1>12 DEF CountSite, table, pages, past, Return, Goto, UsedInv, UsedIsDue, Exists, TypeOK
<1>13. ASSUME NEW l \in Logins, PageLook(l) PROVE UsedInv'
  BY <1>13 DEF PageLook, table, local, past, Named, UsedInv, UsedIsDue, Exists, TypeOK
<1>14. ASSUME NEW l \in Logins, NEW n \in Typed \cup {form.shown}, PageSave(l, n) PROVE UsedInv'
  <2>1. /\ form.id \in Ids /\ login[form.id] # None /\ form' = NoForm
        /\ used' = [used EXCEPT ![form.id] = n] /\ n \in Int
        /\ due' = [due EXCEPT ![form.id] = due[form.id] + (n - form.shown)]
        /\ login' = [login EXCEPT ![form.id] = l]
    BY <1>14 DEF PageSave, Exists, TypeOK
  <2>2. overwritten' = IF form.fresh THEN overwritten ELSE overwritten \cup {form.id}
    BY <1>14 DEF PageSave
  <2>3. form.id \notin overwritten' => used'[form.id] = due'[form.id]
    BY <2>1, <2>2 DEF UsedInv, UsedIsDue, Exists, TypeOK
  <2>4. ASSUME NEW u \in Ids, login'[u] # None, u \notin overwritten', u # form.id PROVE used'[u] = due'[u]
    BY <2>1, <2>2, <2>4 DEF UsedInv, UsedIsDue, Exists, TypeOK
  <2> QED BY <2>1, <2>3, <2>4 DEF UsedInv, UsedIsDue, Exists
<1>15. ASSUME NEW l \in Logins, PageImportRow(l) PROVE UsedInv'
  <2>0. PICK n \in Typed : Insert("import", l, n) BY <1>15 DEF PageImportRow
  <2>1. login' = [login EXCEPT ![nextId] = l] /\ nextId \in Ids
    BY <2>0 DEF Insert
  <2>2. used'[nextId] = due'[nextId] /\ overwritten' = overwritten \ {nextId}
        /\ \A u \in Ids \ {nextId} : used'[u] = used[u] /\ due'[u] = due[u]
    BY <2>0, <2>1 DEF Insert, TypeOK
  <2>3. form'.id = form.id /\ form'.shown = form.shown /\ (form.id = nextId => ~form'.fresh)
        /\ (form.id # nextId => form' = form)
    BY <2>0 DEF Insert, Overtake, TypeOK
  <2> QED BY <2>1, <2>2, <2>3 DEF UsedInv, UsedIsDue, Exists, TypeOK
<1>16. ASSUME NEW u \in Ids, PageOpen(u) PROVE UsedInv'
  BY <1>16 DEF PageOpen, table, local, past, UsedInv, UsedIsDue, Exists, TypeOK
<1>17. ASSUME NEW u \in Ids, PageKill(u) PROVE UsedInv'
  BY <1>17 DEF PageKill, local, pages, UsedInv, UsedIsDue, Exists, TypeOK
<1>18. CASE PageCreate
  <2>0. PICK n \in Typed : Insert("page", creating, n) BY <1>18 DEF PageCreate
  <2>1. login' = [login EXCEPT ![nextId] = creating] /\ nextId \in Ids
    BY <2>0 DEF Insert
  <2>2. used'[nextId] = due'[nextId] /\ overwritten' = overwritten \ {nextId}
        /\ \A u \in Ids \ {nextId} : used'[u] = used[u] /\ due'[u] = due[u]
    BY <2>0, <2>1 DEF Insert, TypeOK
  <2>3. form'.id = form.id /\ form'.shown = form.shown /\ (form.id = nextId => ~form'.fresh)
        /\ (form.id # nextId => form' = form)
    BY <2>0 DEF Insert, Overtake, TypeOK
  <2> QED BY <2>1, <2>2, <2>3 DEF UsedInv, UsedIsDue, Exists, TypeOK
<1>19. CASE PageSaveNobody
  BY <1>19 DEF PageSaveNobody, table, local, past, UsedInv, UsedIsDue, Exists, TypeOK
<1>20. ASSUME NEW s \in SUBSET Logins, PageImport(s) PROVE UsedInv'
  BY <1>20 DEF PageImport, local, Named, UsedInv, UsedIsDue, Exists, TypeOK
<1>21. CASE Restart
  BY <1>21 DEF Restart, table, pages, Return, Goto, UsedInv, UsedIsDue, Exists, TypeOK
<1>22. ASSUME NEW dead \in SUBSET Ids, Job(dead) PROVE UsedInv'
  BY <1>22 DEF Job, local, Overtake, UsedInv, UsedIsDue, Exists, TypeOK
<1>23. CASE UNCHANGED vars
  BY <1>23 DEF vars, table, local, pages, past, UsedInv, UsedIsDue, Exists, TypeOK
<1> QED BY <1>1, <1>2, <1>3, <1>4, <1>5, <1>6, <1>7, <1>8, <1>9, <1>10, <1>11, <1>12, <1>13, <1>14, <1>15, <1>16, <1>17, <1>18, <1>19, <1>20, <1>21, <1>22, <1>23
  DEF Next, ParseString, Page

(* What a user used is what his lines were charged and what the pages       *)
(* changed on purpose, unless a form was stored that had been overtaken     *)
(* (main.cpp:1571; admin/index.php:104 and 333; sa/index.php:240).          *)
THEOREM UsedAlways == Spec => []UsedIsDue
<1>1. UsedInv => UsedIsDue BY DEF UsedInv
<1> QED BY <1>1, UsedInit, UsedStep, AccountsTypeCorrect, PTL DEF Spec
------------------------------------------------------------------------------
(* Who waits to insert a login that has a row meanwhile is in a race.       *)
Waits(l) == (pc = "learn" /\ line.login = l) \/ creating = l \/ l \in importing
LoginInv ==
  /\ LoginOnce
  /\ \A l \in Logins : Waits(l) => l \in raced \/ \A u \in Ids : login[u] # l
  /\ pc \in {"select", "learn"} => line.login \in Logins

(* Who is not among the other inserters of a login does not wait for it.    *)
LEMMA Others ==
  ASSUME NEW who, NEW l, Inserters(l) \ {who} = {}
  PROVE  /\ who # "daemon" => ~(pc = "learn" /\ line.login = l)
         /\ who # "page" => creating # l
         /\ who # "import" => l \notin importing
<1>1. \A w \in {"daemon", "page", "import"} : w # who => w \notin Inserters(l) OBVIOUS
<1> QED BY <1>1 DEF Inserters

LEMMA LoginInit == Init => LoginInv
BY DEF Init, LoginInv, LoginOnce, Waits, Exists

LEMMA LoginStep == TypeOK /\ LoginInv /\ [Next]_vars => LoginInv'
<1> SUFFICES ASSUME TypeOK, LoginInv, [Next]_vars PROVE LoginInv' OBVIOUS
<1>1. ASSUME NEW l \in Logins, NEW k \in LineKinds, ReadHit([login |-> l, kind |-> k]) PROVE LoginInv'
  BY <1>1 DEF ReadHit, Bill, Goto, Return, table, ring, pages, past, LoginInv, LoginOnce, Waits, Exists, TypeOK
<1>2. ASSUME NEW l \in Logins, NEW k \in LineKinds, ReadMiss([login |-> l, kind |-> k]) PROVE LoginInv'
  BY <1>2 DEF ReadMiss, table, ring, pages, past, Goto, LoginInv, LoginOnce, Waits, Exists, TypeOK
<1>3. CASE SelectFound
  BY <1>3 DEF SelectFound, table, pages, past, Bill, Goto, Return, LoginInv, LoginOnce, Waits, Exists, TypeOK
<1>4. CASE SelectUnknown
  BY <1>4 DEF SelectUnknown, table, pages, past, Return, Goto, LoginInv, LoginOnce, Waits, Exists, TypeOK
<1>5. CASE SelectNew
  BY <1>5 DEF SelectNew, table, pages, past, Goto, Named, LoginInv, LoginOnce, Waits, Exists, TypeOK
<1>6. CASE StatementFails
  BY <1>6 DEF StatementFails, table, pages, past, Return, Goto, LoginInv, LoginOnce, Waits, Exists, TypeOK
<1>7. CASE Learn
  <2>0. PICK l \in Logins : l = line.login /\ Insert("daemon", l, 0) BY <1>7 DEF Learn, LoginInv
  <2>1. login' = [login EXCEPT ![nextId] = l] /\ nextId \in Ids /\ l \in Logins
    BY <1>7, <2>0 DEF Insert, Learn, LoginInv, TypeOK
  <2>8. raced' = IF Inserters(l) \ {"daemon"} # {} THEN raced \cup {l} ELSE raced BY <2>0 DEF Insert
  <2>9. Inserters(l) \ {"daemon"} = {} => ~Waits(l)'
    BY <1>7, <2>0, Others DEF Waits, Learn, Bill, Goto, Return, TypeOK
  <2>2. raced \subseteq raced' /\ (Waits(l)' => l \in raced') BY <2>8, <2>9
  <2>3. Waits(l) BY <1>7, <2>0 DEF Learn, Waits
  <2>4. \A m \in Logins : m # l /\ Waits(m)' => Waits(m) BY <1>7, <2>0 DEF Learn, Waits, Bill, Goto, Return
  <2>5. pc' \in {"select", "learn"} => line'.login \in Logins BY <1>7 DEF Learn, LoginInv, Bill, Goto, Return
  <2>6. ASSUME NEW m \in Logins, Waits(m)', m \notin raced', NEW u \in Ids PROVE login'[u] # m
    <3>1. m # l /\ m \notin raced BY <2>2, <2>6
    <3>2. login[u] # m BY <2>4, <2>6, <3>1 DEF LoginInv
    <3> QED BY <2>1, <3>1, <3>2 DEF TypeOK
  <2>7. ASSUME NEW u \in Ids, NEW v \in Ids, login'[u] # None, login'[u] = login'[v], u # v
        PROVE  login'[u] \in raced'
    <3>1. CASE u = nextId \/ v = nextId BY <2>1, <2>2, <2>3, <2>7, <3>1 DEF LoginInv, TypeOK
    <3>2. CASE u # nextId /\ v # nextId BY <2>1, <2>2, <2>7, <3>2 DEF LoginInv, LoginOnce, Exists, TypeOK
    <3> QED BY <3>1, <3>2
  <2> QED BY <2>5, <2>6, <2>7 DEF LoginInv, LoginOnce, Exists
<1>8. CASE LearnNothing
  BY <1>8 DEF LearnNothing, table, pages, past, Bill, Goto, Return, LoginInv, LoginOnce, Waits, Exists, TypeOK
<1>9. CASE Charge
  BY <1>9 DEF Charge, Goto, LoginInv, LoginOnce, Waits, Exists, TypeOK
<1>10. CASE ChargeNobody
  BY <1>10 DEF ChargeNobody, table, pages, past, Return, Goto, LoginInv, LoginOnce, Waits, Exists, TypeOK
<1>11. CASE ChargeFails
  BY <1>11 DEF ChargeFails, table, pages, past, Goto, LoginInv, LoginOnce, Waits, Exists, TypeOK
<1>12. CASE CountSite
  BY <1>12 DEF CountSite, table, pages, past, Return, Goto, LoginInv, LoginOnce, Waits, Exists, TypeOK
<1>13. ASSUME NEW l \in Logins, PageLook(l) PROVE LoginInv'
  BY <1>13 DEF PageLook, table, local, past, Named, LoginInv, LoginOnce, Waits, Exists, TypeOK
<1>14. ASSUME NEW l \in Logins, NEW n \in Typed \cup {form.shown}, PageSave(l, n) PROVE LoginInv'
  <2>1. form.id \in Ids /\ login' = [login EXCEPT ![form.id] = l] BY <1>14 DEF PageSave, Exists
  <2>2. \A m \in Logins : Waits(m)' <=> Waits(m) BY <1>14 DEF PageSave, Waits, local
  <2>3. raced \subseteq raced' BY <1>14 DEF PageSave
  <2>4. CASE login[form.id] = l
    <3>1. login' = login BY <2>1, <2>4 DEF TypeOK
    <3> QED BY <1>14, <2>2, <2>3, <3>1 DEF PageSave, LoginInv, LoginOnce, Exists, local
  <2>5. CASE login[form.id] # l
    <3>1. Waits(l) \/ (\E u \in Ids : login[u] = l) => l \in raced'
      BY <1>14, <2>5 DEF PageSave, Inserters, Named, Waits
    <3>2. \A m \in Logins : Waits(m)' => m \in raced' \/ \A u \in Ids : login'[u] # m
      BY <2>1, <2>2, <2>3, <3>1 DEF LoginInv, TypeOK
    <3>3. ASSUME NEW u \in Ids, NEW v \in Ids, login'[u] # None, login'[u] = login'[v], u # v
          PROVE  login'[u] \in raced'
      <4>1. CASE u = form.id \/ v = form.id BY <2>1, <3>1, <3>3, <4>1 DEF TypeOK
      <4>2. CASE u # form.id /\ v # form.id BY <2>1, <2>3, <3>3, <4>2 DEF LoginInv, LoginOnce, Exists, TypeOK
      <4> QED BY <4>1, <4>2
    <3> QED BY <1>14, <3>2, <3>3 DEF PageSave, LoginInv, LoginOnce, Exists, local
  <2> QED BY <2>4, <2>5
<1>15. ASSUME NEW l \in Logins, PageImportRow(l) PROVE LoginInv'
  <2>0. PICK n \in Typed : Insert("import", l, n) BY <1>15 DEF PageImportRow
  <2>1. login' = [login EXCEPT ![nextId] = l] /\ nextId \in Ids /\ l \in Logins
    BY <1>15, <2>0 DEF Insert, PageImportRow, LoginInv, TypeOK
  <2>8. raced' = IF Inserters(l) \ {"import"} # {} THEN raced \cup {l} ELSE raced BY <2>0 DEF Insert
  <2>9. Inserters(l) \ {"import"} = {} => ~Waits(l)'
    BY <1>15, Others DEF Waits, PageImportRow, local, TypeOK
  <2>2. raced \subseteq raced' /\ (Waits(l)' => l \in raced') BY <2>8, <2>9
  <2>3. Waits(l) BY <1>15 DEF PageImportRow, Waits
  <2>4. \A m \in Logins : m # l /\ Waits(m)' => Waits(m) BY <1>15 DEF PageImportRow, Waits, local
  <2>5. pc' \in {"select", "learn"} => line'.login \in Logins BY <1>15 DEF PageImportRow, LoginInv, local
  <2>6. ASSUME NEW m \in Logins, Waits(m)', m \notin raced', NEW u \in Ids PROVE login'[u] # m
    <3>1. m # l /\ m \notin raced BY <2>2, <2>6
    <3>2. login[u] # m BY <2>4, <2>6, <3>1 DEF LoginInv
    <3> QED BY <2>1, <3>1, <3>2 DEF TypeOK
  <2>7. ASSUME NEW u \in Ids, NEW v \in Ids, login'[u] # None, login'[u] = login'[v], u # v
        PROVE  login'[u] \in raced'
    <3>1. CASE u = nextId \/ v = nextId BY <2>1, <2>2, <2>3, <2>7, <3>1 DEF LoginInv, TypeOK
    <3>2. CASE u # nextId /\ v # nextId BY <2>1, <2>2, <2>7, <3>2 DEF LoginInv, LoginOnce, Exists, TypeOK
    <3> QED BY <3>1, <3>2
  <2> QED BY <2>5, <2>6, <2>7 DEF LoginInv, LoginOnce, Exists
<1>16. ASSUME NEW u \in Ids, PageOpen(u) PROVE LoginInv'
  BY <1>16 DEF PageOpen, table, local, past, LoginInv, LoginOnce, Waits, Exists, TypeOK
<1>17. ASSUME NEW u \in Ids, PageKill(u) PROVE LoginInv'
  BY <1>17 DEF PageKill, local, pages, LoginInv, LoginOnce, Waits, Exists, TypeOK
<1>18. CASE PageCreate
  <2>0. PICK l \in Logins, n \in Typed : l = creating /\ Insert("page", l, n) BY <1>18 DEF PageCreate, TypeOK
  <2>1. login' = [login EXCEPT ![nextId] = l] /\ nextId \in Ids /\ l \in Logins
    BY <1>18, <2>0 DEF Insert, PageCreate, LoginInv, TypeOK
  <2>8. raced' = IF Inserters(l) \ {"page"} # {} THEN raced \cup {l} ELSE raced BY <2>0 DEF Insert
  <2>9. Inserters(l) \ {"page"} = {} => ~Waits(l)'
    BY <1>18, <2>0, Others DEF Waits, PageCreate, local, TypeOK
  <2>2. raced \subseteq raced' /\ (Waits(l)' => l \in raced') BY <2>8, <2>9
  <2>3. Waits(l) BY <1>18, <2>0 DEF PageCreate, Waits
  <2>4. \A m \in Logins : m # l /\ Waits(m)' => Waits(m) BY <1>18, <2>0 DEF PageCreate, Waits, local
  <2>5. pc' \in {"select", "learn"} => line'.login \in Logins BY <1>18 DEF PageCreate, LoginInv, local
  <2>6. ASSUME NEW m \in Logins, Waits(m)', m \notin raced', NEW u \in Ids PROVE login'[u] # m
    <3>1. m # l /\ m \notin raced BY <2>2, <2>6
    <3>2. login[u] # m BY <2>4, <2>6, <3>1 DEF LoginInv
    <3> QED BY <2>1, <3>1, <3>2 DEF TypeOK
  <2>7. ASSUME NEW u \in Ids, NEW v \in Ids, login'[u] # None, login'[u] = login'[v], u # v
        PROVE  login'[u] \in raced'
    <3>1. CASE u = nextId \/ v = nextId BY <2>1, <2>2, <2>3, <2>7, <3>1 DEF LoginInv, TypeOK
    <3>2. CASE u # nextId /\ v # nextId BY <2>1, <2>2, <2>7, <3>2 DEF LoginInv, LoginOnce, Exists, TypeOK
    <3> QED BY <3>1, <3>2
  <2> QED BY <2>5, <2>6, <2>7 DEF LoginInv, LoginOnce, Exists
<1>19. CASE PageSaveNobody
  BY <1>19 DEF PageSaveNobody, table, local, past, LoginInv, LoginOnce, Waits, Exists, TypeOK
<1>20. ASSUME NEW s \in SUBSET Logins, PageImport(s) PROVE LoginInv'
  BY <1>20 DEF PageImport, local, Named, LoginInv, LoginOnce, Waits, Exists, TypeOK
<1>21. CASE Restart
  BY <1>21 DEF Restart, table, pages, Return, Goto, LoginInv, LoginOnce, Waits, Exists, TypeOK
<1>22. ASSUME NEW dead \in SUBSET Ids, Job(dead) PROVE LoginInv'
  BY <1>22 DEF Job, local, Overtake, LoginInv, LoginOnce, Waits, Exists, TypeOK
<1>23. CASE UNCHANGED vars
  BY <1>23 DEF vars, table, local, pages, past, LoginInv, LoginOnce, Waits, Exists, TypeOK
<1> QED BY <1>1, <1>2, <1>3, <1>4, <1>5, <1>6, <1>7, <1>8, <1>9, <1>10, <1>11, <1>12, <1>13, <1>14, <1>15, <1>16, <1>17, <1>18, <1>19, <1>20, <1>21, <1>22, <1>23
  DEF Next, ParseString, Page

(* No login gets a second row, unless two who had found none insert one     *)
(* each, or a form takes a login that is taken (main.cpp:1516-1539;         *)
(* admin/index.php:94-104 and 333).                                         *)
THEOREM LoginAlwaysOnce == Spec => []LoginOnce
<1>1. LoginInv => LoginOnce BY DEF LoginInv
<1> QED BY <1>1, LoginInit, LoginStep, AccountsTypeCorrect, PTL DEF Spec
=============================================================================

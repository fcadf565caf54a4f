------------------------- MODULE Enforcement_proofs -------------------------
(****************************************************************************)
(* Proofs about Enforcement, for all sets of users and access lists.        *)
(****************************************************************************)
EXTENDS Enforcement, FiniteSetTheorems, TLAPS

USE EnforcementAssumption

(* Each page has one statement to execute at most, each event caused one. *)
TypeInv == TypeOK /\ asked + (IF due = "none" THEN 0 ELSE 1) <= events
------------------------------------------------------------------------------
(* A count of users is one. *)
LEMMA CountIn == \A S \in SUBSET Users : Cardinality(S) \in 0..Cardinality(Users)
<1> SUFFICES ASSUME NEW S \in SUBSET Users PROVE Cardinality(S) \in 0..Cardinality(Users) OBVIOUS
<1>1. IsFiniteSet(S) /\ Cardinality(S) <= Cardinality(Users) BY FS_Subset
<1> QED BY <1>1, FS_CardinalityType

LEMMA CountNone == 0 \in 0..Cardinality(Users)
BY FS_CardinalityType

(* The history has its types. *)
LEMMA WatchTypes == TypeInv /\ Watch => since' \subseteq Users /\ recent' \in 0..2 /\ lost' \in BOOLEAN
<1> SUFFICES ASSUME TypeInv, Watch
             PROVE since' \subseteq Users /\ recent' \in 0..2 /\ lost' \in BOOLEAN
  OBVIOUS
<1>1. since' \subseteq Users BY DEF Watch, EntitledBy, TypeInv, TypeOK
<1>2. recent' \in 0..2 BY DEF Watch, TypeInv, TypeOK
<1>3. lost' \in BOOLEAN BY DEF Watch
<1> QED BY <1>1, <1>2, <1>3

(* The rows that the month job and the recount leave are rows. *)
LEMMA JobRows ==
  ASSUME TypeInv
  PROVE  MonthRows(users) \subseteq [Users -> Row] /\ RecountRows(users) \in [Users -> Row]
<1>1. ASSUME NEW r \in Row, NEW q \in 0..MaxQuota PROVE MonthRow(r, q) \in Row
  <2>1. CASE ~r.in \/ r.status = 3 BY <2>1 DEF MonthRow, Absent, Row
  <2>2. CASE ~(~r.in \/ r.status = 3)
    <3>1. (IF r.status = 2 THEN 0 ELSE r.status) \in 0..3 /\ r.aid \in Acls BY DEF Row
    <3> QED BY <2>2, <3>1 DEF MonthRow, Row
  <2> QED BY <2>1, <2>2
<1>2. MonthRows(users) \subseteq [Users -> Row]
  <2> SUFFICES ASSUME NEW rows \in MonthRows(users) PROVE rows \in [Users -> Row] OBVIOUS
  <2>1. PICK q \in [Users -> 0..MaxQuota] : rows = [u \in Users |-> MonthRow(users[u], q[u])]
    BY DEF MonthRows
  <2>2. \A u \in Users : users[u] \in Row /\ q[u] \in 0..MaxQuota BY DEF TypeInv, TypeOK
  <2> QED BY <1>1, <2>1, <2>2
<1>3. RecountRows(users) \in [Users -> Row] BY DEF RecountRows, Row, TypeInv, TypeOK
<1> QED BY <1>2, <1>3

(* squid.conf grows by a rule, or is begun again. *)
LEMMA ConfTypes ==
  ASSUME conf \in Confs
  PROVE  /\ \A b \in BOOLEAN : [whole |-> b, rules |-> << >>] \in Confs
         /\ \A x \in Acls \cup {NoInet} : [conf EXCEPT !.rules = Append(@, x)] \in Confs
         /\ [whole |-> TRUE, rules |-> Append(conf.rules, NoInet)] \in Confs
         /\ conf.whole \in BOOLEAN /\ DOMAIN conf.rules = 1..Len(conf.rules)
BY DEF Confs

LEMMA TypeStep == TypeInv /\ [Next]_vars => TypeInv'
<1> SUFFICES ASSUME TypeInv, [Next]_vars PROVE TypeInv' OBVIOUS
<1>1. CASE UNCHANGED vars
  BY <1>1 DEF vars, table, files, locals, TypeInv, TypeOK, Row
<1>2. CASE Next
  <2>w. since' \subseteq Users /\ recent' \in 0..2 /\ lost' \in BOOLEAN
    BY <1>2, WatchTypes DEF Next
  <2>1. CASE CountTotal
    <3>1. Present \subseteq Users BY DEF Present
    <3>2. Cardinality(Present) \in 0..Cardinality(Users) BY <3>1, CountIn
    <3>3. PICK n \in 0..Cardinality(Users) : seen' = [seen EXCEPT !.total = n]
      BY <2>1, <3>2 DEF CountTotal, Compare
    <3>4. need' \in BOOLEAN BY <2>1 DEF CountTotal, Compare, TypeInv, TypeOK
    <3>5. seen' \in [total : 0..Cardinality(Users), positive : 0..Cardinality(Users),
                    negative : 0..Cardinality(Users)]
      BY <3>3 DEF TypeInv, TypeOK
    <3> QED BY <2>1, <2>w, <3>4, <3>5 DEF CountTotal, Goto, table, files, TypeInv, TypeOK
  <2>2. CASE CountPositive
    <3>1. {u \in Present : Positive(users[u])} \subseteq Users BY DEF Present
    <3>2. Cardinality({u \in Present : Positive(users[u])}) \in 0..Cardinality(Users) BY <3>1, CountIn
    <3>3. PICK n \in 0..Cardinality(Users) : seen' = [seen EXCEPT !.positive = n]
      BY <2>2, <3>2 DEF CountPositive, Compare
    <3>4. need' \in BOOLEAN BY <2>2 DEF CountPositive, Compare, TypeInv, TypeOK
    <3>5. seen' \in [total : 0..Cardinality(Users), positive : 0..Cardinality(Users),
                    negative : 0..Cardinality(Users)]
      BY <3>3 DEF TypeInv, TypeOK
    <3> QED BY <2>2, <2>w, <3>4, <3>5 DEF CountPositive, Goto, table, files, TypeInv, TypeOK
  <2>3. CASE CountNegative
    <3>1. {u \in Present : Negative(users[u])} \subseteq Users BY DEF Present
    <3>2. Cardinality({u \in Present : Negative(users[u])}) \in 0..Cardinality(Users) BY <3>1, CountIn
    <3>3. PICK n \in 0..Cardinality(Users) : seen' = [seen EXCEPT !.negative = n]
      BY <2>3, <3>2 DEF CountNegative, Compare
    <3>4. need' \in BOOLEAN BY <2>3 DEF CountNegative, Compare, TypeInv, TypeOK
    <3>5. seen' \in [total : 0..Cardinality(Users), positive : 0..Cardinality(Users),
                    negative : 0..Cardinality(Users)]
      BY <3>3 DEF TypeInv, TypeOK
    <3> QED BY <2>3, <2>w, <3>4, <3>5 DEF CountNegative, Goto, table, files, TypeInv, TypeOK
  <2>4. CASE Command
    BY <2>4, <2>w, CountNone
    DEF Command, Goto, files, TypeInv, TypeOK, Row
  <2>5. CASE CommandMonth
    <3>1. users' \in [Users -> Row] BY <2>5, JobRows DEF CommandMonth, TypeInv
    <3>2. (asked + (IF due = "none" THEN 0 ELSE 1) <= events)' /\ asked' \in 0..MaxEvents
      BY <2>5 DEF CommandMonth, Event, TypeInv, TypeOK
    <3>3. events' \in 0..MaxEvents BY <2>5 DEF CommandMonth, Event, TypeInv, TypeOK
    <3>4. pc' \in {"loop", "open"} /\ need' \in BOOLEAN /\ ret' = "loop" BY <2>5
        DEF CommandMonth, Goto, Decide
    <3>5. TypeOK' BY <2>5, <2>w, <3>1, <3>2, <3>3, <3>4 DEF CommandMonth, files, TypeInv, TypeOK
    <3> QED BY <3>2, <3>5 DEF TypeInv
  <2>6. CASE CommandRecount
    <3>1. users' \in [Users -> Row] BY <2>6, JobRows DEF CommandRecount, TypeInv
    <3>2. (asked + (IF due = "none" THEN 0 ELSE 1) <= events)' /\ asked' \in 0..MaxEvents
      BY <2>6 DEF CommandRecount, Event, TypeInv, TypeOK
    <3>3. events' \in 0..MaxEvents BY <2>6 DEF CommandRecount, Event, TypeInv, TypeOK
    <3>4. pc' \in {"loop", "open"} /\ need' \in BOOLEAN /\ ret' = "loop" BY <2>6
        DEF CommandRecount, Goto, Decide
    <3>5. TypeOK' BY <2>6, <2>w, <3>1, <3>2, <3>3, <3>4 DEF CommandRecount, files, TypeInv, TypeOK
    <3> QED BY <3>2, <3>5 DEF TypeInv
  <2>7. CASE NoCommand
    BY <2>7, <2>w, CountNone
    DEF NoCommand, Goto, Decide, table, files, TypeInv, TypeOK, Row
  <2>8. CASE Final
    BY <2>8, <2>w, CountNone
    DEF Final, Goto, Decide, table, files, TypeInv, TypeOK, Row
  <2>9. CASE NoOrig
    BY <2>9, <2>w, CountNone
    DEF NoOrig, Event, Goto, Back, table, files, TypeInv, TypeOK, Row
  <2>10. CASE NoConf
    BY <2>10, <2>w, CountNone
    DEF NoConf, Event, Goto, Back, table, files, locals, TypeInv, TypeOK, Row
  <2>11. CASE Truncate
    BY <2>11, <2>w, CountNone, ConfTypes
    DEF Truncate, Goto, Settled, table, TypeInv, TypeOK, Row
  <2>12. CASE NoAcls
    BY <2>12, <2>w, CountNone, ConfTypes
    DEF NoAcls, Goto, Ends, Settled, table, TypeInv, TypeOK, Row
  <2>13. CASE Spin
    BY <2>13, <2>w, CountNone, ConfTypes
    DEF Spin, Goto, table, locals, TypeInv, TypeOK, Row
  <2>14. CASE NoList
    BY <2>14, <2>w, CountNone
    DEF NoList, Event, Goto, Back, table, files, TypeInv, TypeOK, Row
  <2>15. CASE Complete
    <3>1. off' \subseteq Users BY <2>15 DEF Complete, Disabled, Present
    <3>2. conf' \in Confs BY <2>15, ConfTypes DEF Complete, TypeInv, TypeOK
    <3>3. squid' \in [up : BOOLEAN, hup : BOOLEAN, whole : BOOLEAN, pass : SUBSET Users]
      BY <2>15 DEF Complete, TypeInv, TypeOK
    <3>4. pc' \in {"final", "loop"} BY <2>15 DEF Complete, Goto, Back
    <3> QED BY <2>15, <2>w, <3>1, <3>2, <3>3, <3>4 DEF Complete, table, locals, TypeInv, TypeOK
  <2>16. CASE BadLine
    BY <2>16, <2>w, CountNone
    DEF BadLine, Event, table, files, TypeInv, TypeOK, Row
  <2>17. CASE Hup
    <3>1. intr' \in BOOLEAN BY <2>17 DEF Hup, Interrupts, TypeInv, TypeOK
    <3>2. events' \in 0..MaxEvents /\ events' = events + 1 BY <2>17 DEF Hup, Event, TypeInv, TypeOK
    <3> QED BY <2>17, <2>w, <3>1, <3>2 DEF Hup, Goto, table, files, TypeInv, TypeOK
  <2>18. CASE Usr
    <3>1. intr' \in BOOLEAN BY <2>18 DEF Usr, Interrupts, TypeInv, TypeOK
    <3>2. events' \in 0..MaxEvents /\ events' = events + 1 BY <2>18 DEF Usr, Event, TypeInv, TypeOK
    <3>3. users' \in [Users -> Row] BY <2>18, JobRows DEF Usr
    <3> QED BY <2>18, <2>w, <3>1, <3>2, <3>3 DEF Usr, Goto, files, TypeInv, TypeOK
  <2>19. CASE Term
    BY <2>19, <2>w, CountNone
    DEF Term, Goto, Ends, table, files, TypeInv, TypeOK, Row
  <2>20. CASE Crash
    <3>1. seen' \in [total : 0..Cardinality(Users), positive : 0..Cardinality(Users),
                    negative : 0..Cardinality(Users)]
      BY <2>20, CountNone DEF Crash, Ends
    <3>2. events' \in 0..MaxEvents /\ events' = events + 1 BY <2>20 DEF Crash, Event, TypeInv, TypeOK
    <3>3. (asked + (IF due = "none" THEN 0 ELSE 1) <= events)'
      BY <2>20, <3>2 DEF Crash, table, TypeInv, TypeOK
    <3>4. TypeOK' BY <2>20, <2>w, <3>1, <3>2 DEF Crash, Goto, Ends, table, files, TypeInv, TypeOK
    <3> QED BY <3>3, <3>4 DEF TypeInv
  <2>21. CASE Start
    BY <2>21, <2>w, CountNone
    DEF Start, Goto, table, files, locals, TypeInv, TypeOK, Row
  <2>22. CASE PageAcl
    BY <2>22, <2>w, CountNone
    DEF PageAcl, Event, PageIdle, files, locals, TypeInv, TypeOK, Row
  <2>23. CASE PageMoveUsers
    <3>1. users' \in [Users -> Row] BY <2>23 DEF PageMoveUsers, TypeInv, TypeOK, Row
    <3>2. asked' + 1 <= events' BY <2>23 DEF PageMoveUsers, TypeInv, TypeOK
    <3> QED BY <2>23, <2>w, <3>1, <3>2 DEF PageMoveUsers, locals, files, TypeInv, TypeOK
  <2>24. CASE PageQueue
    BY <2>24, <2>w, CountNone
    DEF PageQueue, files, locals, TypeInv, TypeOK, Row
  <2>25. CASE SquidReload
    BY <2>25, <2>w, CountNone, ConfTypes
    DEF SquidReload, Reads, Passing, table, files, locals, TypeInv, TypeOK, Row
  <2>26. CASE SquidStops
    <3>1. squid' \in [up : BOOLEAN, hup : BOOLEAN, whole : BOOLEAN, pass : SUBSET Users]
      BY <2>26 DEF SquidStops, TypeInv, TypeOK
    <3>2. events' \in 0..MaxEvents /\ events' = events + 1 BY <2>26 DEF SquidStops, Event, TypeInv, TypeOK
    <3> QED BY <2>26, <2>w, <3>1, <3>2 DEF SquidStops, table, files, locals, TypeInv, TypeOK
  <2>27. CASE SquidStarts
    BY <2>27, <2>w, CountNone, ConfTypes
    DEF SquidStarts, Reads, Passing, table, files, locals, TypeInv, TypeOK, Row
  <2>28. ASSUME NEW a \in Acls, GroupEmpty(a) PROVE TypeInv'
    BY <2>28, <2>w, CountNone
    DEF GroupEmpty, table, files, TypeInv, TypeOK, Row
  <2>29. ASSUME NEW a \in Acls, Group(a) PROVE TypeInv'
    <3>1. conf' \in Confs BY <2>29, ConfTypes DEF Group, TypeInv, TypeOK
    <3>2. list' \in [Acls -> SUBSET Users] BY <2>29 DEF Group, TypeInv, TypeOK
    <3> QED BY <2>29, <2>w, <3>1, <3>2 DEF Group, table, TypeInv, TypeOK
  <2>30. ASSUME NEW a \in Acls, PageAclRemove(a) PROVE TypeInv'
    BY <2>30, <2>w, CountNone
    DEF PageAclRemove, Event, PageIdle, files, locals, TypeInv, TypeOK, Row
  <2>31. ASSUME NEW u \in Active, Charge(u) PROVE TypeInv'
    <3>1. users' \in [Users -> Row]
      <4>1. users[u] \in Row /\ users[u].used + 1 \in 0..MaxUsed BY <2>31 DEF Charge, TypeInv, TypeOK, Row
      <4>2. [users[u] EXCEPT !.used = users[u].used + 1] \in Row BY <4>1 DEF Row
      <4> QED BY <2>31, <4>2 DEF Charge, TypeInv, TypeOK
    <3>2. intr' \in BOOLEAN BY <2>31 DEF Charge, TypeInv, TypeOK
    <3> QED BY <2>31, <2>w, <3>1, <3>2 DEF Charge, files, TypeInv, TypeOK
  <2>32. ASSUME NEW u \in Users, PageCreate(u) PROVE TypeInv'
    BY <2>32, <2>w, CountNone
    DEF PageCreate, Event, PageIdle, files, locals, TypeInv, TypeOK, Row
  <2>33. ASSUME NEW u \in Active, PageSave(u) PROVE TypeInv'
    BY <2>33, <2>w, CountNone
    DEF PageSave, Event, PageIdle, files, locals, TypeInv, TypeOK, Row
  <2>34. ASSUME NEW u \in Users, PageDelete(u) PROVE TypeInv'
    BY <2>34, <2>w, CountNone
    DEF PageDelete, Event, PageIdle, files, locals, TypeInv, TypeOK, Row
  <2>35. ASSUME NEW u \in Users, PageKill(u) PROVE TypeInv'
    BY <2>35, <2>w, CountNone
    DEF PageKill, Event, PageIdle, files, locals, TypeInv, TypeOK, Row, Absent
  <2> QED
    BY <1>2, <2>1, <2>2, <2>3, <2>4, <2>5, <2>6, <2>7, <2>8, <2>9, <2>10, <2>11, <2>12, <2>13, <2>14, <2>15, <2>16, <2>17, <2>18, <2>19, <2>20, <2>21, <2>22, <2>23, <2>24, <2>25, <2>26, <2>27, <2>28, <2>29, <2>30, <2>31, <2>32, <2>33, <2>34, <2>35
    DEF Next, Daemon, Reconfigure, Page, PageGoesOn
<1> QED BY <1>1, <1>2

LEMMA TypeAlways == Spec => []TypeInv
<1>1. Init => TypeInv
  <2> SUFFICES ASSUME Init PROVE TypeInv OBVIOUS
  <2>1. users \in [Users -> Row]
    <3>1. [in |-> TRUE, used |-> 0, quota |-> MaxQuota, status |-> 0, aid |-> DefAcl] \in Row
      BY DEF Row
    <3> QED BY <3>1 DEF Init
  <2>2. seen \in [total : 0..Cardinality(Users), positive : 0..Cardinality(Users),
                  negative : 0..Cardinality(Users)]
    BY CountNone DEF Init
  <2>3. list \in [Acls -> SUBSET Users] /\ squid \in [up : BOOLEAN, hup : BOOLEAN, whole : BOOLEAN,
                                                    pass : SUBSET Users]
    BY DEF Init
  <2>4. conf \in Confs /\ events \in 0..MaxEvents /\ recent \in 0..2
    BY DEF Init, Confs
  <2>5. asked = 0 /\ due = "none" /\ events = 0 /\ acls = Acls /\ pc = "loop" /\ need = FALSE
        /\ ret = "loop" /\ todo = {} /\ intr = FALSE /\ term = FALSE /\ off = {} /\ since = Users
        /\ lost = FALSE
    BY DEF Init
  <2>6. asked + (IF due = "none" THEN 0 ELSE 1) <= events BY <2>5
  <2>7. asked \in 0..MaxEvents /\ acls \subseteq Acls /\ due \in {"none", "queue"} \cup Acls BY <2>5
  <2>8. pc \in {"loop", "positive", "negative", "queue", "final", "open", "group", "spin", "down"}
        /\ ret \in {"loop", "final", "signal"} /\ todo \subseteq Acls /\ off \subseteq Users
        /\ since \subseteq Users
    BY <2>5
  <2>9. need \in BOOLEAN /\ intr \in BOOLEAN /\ term \in BOOLEAN /\ lost \in BOOLEAN BY <2>5
  <2> QED BY <2>1, <2>2, <2>3, <2>4, <2>6, <2>7, <2>8, <2>9 DEF TypeInv, TypeOK
<1> QED BY <1>1, TypeStep, PTL DEF Spec

(* The type invariant holds of every behaviour. *)
THEOREM EnforcementTypeCorrect == Spec => []TypeOK
<1>1. TypeInv => TypeOK BY DEF TypeInv
<1> QED BY <1>1, TypeAlways, PTL
------------------------------------------------------------------------------
(* Whoever is in a list that squid.conf refers to was entitled since it was *)
(* begun: a group that got no list this time is not referred to.            *)
ListsInv == \A i \in DOMAIN conf.rules :
              conf.rules[i] # NoInet => list[conf.rules[i]] \subseteq since

LEMMA ListsStep == TypeInv /\ ListsInv /\ [Next]_vars => ListsInv'
<1> SUFFICES ASSUME TypeInv, ListsInv, [Next]_vars PROVE ListsInv' OBVIOUS
<1>1. CASE UNCHANGED vars
  BY <1>1 DEF vars, table, files, locals, ListsInv, TypeInv, TypeOK
<1>2. CASE Next
  <2>w. Watch BY <1>2 DEF Next
  <2>grows. ~(pc = "open" /\ pc' = "group") => since \subseteq since' BY <2>w DEF Watch, TypeInv, TypeOK
  <2>1. CASE CountTotal
    BY <2>1, <2>w, <2>grows
    DEF CountTotal, Goto, Compare, table, files, ListsInv, TypeInv, TypeOK
  <2>2. CASE CountPositive
    BY <2>2, <2>w, <2>grows
    DEF CountPositive, Goto, Compare, table, files, ListsInv, TypeInv, TypeOK
  <2>3. CASE CountNegative
    BY <2>3, <2>w, <2>grows
    DEF CountNegative, Goto, Compare, table, files, ListsInv, TypeInv, TypeOK
  <2>4. CASE Command
    BY <2>4, <2>w, <2>grows
    DEF Command, Goto, files, ListsInv, TypeInv, TypeOK
  <2>5. CASE CommandMonth
    BY <2>5, <2>w, <2>grows
    DEF CommandMonth, Event, Goto, Decide, files, ListsInv, TypeInv, TypeOK
  <2>6. CASE CommandRecount
    BY <2>6, <2>w, <2>grows
    DEF CommandRecount, Event, Goto, Decide, files, ListsInv, TypeInv, TypeOK
  <2>7. CASE NoCommand
    BY <2>7, <2>w, <2>grows
    DEF NoCommand, Goto, Decide, table, files, ListsInv, TypeInv, TypeOK
  <2>8. CASE Final
    BY <2>8, <2>w, <2>grows
    DEF Final, Goto, Decide, table, files, ListsInv, TypeInv, TypeOK
  <2>9. CASE NoOrig
    BY <2>9, <2>w, <2>grows
    DEF NoOrig, Event, Goto, Back, table, files, ListsInv, TypeInv, TypeOK
  <2>10. CASE NoConf
    BY <2>10, <2>w, <2>grows
    DEF NoConf, Event, Goto, Back, table, files, locals, ListsInv, TypeInv, TypeOK
  <2>11. CASE Truncate
    BY <2>11, <2>w, <2>grows
    DEF Truncate, Goto, Settled, table, ListsInv, TypeInv, TypeOK
  <2>12. CASE NoAcls
    BY <2>12, <2>w, <2>grows
    DEF NoAcls, Goto, Ends, Settled, table, ListsInv, TypeInv, TypeOK
  <2>13. CASE Spin
    BY <2>13, <2>w, <2>grows
    DEF Spin, Goto, table, locals, ListsInv, TypeInv, TypeOK
  <2>14. CASE NoList
    BY <2>14, <2>w, <2>grows
    DEF NoList, Event, Goto, Back, table, files, ListsInv, TypeInv, TypeOK
  <2>15. CASE Complete
    BY <2>15, <2>w, <2>grows
    DEF Complete, Goto, Back, table, locals, ListsInv, TypeInv, TypeOK
  <2>16. CASE BadLine
    BY <2>16, <2>w, <2>grows
    DEF BadLine, Event, table, files, ListsInv, TypeInv, TypeOK
  <2>17. CASE Hup
    BY <2>17, <2>w, <2>grows
    DEF Hup, Event, Goto, table, files, ListsInv, TypeInv, TypeOK
  <2>18. CASE Usr
    BY <2>18, <2>w, <2>grows
    DEF Usr, Event, Goto, files, ListsInv, TypeInv, TypeOK
  <2>19. CASE Term
    BY <2>19, <2>w, <2>grows
    DEF Term, Goto, Ends, table, files, ListsInv, TypeInv, TypeOK
  <2>20. CASE Crash
    BY <2>20, <2>w, <2>grows
    DEF Crash, Event, Goto, Ends, table, files, ListsInv, TypeInv, TypeOK
  <2>21. CASE Start
    BY <2>21, <2>w, <2>grows
    DEF Start, Goto, table, files, locals, ListsInv, TypeInv, TypeOK
  <2>22. CASE PageAcl
    BY <2>22, <2>w, <2>grows
    DEF PageAcl, Event, PageIdle, files, locals, ListsInv, TypeInv, TypeOK
  <2>23. CASE PageMoveUsers
    BY <2>23, <2>w, <2>grows
    DEF PageMoveUsers, files, locals, ListsInv, TypeInv, TypeOK
  <2>24. CASE PageQueue
    BY <2>24, <2>w, <2>grows
    DEF PageQueue, files, locals, ListsInv, TypeInv, TypeOK
  <2>25. CASE SquidReload
    BY <2>25, <2>w, <2>grows
    DEF SquidReload, Reads, Passing, table, files, locals, ListsInv, TypeInv, TypeOK
  <2>26. CASE SquidStops
    BY <2>26, <2>w, <2>grows
    DEF SquidStops, Event, table, files, locals, ListsInv, TypeInv, TypeOK
  <2>27. CASE SquidStarts
    BY <2>27, <2>w, <2>grows
    DEF SquidStarts, Reads, Passing, table, files, locals, ListsInv, TypeInv, TypeOK
  <2>28. ASSUME NEW a \in Acls, GroupEmpty(a) PROVE ListsInv'
    BY <2>28, <2>w, <2>grows
    DEF GroupEmpty, table, files, ListsInv, TypeInv, TypeOK
  <2>29. ASSUME NEW a \in Acls, Group(a) PROVE ListsInv'
    <3>1. since \subseteq since' BY <2>29, <2>grows DEF Group
    <3>2. {u \in Users : Allowed(users[u], a)} \subseteq since'
      BY <2>29, <2>w DEF Group, Watch, EntitledBy, table, TypeInv, TypeOK
    <3>3. conf'.rules = Append(conf.rules, a) /\ conf.rules \in Seq(Acls \cup {NoInet})
      BY <2>29 DEF Group, Confs, TypeInv, TypeOK
    <3>4. \A b \in Acls : list'[b] = IF b = a THEN {u \in Users : Allowed(users[u], a)} ELSE list[b]
      BY <2>29 DEF Group, TypeInv, TypeOK
    <3>5. ASSUME NEW i \in DOMAIN conf'.rules, conf'.rules[i] # NoInet
          PROVE  list'[conf'.rules[i]] \subseteq since'
      <4>1. CASE i \in DOMAIN conf.rules
        <5>1. conf'.rules[i] = conf.rules[i] /\ conf.rules[i] \in Acls
          BY <3>3, <3>5, <4>1
        <5> QED BY <3>1, <3>2, <3>4, <3>5, <4>1, <5>1 DEF ListsInv
      <4>2. CASE i \notin DOMAIN conf.rules
        <5>1. conf'.rules[i] = a BY <3>3, <3>5, <4>2
        <5> QED BY <3>2, <3>4, <5>1
      <4> QED BY <4>1, <4>2
    <3> QED BY <3>5 DEF ListsInv
  <2>30. ASSUME NEW a \in Acls, PageAclRemove(a) PROVE ListsInv'
    BY <2>30, <2>w, <2>grows
    DEF PageAclRemove, Event, PageIdle, files, locals, ListsInv, TypeInv, TypeOK
  <2>31. ASSUME NEW u \in Active, Charge(u) PROVE ListsInv'
    BY <2>31, <2>w, <2>grows
    DEF Charge, files, ListsInv, TypeInv, TypeOK
  <2>32. ASSUME NEW u \in Users, PageCreate(u) PROVE ListsInv'
    BY <2>32, <2>w, <2>grows
    DEF PageCreate, Event, PageIdle, files, locals, ListsInv, TypeInv, TypeOK
  <2>33. ASSUME NEW u \in Active, PageSave(u) PROVE ListsInv'
    BY <2>33, <2>w, <2>grows
    DEF PageSave, Event, PageIdle, files, locals, ListsInv, TypeInv, TypeOK
  <2>34. ASSUME NEW u \in Users, PageDelete(u) PROVE ListsInv'
    BY <2>34, <2>w, <2>grows
    DEF PageDelete, Event, PageIdle, files, locals, ListsInv, TypeInv, TypeOK
  <2>35. ASSUME NEW u \in Users, PageKill(u) PROVE ListsInv'
    BY <2>35, <2>w, <2>grows
    DEF PageKill, Event, PageIdle, files, locals, ListsInv, TypeInv, TypeOK
  <2> QED
    BY <1>2, <2>1, <2>2, <2>3, <2>4, <2>5, <2>6, <2>7, <2>8, <2>9, <2>10, <2>11, <2>12, <2>13, <2>14, <2>15, <2>16, <2>17, <2>18, <2>19, <2>20, <2>21, <2>22, <2>23, <2>24, <2>25, <2>26, <2>27, <2>28, <2>29, <2>30, <2>31, <2>32, <2>33, <2>34, <2>35
    DEF Next, Daemon, Reconfigure, Page, PageGoesOn
<1> QED BY <1>1, <1>2

(* squid reads the files as they are. *)
LEMMA OnlyReads == TypeInv /\ [Next]_vars /\ SquidRead => squid' = Reads
<1> SUFFICES ASSUME TypeInv, [Next]_vars, SquidRead PROVE squid' = Reads OBVIOUS
<1>1. CASE UNCHANGED vars
  BY <1>1 DEF vars, table, files, locals, SquidRead, TypeInv, TypeOK
<1>2. CASE Next
  <2>w. TRUE OBVIOUS
  <2>1. CASE CountTotal
    BY <2>1, <2>w
    DEF CountTotal, Goto, Compare, Reads, table, files, SquidRead, TypeInv, TypeOK
  <2>2. CASE CountPositive
    BY <2>2, <2>w
    DEF CountPositive, Goto, Compare, Reads, table, files, SquidRead, TypeInv, TypeOK
  <2>3. CASE CountNegative
    BY <2>3, <2>w
    DEF CountNegative, Goto, Compare, Reads, table, files, SquidRead, TypeInv, TypeOK
  <2>4. CASE Command
    BY <2>4, <2>w
    DEF Command, Goto, Reads, files, SquidRead, TypeInv, TypeOK
  <2>5. CASE CommandMonth
    BY <2>5, <2>w
    DEF CommandMonth, Event, Goto, Decide, Reads, files, SquidRead, TypeInv, TypeOK
  <2>6. CASE CommandRecount
    BY <2>6, <2>w
    DEF CommandRecount, Event, Goto, Decide, Reads, files, SquidRead, TypeInv, TypeOK
  <2>7. CASE NoCommand
    BY <2>7, <2>w
    DEF NoCommand, Goto, Decide, Reads, table, files, SquidRead, TypeInv, TypeOK
  <2>8. CASE Final
    BY <2>8, <2>w
    DEF Final, Goto, Decide, Reads, table, files, SquidRead, TypeInv, TypeOK
  <2>9. CASE NoOrig
    BY <2>9, <2>w
    DEF NoOrig, Event, Goto, Back, Reads, table, files, SquidRead, TypeInv, TypeOK
  <2>10. CASE NoConf
    BY <2>10, <2>w
    DEF NoConf, Event, Goto, Back, Reads, table, files, locals, SquidRead, TypeInv, TypeOK
  <2>11. CASE Truncate
    BY <2>11, <2>w
    DEF Truncate, Goto, Settled, Reads, table, SquidRead, TypeInv, TypeOK
  <2>12. CASE NoAcls
    BY <2>12, <2>w
    DEF NoAcls, Goto, Ends, Settled, Reads, table, SquidRead, TypeInv, TypeOK
  <2>13. CASE Spin
    BY <2>13, <2>w
    DEF Spin, Goto, Reads, table, locals, SquidRead, TypeInv, TypeOK
  <2>14. CASE NoList
    BY <2>14, <2>w
    DEF NoList, Event, Goto, Back, Reads, table, files, SquidRead, TypeInv, TypeOK
  <2>15. CASE Complete
    BY <2>15, <2>w
    DEF Complete, Goto, Back, Reads, table, locals, SquidRead, TypeInv, TypeOK
  <2>16. CASE BadLine
    BY <2>16, <2>w
    DEF BadLine, Event, Reads, table, files, SquidRead, TypeInv, TypeOK
  <2>17. CASE Hup
    BY <2>17, <2>w
    DEF Hup, Event, Goto, Reads, table, files, SquidRead, TypeInv, TypeOK
  <2>18. CASE Usr
    BY <2>18, <2>w
    DEF Usr, Event, Goto, Reads, files, SquidRead, TypeInv, TypeOK
  <2>19. CASE Term
    BY <2>19, <2>w
    DEF Term, Goto, Ends, Reads, table, files, SquidRead, TypeInv, TypeOK
  <2>20. CASE Crash
    BY <2>20, <2>w
    DEF Crash, Event, Goto, Ends, Reads, table, files, SquidRead, TypeInv, TypeOK
  <2>21. CASE Start
    BY <2>21, <2>w
    DEF Start, Goto, Reads, table, files, locals, SquidRead, TypeInv, TypeOK
  <2>22. CASE PageAcl
    BY <2>22, <2>w
    DEF PageAcl, Event, PageIdle, Reads, files, locals, SquidRead, TypeInv, TypeOK
  <2>23. CASE PageMoveUsers
    BY <2>23, <2>w
    DEF PageMoveUsers, Reads, files, locals, SquidRead, TypeInv, TypeOK
  <2>24. CASE PageQueue
    BY <2>24, <2>w
    DEF PageQueue, Reads, files, locals, SquidRead, TypeInv, TypeOK
  <2>25. CASE SquidReload
    BY <2>25, <2>w
    DEF SquidReload, Reads, Passing, table, files, locals, SquidRead, TypeInv, TypeOK
  <2>26. CASE SquidStops
    BY <2>26, <2>w
    DEF SquidStops, Event, Reads, table, files, locals, SquidRead, TypeInv, TypeOK
  <2>27. CASE SquidStarts
    BY <2>27, <2>w
    DEF SquidStarts, Reads, Passing, table, files, locals, SquidRead, TypeInv, TypeOK
  <2>28. ASSUME NEW a \in Acls, GroupEmpty(a) PROVE squid' = Reads
    BY <2>28, <2>w
    DEF GroupEmpty, Reads, table, files, SquidRead, TypeInv, TypeOK
  <2>29. ASSUME NEW a \in Acls, Group(a) PROVE squid' = Reads
    BY <2>29, <2>w
    DEF Group, Reads, table, SquidRead, TypeInv, TypeOK
  <2>30. ASSUME NEW a \in Acls, PageAclRemove(a) PROVE squid' = Reads
    BY <2>30, <2>w
    DEF PageAclRemove, Event, PageIdle, Reads, files, locals, SquidRead, TypeInv, TypeOK
  <2>31. ASSUME NEW u \in Active, Charge(u) PROVE squid' = Reads
    BY <2>31, <2>w
    DEF Charge, Reads, files, SquidRead, TypeInv, TypeOK
  <2>32. ASSUME NEW u \in Users, PageCreate(u) PROVE squid' = Reads
    BY <2>32, <2>w
    DEF PageCreate, Event, PageIdle, Reads, files, locals, SquidRead, TypeInv, TypeOK
  <2>33. ASSUME NEW u \in Active, PageSave(u) PROVE squid' = Reads
    BY <2>33, <2>w
    DEF PageSave, Event, PageIdle, Reads, files, locals, SquidRead, TypeInv, TypeOK
  <2>34. ASSUME NEW u \in Users, PageDelete(u) PROVE squid' = Reads
    BY <2>34, <2>w
    DEF PageDelete, Event, PageIdle, Reads, files, locals, SquidRead, TypeInv, TypeOK
  <2>35. ASSUME NEW u \in Users, PageKill(u) PROVE squid' = Reads
    BY <2>35, <2>w
    DEF PageKill, Event, PageIdle, Reads, files, locals, SquidRead, TypeInv, TypeOK
  <2> QED
    BY <1>2, <2>1, <2>2, <2>3, <2>4, <2>5, <2>6, <2>7, <2>8, <2>9, <2>10, <2>11, <2>12, <2>13, <2>14, <2>15, <2>16, <2>17, <2>18, <2>19, <2>20, <2>21, <2>22, <2>23, <2>24, <2>25, <2>26, <2>27, <2>28, <2>29, <2>30, <2>31, <2>32, <2>33, <2>34, <2>35
    DEF Next, Daemon, Reconfigure, Page, PageGoesOn
<1> QED BY <1>1, <1>2

(* Whenever squid reads a complete squid.conf, whoever passes by it was     *)
(* entitled since squid_reconfig() began it.                                *)
THEOREM ListsAreFresh == Spec => ListsFresh
<1>1. Init => ListsInv BY DEF Init, ListsInv
<1>2. TypeInv /\ ListsInv /\ [Next]_vars => [SquidRead /\ squid'.whole => squid'.pass \subseteq since]_vars
  <2> SUFFICES ASSUME TypeInv, ListsInv, Next, SquidRead PROVE squid'.pass \subseteq since
    BY DEF vars
  <2>1. squid' = Reads BY OnlyReads
  <2> QED BY <2>1 DEF Reads, Passing, ListsInv
<1> QED BY <1>1, <1>2, TypeAlways, ListsStep, PTL DEF Spec, ListsFresh
=============================================================================

--------------------------- MODULE Tariff_proofs ---------------------------
(****************************************************************************)
(* Proofs about Tariff, for all tables, sizes, servers, paths and edits.    *)
(****************************************************************************)
EXTENDS Tariff, FiniteSetTheorems, SequenceTheorems, TLAPS

USE TariffAssumption DEF Slots

(* The shape of the state that the arguments need. *)
Shape ==
  /\ DOMAIN tsites \subseteq SiteIds /\ DOMAIN inForce \subseteq SiteIds
  /\ DOMAIN tcache = Slots
  /\ \A i \in Slots : tcache[i].live \in BOOLEAN /\ DOMAIN tcache[i] = {"url", "tid", "tval", "live"}
  /\ trfsize \in 0..TrfCacheSize

(* The entries are the rows that were in the table, each of them once. *)
ListIsTable ==
  running =>
    /\ \A i \in Slots : i < trfsize =>
         /\ tcache[i].tid \in DOMAIN inForce
         /\ tcache[i].url = inForce[tcache[i].tid].url /\ tcache[i].tval = inForce[tcache[i].tid].tarif
    /\ \A id \in DOMAIN inForce : \E i \in Slots : i < trfsize /\ tcache[i].tid = id

ListInv == Shape /\ ListIsTable /\ BlocksLive /\ TarifInForce
------------------------------------------------------------------------------
(* A listing of a table has its rows as entries, every one of them, and     *)
(* fits into the list.                                                      *)
LEMMA ListingRows ==
  ASSUME NEW t, DOMAIN t \subseteq SiteIds, NEW f \in Listings(t)
  PROVE  LET n == Cardinality(DOMAIN t) IN
         /\ n \in 0..TrfCacheSize /\ DOMAIN f = 0..(n - 1) /\ Cardinality(DOMAIN f) = n
         /\ \A i \in 0..(n - 1) : f[i] \in DOMAIN t
         /\ \A id \in DOMAIN t : \E i \in 0..(n - 1) : f[i] = id
<1> DEFINE n == Cardinality(DOMAIN t)
<1>1. IsFiniteSet(DOMAIN t) /\ n <= Cardinality(SiteIds)
  BY FS_Subset
<1>2. n \in Nat /\ Cardinality(SiteIds) \in Nat
  BY <1>1, FS_CardinalityType
<1>3. f \in Injection(0..(n - 1), DOMAIN t)
  BY DEF Listings
<1>4. IsFiniteSet(0..(n - 1)) /\ Cardinality(0..(n - 1)) = n
  <2>1. 0 \in Int /\ n - 1 \in Int BY <1>2
  <2>2. IsFiniteSet(0..(n - 1)) /\ Cardinality(0..(n - 1)) = IF 0 > n - 1 THEN 0 ELSE (n - 1) - 0 + 1
    BY ONLY <2>1, FS_Interval
  <2> QED BY <1>2, <2>2
<1>5. f \in Surjection(0..(n - 1), DOMAIN t)
  BY <1>1, <1>3, <1>4, FS_Injection
<1> QED BY <1>1, <1>2, <1>3, <1>4, <1>5 DEF Injection, Surjection

LEMMA EmptyShape == Empty.live \in BOOLEAN /\ DOMAIN Empty = {"url", "tid", "tval", "live"}
BY DEF Empty

LEMMA ListInit == TrfInit => ListInv
<1> SUFFICES ASSUME TrfInit PROVE ListInv OBVIOUS
<1>1. DOMAIN tsites \subseteq SiteIds BY DEF TrfInit
<1>2. Shape
  <2>1. \A i \in Slots : tcache[i] = Empty BY DEF TrfInit
  <2>2. \A i \in Slots : tcache[i].live \in BOOLEAN /\ DOMAIN tcache[i] = {"url", "tid", "tval", "live"}
    BY <2>1, EmptyShape
  <2> QED BY <1>1, <2>2 DEF TrfInit, Shape
<1>3. BlocksLive BY DEF TrfInit, BlocksLive, Empty
<1> QED BY <1>2, <1>3 DEF TrfInit, ListInv, ListIsTable, TarifInForce, NoCharge

LEMMA LoadList ==
  ASSUME ListInv, Load, running', tsites' = tsites
  PROVE  ListInv'
<1> DEFINE n == Cardinality(DOMAIN tsites)
<1>1. PICK f \in Listings(tsites) :
        /\ tcache' = [i \in Slots |->
             IF i \in DOMAIN f THEN [url |-> tsites[f[i]].url, tid |-> f[i], tval |-> tsites[f[i]].tarif, live |-> TRUE]
             ELSE [tcache[i] EXCEPT !.live = tcache[i].live /\ i >= trfsize]]
        /\ trfsize' = Cardinality(DOMAIN f) /\ inForce' = tsites /\ charge' = NoCharge
  BY DEF Load
<1>2. /\ n \in 0..TrfCacheSize /\ DOMAIN f = 0..(n - 1) /\ Cardinality(DOMAIN f) = n
      /\ \A i \in 0..(n - 1) : f[i] \in DOMAIN tsites
      /\ \A id \in DOMAIN tsites : \E i \in 0..(n - 1) : f[i] = id
  BY ListingRows DEF ListInv, Shape
<1>3. trfsize' = n
  BY <1>1, <1>2
<1>4. \A i \in 0..(n - 1) :
        /\ tcache'[i].tid = f[i] /\ tcache'[i].url = tsites[f[i]].url /\ tcache'[i].tval = tsites[f[i]].tarif
        /\ tcache'[i].live
  BY <1>1, <1>2
<1>5. \A i \in Slots : i >= n => tcache'[i].live = FALSE
  <2> SUFFICES ASSUME NEW i \in Slots, i >= n PROVE tcache'[i].live = FALSE OBVIOUS
  <2>1. tcache'[i] = [tcache[i] EXCEPT !.live = tcache[i].live /\ i >= trfsize]
    BY <1>1, <1>2
  <2>2. ~(tcache[i].live /\ i >= trfsize)
    BY DEF ListInv, BlocksLive, Shape
  <2>3. DOMAIN tcache[i] = {"url", "tid", "tval", "live"} /\ tcache[i].live \in BOOLEAN
    BY DEF ListInv, Shape
  <2>4. tcache'[i].live = (tcache[i].live /\ i >= trfsize)
    BY <2>1, <2>3
  <2> QED BY <2>2, <2>4
<1>6. Shape'
  <2>1. DOMAIN tsites' \subseteq SiteIds /\ DOMAIN inForce' \subseteq SiteIds /\ DOMAIN tcache' = Slots
    BY <1>1 DEF ListInv, Shape
  <2>2. ASSUME NEW i \in Slots
        PROVE  tcache'[i].live \in BOOLEAN /\ DOMAIN tcache'[i] = {"url", "tid", "tval", "live"}
    <3>1. CASE i \in DOMAIN f BY <1>1, <3>1
    <3>2. CASE i \notin DOMAIN f BY <1>1, <1>2, <1>5, <3>2 DEF ListInv, Shape
    <3> QED BY <3>1, <3>2
  <2> QED BY <1>2, <1>3, <2>1, <2>2 DEF Shape
<1>7. ListIsTable'
  BY <1>1, <1>2, <1>3, <1>4 DEF ListIsTable
<1>8. BlocksLive'
  BY <1>2, <1>3, <1>4, <1>5 DEF BlocksLive
<1> QED BY <1>1, <1>6, <1>7, <1>8 DEF ListInv, TarifInForce, NoCharge

LEMMA ListStep == ListInv /\ [TrfNext]_trfVars => ListInv'
<1> SUFFICES ASSUME ListInv, [TrfNext]_trfVars PROVE ListInv' OBVIOUS
<1>1. CASE StartLoad
  BY <1>1, LoadList DEF StartLoad
<1>2. CASE ReconfigLoad
  BY <1>2, LoadList DEF ReconfigLoad
<1>3. CASE Ends
  <2>1. Shape'
    <3>1. \A i \in Slots : tcache'[i] = Empty BY <1>3 DEF Ends
    <3>2. \A i \in Slots : tcache'[i].live \in BOOLEAN /\ DOMAIN tcache'[i] = {"url", "tid", "tval", "live"}
      BY <3>1, EmptyShape
    <3> QED BY <1>3, <3>2 DEF Ends, ListInv, Shape
  <2>2. BlocksLive' BY <1>3 DEF Ends, BlocksLive, Empty
  <2> QED BY <1>3, <2>1, <2>2 DEF Ends, ListInv, ListIsTable, TarifInForce, NoCharge
<1>4. CASE EditSites
  BY <1>4 DEF EditSites, ListInv, Shape, ListIsTable, BlocksLive, TarifInForce
<1>5. ASSUME NEW r \in Requests, LineCounts(r) PROVE ListInv'
  <2> DEFINE host == Host(Url(r))
  <2>1. Shape' /\ ListIsTable' /\ BlocksLive'
    BY <1>5 DEF LineCounts, ListInv, Shape, ListIsTable, BlocksLive
  <2>2. CASE Entries(host) = {} /\ charge' = Counted(r, host, 0, 1)
    <3>1. \A id \in DOMAIN inForce : ~Occurs(inForce[id].url, host)
      BY <1>5, <2>2 DEF LineCounts, ListInv, ListIsTable, Entries
    <3> QED BY <1>5, <2>1, <2>2, <3>1 DEF LineCounts, Counted, ListInv, TarifInForce
  <2>3. ASSUME NEW i \in Entries(host), charge' = Counted(r, host, tcache[i].tid, tcache[i].tval)
        PROVE  ListInv'
    <3>1. /\ tcache[i].tid \in DOMAIN inForce /\ Occurs(inForce[tcache[i].tid].url, host)
          /\ tcache[i].tval = inForce[tcache[i].tid].tarif /\ tcache[i].tid # 0
      BY <1>5, <2>3 DEF LineCounts, ListInv, Shape, ListIsTable, Entries
    <3> QED BY <1>5, <2>1, <2>3, <3>1 DEF LineCounts, Counted, ListInv, TarifInForce
  <2> QED BY <1>5, <2>2, <2>3 DEF LineCounts
<1>6. CASE LineSkipped
  BY <1>6 DEF LineSkipped, ListInv, Shape, ListIsTable, BlocksLive, TarifInForce, NoCharge
<1>7. CASE UNCHANGED trfVars
  BY <1>7 DEF trfVars, ListInv, Shape, ListIsTable, BlocksLive, TarifInForce
<1> QED BY <1>1, <1>2, <1>3, <1>4, <1>5, <1>6, <1>7 DEF TrfNext

(* Over any number of loads no url is freed while the list uses it, and     *)
(* none is lost.                                                            *)
THEOREM BlocksAlwaysLive == TrfSpec => []BlocksLive
<1>1. ListInv => BlocksLive BY DEF ListInv
<1> QED BY <1>1, ListInit, ListStep, PTL DEF TrfSpec

(* A line is charged at a tariff that was in the table at the last load.    *)
THEOREM TarifAlwaysInForce == TrfSpec => []TarifInForce
<1>1. ListInv => TarifInForce BY DEF ListInv
<1> QED BY <1>1, ListInit, ListStep, PTL DEF TrfSpec
------------------------------------------------------------------------------
(* Types.  Only the list gives a line its tariff, so that the types of what *)
(* is charged rest on the list being the table. *)
LEMMA InTables == ASSUME NEW ids \in SUBSET SiteIds, NEW t \in [ids -> SiteRow] PROVE t \in Tables
BY DEF Tables

LEMMA OfTables ==
  ASSUME NEW t \in Tables
  PROVE  /\ DOMAIN t \subseteq SiteIds /\ t \in [DOMAIN t -> SiteRow]
         /\ \A id \in DOMAIN t : id \in SiteIds /\ t[id].url \in SiteUrls /\ t[id].tarif \in Tarifs
<1>1. PICK ids \in SUBSET SiteIds : t \in [ids -> SiteRow] BY DEF Tables
<1> QED BY <1>1 DEF SiteRow

Slot == [url : SiteUrls \cup {<<>>}, tid : SiteIds \cup {0}, tval : Tarifs \cup {0}, live : BOOLEAN]

LEMMA EmptySlot == Empty \in Slot
BY DEF Empty, Slot

LEMMA TrfTypesInit == TrfInit => TrfTypes
<1> SUFFICES ASSUME TrfInit PROVE TrfTypes OBVIOUS
<1>1. tsites \in Tables BY InTables DEF TrfInit
<1>2. tcache \in [Slots -> Slot] BY EmptySlot DEF TrfInit
<1>3. trfsize \in 0..TrfCacheSize /\ edits \in 0..MaxEdits
  <2>1. trfsize = 0 /\ edits = 0 BY DEF TrfInit
  <2> QED BY <2>1
<1>4. running \in BOOLEAN /\ inForce = tsites /\ charge = NoCharge
  BY DEF TrfInit
<1> QED BY ONLY <1>1, <1>2, <1>3, <1>4 DEF TrfTypes, Slot

LEMMA LoadTypes ==
  ASSUME TrfTypes, Load
  PROVE  /\ tcache' \in [Slots -> Slot] /\ trfsize' \in 0..TrfCacheSize
         /\ inForce' = tsites /\ charge' = NoCharge
<1>1. PICK f \in Listings(tsites) :
        /\ tcache' = [i \in Slots |->
             IF i \in DOMAIN f THEN [url |-> tsites[f[i]].url, tid |-> f[i], tval |-> tsites[f[i]].tarif, live |-> TRUE]
             ELSE [tcache[i] EXCEPT !.live = tcache[i].live /\ i >= trfsize]]
        /\ trfsize' = Cardinality(DOMAIN f) /\ inForce' = tsites /\ charge' = NoCharge
  BY DEF Load
<1>2. /\ DOMAIN tsites \subseteq SiteIds
      /\ \A id \in DOMAIN tsites : id \in SiteIds /\ tsites[id].url \in SiteUrls /\ tsites[id].tarif \in Tarifs
  BY OfTables DEF TrfTypes
<1>3. /\ trfsize' \in 0..TrfCacheSize
      /\ \A i \in DOMAIN f : f[i] \in DOMAIN tsites
  BY <1>1, <1>2, ListingRows
<1>4. ASSUME NEW i \in Slots PROVE tcache'[i] \in Slot
  <2>1. CASE i \in DOMAIN f
    <3>1. tcache'[i] = [url |-> tsites[f[i]].url, tid |-> f[i], tval |-> tsites[f[i]].tarif, live |-> TRUE]
      BY <1>1, <2>1
    <3> QED BY <1>2, <1>3, <2>1, <3>1 DEF Slot
  <2>2. CASE i \notin DOMAIN f
    <3>1. tcache'[i] = [tcache[i] EXCEPT !.live = tcache[i].live /\ i >= trfsize]
      BY <1>1, <2>2
    <3>2. tcache[i] \in Slot BY DEF TrfTypes, Slot
    <3>3. (tcache[i].live /\ i >= trfsize) \in BOOLEAN OBVIOUS
    <3> QED BY <3>1, <3>2, <3>3 DEF Slot
  <2> QED BY <2>1, <2>2
<1>5. DOMAIN tcache' = Slots /\ tcache' = [i \in Slots |-> tcache'[i]] BY <1>1
<1> QED BY <1>1, <1>3, <1>4, <1>5

LEMMA TrfTypesStep == TrfTypes /\ ListInv /\ [TrfNext]_trfVars => TrfTypes'
<1> SUFFICES ASSUME TrfTypes, ListInv, [TrfNext]_trfVars PROVE TrfTypes' OBVIOUS
<1>1. CASE StartLoad \/ ReconfigLoad
  BY <1>1, LoadTypes DEF StartLoad, ReconfigLoad, TrfTypes, Slot
<1>2. CASE Ends
  <2>1. tcache' \in [Slots -> Slot] BY <1>2, EmptySlot DEF Ends
  <2>2. trfsize' \in 0..TrfCacheSize /\ edits' \in 0..MaxEdits
    <3>1. trfsize' = 0 /\ edits' = edits + 1 /\ edits < MaxEdits BY <1>2 DEF Ends, Edit
    <3>2. edits \in 0..MaxEdits BY DEF TrfTypes
    <3> QED BY <3>1, <3>2
  <2>3. running' \in BOOLEAN /\ tsites' = tsites /\ inForce' = inForce /\ charge' = NoCharge
    BY <1>2 DEF Ends
  <2>4. tsites \in Tables /\ inForce \in Tables BY DEF TrfTypes
  <2> QED BY ONLY <2>1, <2>2, <2>3, <2>4 DEF TrfTypes, Slot, Slots, Tables, NoCharge
<1>3. CASE EditSites
  <2>1. tsites \in [DOMAIN tsites -> SiteRow] /\ DOMAIN tsites \subseteq SiteIds
    BY OfTables DEF TrfTypes
  <2>2. tsites' \in Tables
    <3>1. PICK id \in SiteIds :
            \/ \E r \in SiteRow : tsites' = [i \in DOMAIN tsites \cup {id} |-> IF i = id THEN r ELSE tsites[i]]
            \/ tsites' = [i \in DOMAIN tsites \ {id} |-> tsites[i]]
      BY <1>3 DEF EditSites
    <3>2. \/ tsites' \in [DOMAIN tsites \cup {id} -> SiteRow]
          \/ tsites' \in [DOMAIN tsites \ {id} -> SiteRow]
      BY <2>1, <3>1
    <3>3. DOMAIN tsites \cup {id} \in SUBSET SiteIds /\ DOMAIN tsites \ {id} \in SUBSET SiteIds
      BY <2>1
    <3> QED BY ONLY <3>2, <3>3, InTables
  <2> QED BY <1>3, <2>2 DEF EditSites, Edit, TrfTypes
<1>4. ASSUME NEW r \in Requests, LineCounts(r) PROVE TrfTypes'
  <2> DEFINE host == Host(Url(r))
  <2>1. PICK tid \in SiteIds \cup {0}, tarif \in Tarifs \cup {1} : charge' = Counted(r, host, tid, tarif)
    <3>1. ASSUME NEW i \in Entries(host)
          PROVE  tcache[i].tid \in SiteIds /\ tcache[i].tval \in Tarifs
      <4>1. running /\ i \in Slots /\ i < trfsize BY <1>4 DEF LineCounts, Entries
      <4>2. tcache[i].tid \in DOMAIN inForce /\ tcache[i].tval = inForce[tcache[i].tid].tarif
        BY <4>1 DEF ListInv, ListIsTable
      <4> QED BY <4>2, OfTables DEF TrfTypes
    <3> QED BY <1>4, <3>1 DEF LineCounts
  <2>2. /\ charge'.request = r /\ charge'.tid = tid /\ charge'.tarif = tarif
    BY <2>1 DEF Counted
  <2> HIDE DEF host
  <2> QED BY <1>4, <2>1, <2>2 DEF LineCounts, TrfTypes, host
<1>5. CASE LineSkipped
  BY <1>5 DEF LineSkipped, TrfTypes
<1>6. CASE UNCHANGED trfVars
  BY <1>6 DEF trfVars, TrfTypes
<1> QED BY <1>1, <1>2, <1>3, <1>4, <1>5, <1>6 DEF TrfNext

(* The table, the list in memory and what is charged stay well typed: the   *)
(* list has room for every table there can be.                              *)
THEOREM TariffTypeCorrect == TrfSpec => []TrfTypes
<1> QED BY TrfTypesInit, TrfTypesStep, ListInit, ListStep, PTL DEF TrfSpec
------------------------------------------------------------------------------
LEMMA MinIs ==
  ASSUME NEW S, S \subseteq Int, NEW m \in S, \A i \in S : m <= i
  PROVE  Min(S) = m
<1>1. \A x \in S : (\A y \in S : x <= y) => x = m OBVIOUS
<1>2. Min(S) \in S /\ \A y \in S : Min(S) <= y BY DEF Min
<1> QED BY <1>1, <1>2

(* The provers do not know that a literal is in STRING.                     *)
Text == STRING \cup {"h", ":", "/"}

LEMMA TextSeq == \A s \in Servers \cup Paths : s \in Seq(Text)
<1>1. STRING \subseteq Text BY DEF Text
<1> QED BY <1>1, SeqMonotonic

Scheme == <<"h", ":", "/", "/">>

LEMMA SchemeProperties ==
  /\ Scheme \in Seq(Text) /\ Len(Scheme) = 4
  /\ Scheme[1] # "/" /\ Scheme[2] # "/" /\ Scheme[3] = "/" /\ Scheme[4] = "/"
<1>1. /\ Len(Scheme) = 4 /\ DOMAIN Scheme = 1..4
      /\ Scheme[1] = "h" /\ Scheme[2] = ":" /\ Scheme[3] = "/" /\ Scheme[4] = "/"
  BY DEF Scheme
<1>2. Scheme \in Seq(Text)
  <2>1. \A i \in 1..4 : Scheme[i] \in Text
    <3>1. "h" \in Text /\ ":" \in Text /\ "/" \in Text BY DEF Text
    <3>2. \A i \in 1..4 : i = 1 \/ i = 2 \/ i = 3 \/ i = 4 OBVIOUS
    <3> QED BY <1>1, <3>1, <3>2
  <2>2. Scheme = [i \in 1..4 |-> Scheme[i]] BY DEF Scheme
  <2>3. Scheme \in [1..4 -> Text] BY <2>1, <2>2
  <2>4. Seq(Text) = UNION {[1..n -> Text] : n \in Nat} BY SeqDef
  <2>5. [1..4 -> Text] \in {[1..n -> Text] : n \in Nat} OBVIOUS
  <2> QED BY ONLY <2>3, <2>4, <2>5
<1>3. "h" # "/" /\ ":" # "/"
  OBVIOUS
<1> QED BY <1>1, <1>2, <1>3

(* The url of a request with a scheme, character by character. *)
LEMMA UrlCharacters ==
  ASSUME NEW s \in Servers, NEW p \in Paths
  PROVE  LET u == Scheme \o s \o p IN
         /\ s \in Seq(Text) /\ Len(s) \in Nat /\ u \in Seq(Text)
         /\ Len(p) \in Nat /\ Len(u) = 4 + Len(s) + Len(p)
         /\ \A i \in 1..4 : u[i] = Scheme[i]
         /\ \A i \in 5..(4 + Len(s)) : u[i] = s[i - 4] /\ u[i] # "/"
         /\ p # <<>> => Len(p) > 0 /\ u[5 + Len(s)] = "/"
<1> DEFINE u == Scheme \o s \o p
<1>1. s \in Seq(Text) /\ p \in Seq(Text) BY TextSeq
<1>2. /\ Len(s) \in Nat /\ DOMAIN s = 1..Len(s) /\ Len(p) \in Nat
      /\ p # <<>> => Len(p) > 0
  BY <1>1, LenProperties, EmptySeq
<1>3. /\ Scheme \o s \in Seq(Text) /\ Len(Scheme \o s) = 4 + Len(s)
      /\ \A i \in 1..(4 + Len(s)) : (Scheme \o s)[i] = IF i <= 4 THEN Scheme[i] ELSE s[i - 4]
  <2>1. /\ Scheme \o s \in Seq(Text) /\ Len(Scheme \o s) = Len(Scheme) + Len(s)
        /\ \A i \in 1..(Len(Scheme) + Len(s)) :
             (Scheme \o s)[i] = IF i <= Len(Scheme) THEN Scheme[i] ELSE s[i - Len(Scheme)]
    BY ONLY <1>1, SchemeProperties, ConcatProperties
  <2> QED BY ONLY <2>1, SchemeProperties
<1>4. /\ u \in Seq(Text) /\ Len(u) = 4 + Len(s) + Len(p)
      /\ \A i \in 1..(4 + Len(s) + Len(p)) :
           u[i] = IF i <= 4 + Len(s) THEN (Scheme \o s)[i] ELSE p[i - (4 + Len(s))]
  <2> DEFINE q == Scheme \o s
  <2>1. q \in Seq(Text) /\ Len(q) = 4 + Len(s) BY <1>3
  <2>2. /\ q \o p \in Seq(Text) /\ Len(q \o p) = Len(q) + Len(p)
        /\ \A i \in 1..(Len(q) + Len(p)) : (q \o p)[i] = IF i <= Len(q) THEN q[i] ELSE p[i - Len(q)]
    <3> HIDE DEF q
    <3> QED BY ONLY <1>1, <2>1, ConcatProperties
  <2> QED BY <2>1, <2>2
<1>5. \A i \in 1..4 : u[i] = Scheme[i]
  BY <1>2, <1>3, <1>4
<1>6. \A i \in 5..(4 + Len(s)) : u[i] = s[i - 4] /\ u[i] # "/"
  BY <1>2, <1>3, <1>4
<1>7. p # <<>> => u[5 + Len(s)] = "/"
  BY <1>2, <1>4
<1> QED BY <1>1, <1>2, <1>4, <1>5, <1>6, <1>7

(* The site of such a url is its server between the scheme and a slash, or  *)
(* the server alone when it has no path.                                    *)
LEMMA HostOfUrl ==
  ASSUME NEW s \in Servers, NEW p \in Paths
  PROVE  Host(Scheme \o s \o p) = IF p # <<>> THEN Scheme \o s \o <<"/">> ELSE s
<1> DEFINE u == Scheme \o s \o p
<1> USE UrlCharacters
<1>1. Min(Doubles(u)) = 3 /\ Doubles(u) # {}
  <2>1. Doubles(u) \subseteq Int BY DEF Doubles
  <2>2. 3 \in Doubles(u) BY SchemeProperties DEF Doubles
  <2>3. \A i \in Doubles(u) : 3 <= i BY SchemeProperties DEF Doubles
  <2> QED BY <2>1, <2>2, <2>3, MinIs
<1>2. CASE p = <<>>
  <2>1. Slashes(u, 5) = {} BY <1>2 DEF Slashes
  <2>2. Host(u) = SubSeq(u, 5, Len(u)) BY <1>1, <2>1 DEF Host
  <2>3. /\ SubSeq(u, 5, 4 + Len(s)) \in Seq(Text) /\ Len(SubSeq(u, 5, 4 + Len(s))) = Len(s)
        /\ \A i \in 1..Len(s) : SubSeq(u, 5, 4 + Len(s))[i] = u[i + 4]
    <3>1. \A i \in 5..(4 + Len(s)) : u[i] \in Text BY ElementOfSeq
    <3> QED BY <3>1, SubSeqProperties
  <2>4. \A i \in 1..Len(s) : SubSeq(u, 5, 4 + Len(s))[i] = s[i]
    BY <2>3
  <2>5. SubSeq(u, 5, 4 + Len(s)) = s BY <2>3, <2>4, SeqEqual
  <2>6. Len(u) = 4 + Len(s) BY <1>2
  <2> QED BY <1>2, <2>2, <2>5, <2>6
<1>3. CASE p # <<>>
  <2> DEFINE m == 5 + Len(s)   t == Scheme \o s \o <<"/">>
  <2>1. Min(Slashes(u, 5)) = m /\ Slashes(u, 5) # {}
    <3>1. Slashes(u, 5) \subseteq Int BY DEF Slashes
    <3>2. m \in Slashes(u, 5) BY <1>3 DEF Slashes
    <3>3. \A i \in Slashes(u, 5) : m <= i BY DEF Slashes
    <3> QED BY <3>1, <3>2, <3>3, MinIs
  <2>2. Host(u) = SubSeq(u, 1, m)
    <3>1. Min(Doubles(u)) + 2 = 5 BY <1>1
    <3> HIDE DEF u, m
    <3> QED BY <1>1, <2>1, <3>1 DEF Host
  <2>3. /\ SubSeq(u, 1, m) \in Seq(Text) /\ Len(SubSeq(u, 1, m)) = m
        /\ \A i \in 1..m : SubSeq(u, 1, m)[i] = u[i]
    <3>1. \A i \in 1..m : u[i] \in Text BY <1>3, ElementOfSeq
    <3>2. m \in Int /\ 1 <= m /\ m - 1 + 1 = m OBVIOUS
    <3> HIDE DEF u, m
    <3> QED BY ONLY <3>1, <3>2, SubSeqProperties
  <2>4. /\ Scheme \o s \in Seq(Text) /\ Len(Scheme \o s) = 4 + Len(s)
        /\ \A i \in 1..(4 + Len(s)) : (Scheme \o s)[i] = IF i <= 4 THEN Scheme[i] ELSE s[i - 4]
    BY SchemeProperties, ConcatProperties
  <2>5. <<"/">> \in Seq(Text) /\ Len(<<"/">>) = 1 /\ <<"/">>[1] = "/"
    <3>1. "/" \in Text BY DEF Text
    <3>2. \A x : <<x>>[1] = x /\ Len(<<x>>) = 1 OBVIOUS
    <3>3. \A x \in Text : <<x>> \in Seq(Text) OBVIOUS
    <3> QED BY ONLY <3>1, <3>2, <3>3
  <2>6. /\ t \in Seq(Text) /\ Len(t) = m
        /\ \A i \in 1..m : t[i] = IF i <= 4 + Len(s) THEN (Scheme \o s)[i] ELSE <<"/">>[i - (4 + Len(s))]
    BY <2>4, <2>5, ConcatProperties
  <2>7. \A i \in 1..m : SubSeq(u, 1, m)[i] = t[i]
    BY <1>3, <2>3, <2>4, <2>5, <2>6
  <2>8. SubSeq(u, 1, m) = t
    <3> DEFINE v == SubSeq(u, 1, m)
    <3>1. v \in Seq(Text) /\ t \in Seq(Text) /\ Len(v) = Len(t) /\ \A i \in 1..Len(v) : v[i] = t[i]
      BY <2>3, <2>6, <2>7
    <3>2. v = t
      <4> HIDE DEF v, t
      <4> QED BY ONLY <3>1, SeqEqual
    <3> QED BY <3>2
  <2> QED BY <1>3, <2>2, <2>8
<1> QED BY <1>2, <1>3

(* The site of a server alone is the server. *)
LEMMA HostOfServer ==
  ASSUME NEW s \in Servers
  PROVE  Host(s) = s
<1>1. s \in Seq(Text) BY TextSeq
<1>2. Len(s) \in Nat /\ DOMAIN s = 1..Len(s) BY <1>1, LenProperties
<1>3. Doubles(s) = {} BY <1>2 DEF Doubles
<1> QED BY <1>3 DEF Host

LEMMA SiteOfRequest ==
  ASSUME NEW r \in Requests
  PROVE  Host(Url(r)) = IF r.scheme /\ r.path # <<>> THEN Scheme \o r.server \o <<"/">> ELSE r.server
<1>1. CASE r.scheme = TRUE
  <2>1. r.server \in Servers /\ r.path \in Paths BY <1>1 DEF Requests
  <2>2. Url(r) = Scheme \o r.server \o r.path BY <1>1 DEF Url, Scheme
  <2>3. Host(Scheme \o r.server \o r.path)
          = IF r.path # <<>> THEN Scheme \o r.server \o <<"/">> ELSE r.server
    BY ONLY <2>1, HostOfUrl
  <2> QED BY ONLY <1>1, <2>2, <2>3
<1>2. CASE r.scheme = FALSE
  <2>1. r.server \in Servers BY <1>2 DEF Requests
  <2>2. Url(r) = r.server BY <1>2 DEF Url
  <2> QED BY <1>2, <2>1, <2>2, HostOfServer
<1> QED BY <1>1, <1>2 DEF Requests

LEMMA SiteStep == SiteIsServer /\ [TrfNext]_trfVars => SiteIsServer'
<1> SUFFICES ASSUME SiteIsServer, [TrfNext]_trfVars PROVE SiteIsServer' OBVIOUS
<1>1. CASE charge' = NoCharge
  BY <1>1 DEF SiteIsServer, NoCharge
<1>2. CASE charge' = charge
  BY <1>2 DEF SiteIsServer
<1>3. ASSUME NEW r \in Requests, LineCounts(r) PROVE SiteIsServer'
  <2>1. PICK tid, tarif : charge' = Counted(r, Host(Url(r)), tid, tarif)
    BY <1>3 DEF LineCounts
  <2>2. charge'.request = r /\ charge'.site = Host(Url(r)) BY <2>1 DEF Counted
  <2> QED BY <2>2, SiteOfRequest DEF SiteIsServer, Scheme
<1> QED BY <1>1, <1>2, <1>3
  DEF TrfNext, StartLoad, ReconfigLoad, Load, Ends, EditSites, LineSkipped, trfVars

(* Lines of one server come to one site, whatever their path.               *)
THEOREM SiteAlwaysServer == TrfSpec => []SiteIsServer
<1>1. TrfInit => SiteIsServer BY DEF TrfInit, SiteIsServer, NoCharge
<1> QED BY <1>1, SiteStep, PTL DEF TrfSpec
=============================================================================

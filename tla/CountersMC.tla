----------------------------- MODULE CountersMC -----------------------------
(* Instances of SiteCounters, Tariff and Traffic for TLC.  What the daemon  *)
(* counts for a site, what a line costs and what racc counts have no state  *)
(* in common, so a behaviour is of one of them.                             *)
EXTENDS SiteCounters, Tariff, Traffic, TLC

VARIABLE program

CountersVars == <<program, siteVars, trfVars, trafficVars>>

Init ==
  /\ program \in {"sites", "tariff", "racc"}
  /\ SiteInit /\ TrafficInit
  /\ IF program = "tariff" THEN TrfInit ELSE TrfInit /\ DOMAIN tsites = {}

Next ==
  \/ program = "sites" /\ SiteNext /\ UNCHANGED <<program, trfVars, trafficVars>>
  \/ program = "tariff" /\ TrfNext /\ UNCHANGED <<program, siteVars, trafficVars>>
  \/ program = "racc" /\ TrafficNext /\ UNCHANGED <<program, siteVars, trfVars>>

Spec == Init /\ [][Next]_CountersVars

(* Types, the type invariant of the three. *)
TypeOK == SiteTypes /\ TrfTypes /\ TrafficTypes

CountersSymmetry ==
  Permutations(Keys) \cup Permutations(Scripts) \cup Permutations(Pairs) \cup Permutations(Files)

(* The two urls of data.sql: a name, and a name with its scheme. *)
SomeSiteUrls == {<<"g">>, <<"h", ":", "/", "/", "g", "/">>}
SomeServers  == {<<"g">>, <<"g", "x">>, <<"x">>}
SomePaths    == {<<>>, <<"/">>, <<"/", "g">>, <<"/", "/", "g", "/">>}
=============================================================================

----------------------------- MODULE MCPlatform -----------------------------
(***************************************************************************)
(* The components around the core of the platform, each checked on its own  *)
(* instance: a behaviour chooses one of them and explores it, the variables *)
(* of the others stay at one value.  Nothing is shared between them, so the *)
(* states of the parts add up and do not multiply.                          *)
(***************************************************************************)
EXTENDS EventGraph, GraphStore, Neo4jStore, GraphQueries, RateLimiter, Console, GatewayReads,
        ResponsePolicy, TriageGrounding, DemoPipeline, RiskScoring, AuditDamage

VARIABLE part   \* the component explored, the same throughout a behaviour

Components ==
  {"events", "store", "neo4j", "queries", "limiter", "console", "reads", "policy", "triage", "demo",
   "scoring", "damage"}

-----------------------------------------------------------------------------
(* Instances                                                                *)
(* Stores: an edge between two nodes, written with both of them by one      *)
(* event, and a second event about one of the nodes.                        *)
GraphEntries == {"user", "host", "logged_in_to"}
GraphEnds(e) == IF e = "logged_in_to" THEN {"user", "host"} ELSE {}
EntriesOf(s) == IF s = "logon" THEN <<"user", "host", "logged_in_to">> ELSE <<"host">>

(* Queries: a cycle of three nodes, two of them with an edge each way       *)
(* between them, and a tail; any part of it.                                *)
CycleWithTail ==
  {Link(1, "t", 2), Link(2, "t", 3), Link(3, "t", 1), Link(3, "t", 4), Link(2, "t", 1)}
KnownBad == {{}, {3}, {2, 4}}
CaseEntities == {<<1, 4>>, <<2, 3>>}

(* Triage: texts of up to two stops, some with a token in brackets; a case  *)
(* titled "Mail from bob@x.com! Check" is the one of <<1, {0}>>.            *)
StopsAndTokens == {<<0, {}>>, <<1, {}>>, <<2, {}>>, <<1, {0}>>, <<2, {1}>>, <<2, {2}>>}
SomeAlerts ==
  {AlertText(s[1], s[2], techniques, likely) :
     s \in StopsAndTokens, techniques \in {{"T1021"}, {"T1486", "T1566"}}, likely \in {FALSE}}
    \cup {AlertText(0, {0}, {"T1021"}, TRUE), AlertText(2, {1}, {"T1486", "T1566"}, TRUE)}
SomeCases ==
  {AlertText(s[1], s[2], techniques, FALSE) :
     s \in StopsAndTokens, techniques \in {{}, {"T1486"}}}
TimelineOf(events, edges) == [events |-> events, edges |-> edges]
SomeTimelines ==
  {<< >>, <<TimelineOf(1, TRUE)>>, <<TimelineOf(3, FALSE), TimelineOf(1, TRUE)>>}
SomeDrafts ==
  {[sentences |-> <<{<<"case", 0, 0>>}, {<<"alert", 9, 0>>}>>, mapping |-> {<<"T1486", <<"alert", 1, 0>> >>},
    objective |-> <<"suspicious_activity", FALSE>>]}

(* Demo: one scenario of two events, one of a single one.                   *)
ScenarioLength(r) == IF r = "phishing" THEN 2 ELSE 1

-----------------------------------------------------------------------------
PlatformInit ==
  /\ part \in Components
  /\ IF part = "events" THEN EventInit ELSE raw = NoEvent
  /\ IF part = "triage" THEN TriageInit ELSE retrieved = NothingRetrieved
  /\ IF part = "scoring" THEN ScoringInit ELSE evidence = NoEvidence
  /\ StoreInit /\ (part # "store" => running = Writers)
  /\ IF part = "reads" THEN ReadsInit ELSE ReadsInit /\ listing = "alerts" /\ sync /\ query
  /\ Neo4jInit /\ LinksInit /\ LimiterInit /\ ConsoleInit /\ PolicyInit /\ DemoInit /\ DamageInit

PlatformNext ==
  /\ IF part = "store" THEN StoreNext ELSE UNCHANGED storeVars
  /\ IF part = "neo4j" THEN Neo4jNext ELSE UNCHANGED neo4jVars
  /\ IF part = "queries" THEN QueriesNext ELSE UNCHANGED queryVars
  /\ IF part = "limiter" THEN LimiterNext ELSE UNCHANGED limiterVars
  /\ IF part = "console" THEN ConsoleNext ELSE UNCHANGED consoleVars
  /\ IF part = "reads" THEN ReadsNext ELSE UNCHANGED readVars
  /\ IF part = "policy" THEN PolicyNext ELSE UNCHANGED policyVars
  /\ IF part = "demo" THEN DemoNext ELSE UNCHANGED demoVars
  /\ IF part = "damage" THEN DamageNext ELSE UNCHANGED damageVars
  /\ UNCHANGED <<part, raw, retrieved, evidence>>

PlatformSpec ==
  PlatformInit /\ [][PlatformNext]_<<part, raw, retrieved, evidence, queryVars, storeVars, neo4jVars,
                     limiterVars, consoleVars, readVars, policyVars, demoVars, damageVars>>

-----------------------------------------------------------------------------
(* The files, processes, sessions and stores of a part keep their types.    *)
PlatformTypeOK ==
  CASE part = "store" -> StoreTypeOK
    [] part = "neo4j" -> Neo4jTypeOK
    [] part = "reads" -> ReadsTypeOK
    [] part = "limiter" -> LimiterTypeOK
    [] part = "console" -> ConsoleTypeOK
    [] part = "policy" -> PolicyTypeOK
    [] part = "demo" -> DemoTypeOK
    [] OTHER -> TRUE
=============================================================================

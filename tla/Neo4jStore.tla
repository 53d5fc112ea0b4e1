----------------------------- MODULE Neo4jStore -----------------------------
(***************************************************************************)
(* Neo4jGraphStore: the graph in a database, and the tasks that write the   *)
(* nodes and edges of their events into it: the consumer and the requests   *)
(* of POST /api/v1/graph/ingest, all in one event loop.  An upsert is two   *)
(* statements, each a transaction of its own: one reads the sources of the  *)
(* entry, one merges the entry and sets its sources to the union computed   *)
(* in between.  Upserts of one entry by two tasks may overlap there.        *)
(*                                                                         *)
(* An event stands for its sources too, the confidence and the timestamps   *)
(* of an entry change along with its count.                                 *)
(***************************************************************************)
EXTENDS GraphUpdates

CONSTANT MaxMerges   \* bound: upserts of one entry

ASSUME Neo4jAssumption == GraphUpdatesAssumption /\ MaxMerges \in Nat

VARIABLES
  database,   \* the properties of each node and relationship
  task,       \* each writer: where it is, the upserts left, the sources it computed
  given,      \* history: the events each entry was upserted with, oldest first
  raced       \* history: the entries two upserts of which overlapped

neo4jVars == <<database, task, given, raced>>

-----------------------------------------------------------------------------
NotInDatabase == [count |-> 0, sources |-> {}, observations |-> << >>]
InDatabase == {e \in Entries : database[e].count > 0}

NoTask == [at |-> "idle", left |-> << >>, sources |-> {}]
Upserting(w) == Head(task[w].left)
Merging(w, e) == task[w].at = "merging" /\ Upserting(w).entry = e

-----------------------------------------------------------------------------
Neo4jInit ==
  /\ database = [e \in Entries |-> NotInDatabase]
  /\ task = [w \in Writers |-> NoTask]
  /\ given = [e \in Entries |-> << >>]
  /\ raced = {}

(* apply_event_to_graph                                                     *)
Ingest(w, s) ==
  /\ task[w].at = "idle"
  /\ Updates(s) # << >>
  /\ task' = [task EXCEPT ![w] = [NoTask EXCEPT !.at = "reading", !.left = Pending(s)]]
  /\ UNCHANGED <<database, given, raced>>

(* MATCH ... RETURN sources, and merged_sources in the task.                *)
ReadSources(w) ==
  /\ task[w].at = "reading"
  /\ LET e == Upserting(w).entry
     IN /\ task' = [task EXCEPT
             ![w].at = "merging",
             ![w].sources = database[e].sources \cup {Upserting(w).sighting}]
        /\ raced' = IF \E v \in Writers \ {w} : Merging(v, e) THEN raced \cup {e} ELSE raced
  /\ UNCHANGED <<database, given>>

(* Mutant of Merged: one observation more than MAX_OBSERVATIONS is kept.    *)
MergedKeepingAll(entry, sources, s) ==
  [count |-> entry.count + 1, sources |-> sources,
   observations |-> Append(entry.observations, s)]

(* ON CREATE SET, ON MATCH SET: the last MAX_OBSERVATIONS - 1 and the new   *)
(* one (a limit of 1 would keep all; it is 25).                             *)
Merged(entry, sources, s) ==
  [count |-> entry.count + 1, sources |-> sources,
   observations |-> Recent(Append(entry.observations, s))]

NextUpsert(w) ==
  IF Len(task[w].left) = 1 THEN NoTask
  ELSE [NoTask EXCEPT !.at = "reading", !.left = Tail(task[w].left)]

(* MERGE of a node; of a relationship after MATCHing its ends: where one is *)
(* missing the statement writes nothing, and says nothing.                  *)
Merge(w) ==
  /\ task[w].at = "merging"
  /\ LET e == Upserting(w).entry
         s == Upserting(w).sighting
     IN /\ Len(given[e]) < MaxMerges
        /\ database' = IF Ends(e) \subseteq InDatabase
                       THEN [database EXCEPT ![e] = Merged(@, task[w].sources, s)]
                       ELSE database
        /\ given' = [given EXCEPT ![e] = Append(@, s)]
  /\ task' = [task EXCEPT ![w] = NextUpsert(w)]
  /\ UNCHANGED raced

(* A statement raises or the service stops: the rest of the event is dropped*)
StatementFails(w) ==
  /\ task[w].at # "idle"
  /\ task' = [task EXCEPT ![w] = NoTask]
  /\ UNCHANGED <<database, given, raced>>

Neo4jNext ==
  \E w \in Writers :
    \/ \E s \in Sightings : Ingest(w, s)
    \/ ReadSources(w) \/ Merge(w) \/ StatementFails(w)

Neo4jSpec == Neo4jInit /\ [][Neo4jNext]_neo4jVars

-----------------------------------------------------------------------------
(* Database and tasks keep their types.                                     *)
Neo4jTypeOK ==
  /\ database \in [Entries ->
       [count: Nat, sources: SUBSET Sightings, observations: Seq(Sightings)]]
  /\ task \in [Writers ->
       [at: {"idle", "reading", "merging"}, left: Seq([entry: Entries, sighting: Sightings]),
        sources: SUBSET Sightings]]
  /\ given \in [Entries -> Seq(Sightings)]
  /\ raced \in SUBSET Entries

(* What an entry's upserts amount to when each has seen the one before.     *)
Summary(history) ==
  [count |-> Len(history), sources |-> {history[i] : i \in DOMAIN history},
   observations |-> Recent(history)]

(* Whatever fails between two statements: every upsert that returned is in  *)
(* the database, no edge is dropped for want of its ends and none is there  *)
(* without them; an entry no two upserts of which overlapped is the sum of  *)
(* its upserts, its sources included, which it takes two statements to keep.*)
(* (Of the others nothing is claimed: one may forget the source another has *)
(* just added, and with no constraint on node_id a MERGE may create twice.) *)
UpsertsAddUp ==
  /\ \A e \in Entries \ raced : database[e] = Summary(given[e])
  /\ \A e \in Entries : e \in InDatabase <=> given[e] # << >>
  /\ \A e \in InDatabase : Ends(e) \subseteq InDatabase
=============================================================================

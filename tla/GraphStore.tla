----------------------------- MODULE GraphStore -----------------------------
(***************************************************************************)
(* InMemoryGraphStore: the graph in one JSON file, and the processes that   *)
(* write the nodes and edges of their events into it.  Every upsert reads   *)
(* the whole file, changes one entry, writes a .tmp file and moves it over  *)
(* the old one.  There is no await in between, so the handlers of one       *)
(* process take turns; its crash may come at any point.                     *)
(*                                                                         *)
(* A stored entry is its list of observations, the events that mentioned    *)
(* it; counters and properties change along with it.                        *)
(***************************************************************************)
EXTENDS GraphUpdates

CONSTANTS
  Absent, Torn,      \* no file, one that holds no whole JSON document
  MaxUpdates         \* bound: upserts of one entry

Graphs == [Entries -> Seq(Sightings)]

ASSUME GraphStoreAssumption ==
  /\ GraphUpdatesAssumption
  /\ Torn \notin Graphs
  /\ Absent \notin Graphs \cup {Torn}
  /\ MaxUpdates \in Nat

VARIABLES
  running,     \* the processes that write: the same throughout a behaviour
  graphFile,   \* state.json
  graphTmp,    \* state.tmp
  writer,      \* each process: where it is, the upserts left, its copy of the graph
  observed     \* history: the events each entry was given, oldest first

storeVars == <<running, graphFile, graphTmp, writer, observed>>

-----------------------------------------------------------------------------
(* A graph gives each entry its observations; one without is not stored.    *)
EmptyGraph == [e \in Entries |-> << >>]
Stored(g) == {e \in Entries : g[e] # << >>}

(* _read answers an empty graph where it finds none.                        *)
Read(content) == IF content = Torn THEN EmptyGraph ELSE content

Upserted(g, e, s) == [g EXCEPT ![e] = Recent(Append(@, s))]

AtRest == [at |-> "idle", left |-> << >>, graph |-> EmptyGraph]
Current(w) == Head(writer[w].left)

-----------------------------------------------------------------------------
(* The constructor of the store finds no file and writes an empty graph.    *)
StoreInit ==
  /\ running \in (SUBSET Writers) \ {{}}
  /\ graphFile = EmptyGraph
  /\ graphTmp = Absent
  /\ writer = [w \in Writers |-> AtRest]
  /\ observed = EmptyGraph

(* apply_event_to_graph, in the consumer, POST /api/v1/graph/ingest or      *)
(* run_scenario.                                                            *)
Apply(w, s) ==
  /\ writer[w].at = "idle"
  /\ Updates(s) # << >>
  /\ writer' = [writer EXCEPT ![w] = [AtRest EXCEPT !.at = "reading", !.left = Pending(s)]]
  /\ UNCHANGED <<graphFile, graphTmp, observed>>

(* upsert_node, upsert_edge: _read, and the entry is changed in memory.     *)
ReadGraph(w) ==
  /\ writer[w].at = "reading"
  /\ writer' = [writer EXCEPT
       ![w].at = "opening",
       ![w].graph = Upserted(Read(graphFile), Current(w).entry, Current(w).sighting)]
  /\ UNCHANGED <<graphFile, graphTmp, observed>>

(* Mutant of OpenTmp: the graph is written in place.                        *)
OpenInPlace(w) ==
  /\ writer[w].at = "opening"
  /\ graphFile' = Torn
  /\ writer' = [writer EXCEPT ![w].at = "writing"]
  /\ UNCHANGED <<graphTmp, observed>>

(* _write: opening the file for writing empties it.                         *)
OpenTmp(w) ==
  /\ writer[w].at = "opening"
  /\ graphTmp' = Torn
  /\ writer' = [writer EXCEPT ![w].at = "writing"]
  /\ UNCHANGED <<graphFile, observed>>

WriteTmp(w) ==
  /\ writer[w].at = "writing"
  /\ graphTmp' = writer[w].graph
  /\ writer' = [writer EXCEPT ![w].at = "replacing"]
  /\ UNCHANGED <<graphFile, observed>>

Rest(w) ==
  IF Len(writer[w].left) = 1 THEN AtRest
  ELSE [AtRest EXCEPT !.at = "reading", !.left = Tail(writer[w].left)]

Replace(w) ==
  /\ writer[w].at = "replacing"
  /\ graphTmp # Absent
  /\ Len(observed[Current(w).entry]) < MaxUpdates
  /\ graphFile' = graphTmp
  /\ graphTmp' = Absent
  /\ observed' = [observed EXCEPT ![Current(w).entry] = Append(@, Current(w).sighting)]
  /\ writer' = [writer EXCEPT ![w] = Rest(w)]

(* Another process has moved the file away: FileNotFoundError, the rest of  *)
(* the event is dropped.                                                    *)
ReplaceFails(w) ==
  /\ writer[w].at = "replacing"
  /\ graphTmp = Absent
  /\ writer' = [writer EXCEPT ![w] = AtRest]
  /\ UNCHANGED <<graphFile, graphTmp, observed>>

(* The process dies and starts again: the files are as it left them.        *)
StoreCrash(w) ==
  /\ writer[w].at # "idle"
  /\ writer' = [writer EXCEPT ![w] = AtRest]
  /\ UNCHANGED <<graphFile, graphTmp, observed>>

StoreNext ==
  /\ \E w \in running :
       \/ \E s \in Sightings : Apply(w, s)
       \/ ReadGraph(w) \/ OpenTmp(w) \/ WriteTmp(w) \/ Replace(w) \/ ReplaceFails(w)
       \/ StoreCrash(w)
  /\ UNCHANGED running

StoreSpec == StoreInit /\ [][StoreNext]_storeVars

-----------------------------------------------------------------------------
(* Files and processes keep their types.                                    *)
StoreTypeOK ==
  /\ running \subseteq Writers
  /\ graphFile \in Graphs \cup {Torn}
  /\ graphTmp \in Graphs \cup {Torn, Absent}
  /\ observed \in Graphs
  /\ writer \in [Writers ->
       [at: {"idle", "reading", "opening", "writing", "replacing"},
        left: Seq([entry: Entries, sighting: Sightings]), graph: Graphs]]

(* Sync mode: one process runs every service.  Two that write put their own *)
(* copies of the graph in each other's place, and nothing below is claimed. *)
SoleWriter == \A v, w \in running : v = w

(* Whatever upsert a crash cuts short, the file holds every entry that was  *)
(* ever completely written, with its latest observations in their order: no *)
(* torn file is taken for an empty graph and written back.  And an edge is  *)
(* never without its ends, although each of the three is written on its own.*)
NothingForgotten ==
  SoleWriter =>
    LET kept == Read(graphFile)
    IN \A e \in Entries :
         /\ kept[e] = Recent(observed[e])
         /\ e \in Stored(kept) => Ends(e) \subseteq Stored(kept)
=============================================================================

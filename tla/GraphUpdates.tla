---------------------------- MODULE GraphUpdates ----------------------------
(***************************************************************************)
(* What both backends of the graph store are given: the events, the nodes   *)
(* and edges each of them upserts, and how many observations of an entry    *)
(* are kept.                                                                *)
(***************************************************************************)
EXTENDS Integers, Sequences, FiniteSets

CONSTANTS
  Writers,           \* whoever applies events to the graph
  Entries,           \* the nodes and edges there can be
  Ends(_),           \* the entries that are the ends of an edge, none for a node
  Sightings,         \* the events written into the graph
  Updates(_),        \* the entries an event upserts, in their order
  MAX_OBSERVATIONS

(* What derive_graph_updates gives: the ends of an edge come before it.     *)
ASSUME GraphUpdatesAssumption ==
  /\ \A s \in Sightings :
       /\ Updates(s) \in Seq(Entries)
       /\ \A i \in DOMAIN Updates(s) :
            Ends(Updates(s)[i]) \subseteq {Updates(s)[j] : j \in 1..(i - 1)}
  /\ MAX_OBSERVATIONS \in Nat \ {0}

(* The upserts apply_event_to_graph awaits one after the other.             *)
Pending(s) == [i \in DOMAIN Updates(s) |-> [entry |-> Updates(s)[i], sighting |-> s]]

(* The last of the observations, those an upsert leaves in place.           *)
Recent(s) ==
  IF Len(s) <= MAX_OBSERVATIONS THEN s
  ELSE SubSeq(s, Len(s) - MAX_OBSERVATIONS + 1, Len(s))
=============================================================================

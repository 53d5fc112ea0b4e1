-------------------------- MODULE MCEventPipeline --------------------------
(* TLC instance of EventPipeline: two normalization replicas share an offset*)
(* file, enrichment has one.                                                *)
EXTENDS EventPipeline

AllTopics == {"raw", "dlq", "normalized", "enriched", "graph", "alerts"}

TwoStages == [normalization |-> "raw", enrichment |-> "normalized"]
TwoStagesMember == [n1 |-> "normalization", n2 |-> "normalization", e1 |-> "enrichment"]

DataPath ==
  [normalization |-> "raw", enrichment |-> "normalized",
   graph_builder |-> "enriched", detection |-> "enriched", case_management |-> "alerts"]
DataPathMember ==
  [normalizer |-> "normalization", enricher |-> "enrichment",
   builder |-> "graph_builder", detector |-> "detection", cases |-> "case_management"]
=============================================================================

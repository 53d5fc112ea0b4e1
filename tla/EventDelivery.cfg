SPECIFICATION FairSpec
CONSTANTS
  Topics <- AllTopics
  Groups = {"normalization", "enrichment", "graph_builder", "detection", "case_management"}
  Subscribes <- DataPath
  Workers = {"normalizer", "enricher", "builder", "detector", "cases"}
  Member <- DataPathMember
  Records = {"good"}
  MaxRecords = 1
  Capacity = 1
  Requests = {r1}
  Malformed = {}
  Unparsable = {}
  MaxFaults = 1
PROPERTIES
  AtLeastOnce
CHECK_DEADLOCK FALSE

SPECIFICATION FairSpec
CONSTANTS
  Topics <- AllTopics
  Groups = {"normalization", "enrichment"}
  Subscribes <- TwoStages
  Workers = {"n1", "n2", "e1"}
  Member <- TwoStagesMember
  Records = {"good", "unparsable", "malformed"}
  MaxRecords = 1
  Capacity = 2
  Requests = {r1, r2}
  Malformed = {"malformed"}
  Unparsable = {"unparsable"}
  MaxFaults = 1
INVARIANTS
  NothingSkipped
  IngestedOnce
  ClaimedIsPublished
  OnceWithoutFaults
PROPERTIES
  EveryRecordDelivered
CHECK_DEADLOCK FALSE

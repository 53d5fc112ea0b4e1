SPECIFICATION FairSpec
CONSTANTS
  Requests = {r1, r2, r3}
  Alerts = {"a1", "a2"}
  Cluster <- ClusterOf
  Scores = {1, 2}
  AlertLists = {{}, {"a1"}}
  MaxCases = 3
  MaxInFlight = 3
INVARIANTS
  EvidenceKept
  OneCasePerCluster
PROPERTIES
  NothingLost
  EveryRequestAnswered
CHECK_DEADLOCK FALSE

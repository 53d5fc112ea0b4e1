SPECIFICATION Spec
CONSTANTS
  Requests = {r1, r2, r3, r4}
  Streamed = {r1, r2, r3}
  Events <- AFewEvents
  Rules = {"burst"}
  Traits = {"x", "y", "z"}
  Span <- WindowSpans
  MinCount <- BurstOfTwo
  Technique <- BurstTechnique
  Scores = {1, 2}
  MIN_ALERT_SCORE = 2
  CLUSTER_WINDOW = 0
  OVERLAP_THRESHOLD = 50
  MaxClock = 1
SYMMETRY RequestSymmetry
INVARIANTS
  WindowsExact
  OpenClustersDiffer
  AlertSumsUp
  PublishedGrow
CHECK_DEADLOCK FALSE

SPECIFICATION Spec
CONSTANTS
  Requests = {r1, r2, r3, r4}
  Actions = {isolate, notify}
  Classes = {isolate, notify}
  ClassOf <- OwnClass
  Disruptive = {isolate}
  Reversible = {isolate}
  Filings <- MixedFilings
  Cases = {c1}
  MaxApprovals = 2
  MaxInFlight = 2
SYMMETRY RequestSymmetry
INVARIANTS
  TypeOK
  Accountable
  ExecutedOnce
  RegistryShowsLastDecision
PROPERTIES
  NeverReopened
  FollowsLifecycle
CHECK_DEADLOCK FALSE

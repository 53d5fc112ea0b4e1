SPECIFICATION Spec
CONSTANTS
  Requests = {r1, r2}
  Actions = {notify}
  Classes = {notify}
  ClassOf <- OwnClass
  Disruptive = {}
  Reversible = {}
  Filings <- MixedFilings
  Cases = {c1}
  MaxApprovals = 2
  MaxInFlight = 2
INVARIANT DecideDecides
CHECK_DEADLOCK FALSE

SPECIFICATION Spec
CONSTANTS
  Requests = {r1, r2, r3}
  Actions = {isolate}
  Classes = {isolate}
  ClassOf <- OwnClass
  Disruptive = {isolate}
  Reversible = {isolate}
  Filings <- MixedFilings
  Cases = {c1}
  MaxApprovals = 2
  MaxInFlight = 2
PROPERTY DecisionsAreFinal
CHECK_DEADLOCK FALSE

SPECIFICATION ConsoleSpec
CONSTANTS
  Actions = {a1}
  NoAction = NoAction
  MaxSessions = 2
  MaxPages = 2
  MaxRuns = 3
  MaxCalls = 2
INVARIANT ShowsItsFilter
CHECK_DEADLOCK FALSE

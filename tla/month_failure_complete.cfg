SPECIFICATION Spec
CONSTANTS
  MaxReqs = 2
  MaxMonth = 0
  MaxEvents = 2
  Asks = {"month"}
  Faults = {"monthsql"}
  FirstHistory = TRUE
INVARIANTS CompleteIsTrue

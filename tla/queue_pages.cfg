SPECIFICATION FairSpec
CONSTANTS
  MaxReqs = 5
  MaxMonth = 1
  MaxEvents = 3
  Asks = {"recount", "other", "clean", "mark"}
  Faults = {"recountsql", "monthsql", "noconf", "deadsquid", "dbcrash"}
  FirstHistory = TRUE
INVARIANTS ArchivedOnce
PROPERTIES EveryCommandSettles

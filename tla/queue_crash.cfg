SPECIFICATION FairSpec
CONSTANTS
  MaxReqs = 4
  MaxMonth = 1
  MaxEvents = 3
  Asks = {"test", "reconf", "recount", "usr1"}
  Faults = {"crash", "stmt", "recountsql", "nosquid"}
  FirstHistory = TRUE
INVARIANTS TypeOK AtMostOnce CompleteIsTrue
PROPERTIES EveryMonthArchived

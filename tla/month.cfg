SPECIFICATION FairSpec
CONSTANTS
  MaxLines = 2
  MaxGen = 2
  MaxEvents = 2
  TestDelay = 1
  Batch = 3
  Signals = {"HUP", "TERM", "USR1"}
  Cmds = {"reconf"}
  Faults = {"noconf", "badline"}
  LateCuts = {}
  EarlyCuts = {}
INVARIANTS NoLineInTwoMonths
PROPERTIES ChargesInOrder EveryLineCharged

SPECIFICATION FairSpec
CONSTANTS
  MaxLines = 3
  MaxGen = 0
  MaxEvents = 3
  TestDelay = 1
  Batch = 3
  Signals = {"HUP", "TERM", "USR2"}
  Cmds = {"reconf", "recount"}
  Faults = {"crash", "link", "script", "noconf", "badline"}
  LateCuts = {}
  EarlyCuts = {}
INVARIANTS NoLineSkipped
PROPERTIES BillsAll

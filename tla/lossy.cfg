SPECIFICATION FairSpec
CONSTANTS
  MaxLines = 2
  MaxGen = 2
  MaxEvents = 2
  TestDelay = 1
  Batch = 3
  Signals = {"TERM"}
  Cmds = {"reconf", "recount"}
  Faults = {"torn", "stmt", "rotate", "truncate", "noconf", "badline"}
  LateCuts = {1}
  EarlyCuts = {2}
INVARIANTS NoDoubleCharge
PROPERTIES TermStops

SPECIFICATION FairSpec
CONSTANTS
  MaxLines = 4
  MaxGen = 0
  MaxEvents = 4
  TestDelay = 1
  Batch = 3
  Signals = {"TERM"}
  Cmds = {"reconf", "recount"}
  Faults = {}
  LateCuts = {}
  EarlyCuts = {}
INVARIANTS NoDoubleCharge
PROPERTIES BillsOnce

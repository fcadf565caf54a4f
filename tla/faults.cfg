SPECIFICATION Spec
CONSTANTS
  MaxLines = 2
  MaxGen = 2
  MaxEvents = 2
  TestDelay = 1
  Batch = 3
  Signals = {"HUP", "TERM", "USR1", "USR2"}
  Cmds = {"reconf", "recount", "month"}
  Faults = {"crash", "link", "stmt", "script", "noconf", "nosquid", "slow", "rotate", "truncate", "torn", "badline"}
  LateCuts = {1}
  EarlyCuts = {2}
INVARIANTS TypeOK ClosedStreamConfined

SPECIFICATION Spec
CONSTANTS Procs = {p1, p2, p3}
          MaxPid = 5
          MaxEvents = 5
SYMMETRY Starts
CHECK_DEADLOCK FALSE
INVARIANTS TypeOK OneDaemon FileNamesDaemon SignalsReachDaemon

SPECIFICATION Spec
CONSTANTS Logins = {a, b, c}
          None = None
          CacheSize = 3
          MaxId = 3
          Typed = {1}
          MaxEvents = 2
          MaxSteps = 5
SYMMETRY LoginSymmetry
INVARIANTS TypeOK RightRow OneEntry UsedIsDue LoginOnce
CHECK_DEADLOCK FALSE

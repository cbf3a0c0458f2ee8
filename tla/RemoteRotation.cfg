SPECIFICATION Spec
CONSTANTS
  Accounts = {a, b}
  Ops = {o1, o2}
  Turns = {t1, t2}
  None = None
  MaxTries = 2
  Rounds = 2
  MaxEpoch = 3
  MaxFailures = 1
  MaxEvents = 1
SYMMETRY Symmetry
INVARIANTS TypeOK NothingAbandoned
PROPERTIES HandOffs
CHECK_DEADLOCK FALSE

SPECIFICATION Spec
CONSTANTS
  Accounts = {a, b, c}
  Requests = {r1}
  Ops = {o1, o2}
  ResetOps = {o2}
  None = None
  Limit = 1
  MaxEpoch = 3
  MaxFaults = 1
SYMMETRY Symmetry
INVARIANTS TypeOK HostFollows
PROPERTIES RequestMovesOnce ServesDecisions HistoryKept

SPECIFICATION Spec
CONSTANTS
  None = None
  Versions = {1, 2}
  MaxTxn = 2
  MaxFaults = 2
CHECK_DEADLOCK FALSE
INVARIANTS TypeOK ReleaseKept
PROPERTIES PairInstalled RunningUnchanged

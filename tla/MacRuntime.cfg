SPECIFICATION MacSpec
CONSTANTS
  None = None
  Versions = {1, 2}
  Sessions = {s1}
  MaxKept = 2
  MaxGens = 3
  MaxTxn = 1
  MaxFaults = 2
CHECK_DEADLOCK FALSE
INVARIANTS MacTypeOK SessionKept
PROPERTY LaunchersInstalled

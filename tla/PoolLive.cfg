SPECIFICATION LiveSpec
CONSTANTS
  Accounts = {a, b}
  Requests = {r1}
  Ops = {}
  ResetOps = {}
  None = None
  Limit = 1
  MaxEpoch = 2
  MaxFaults = 2
PROPERTIES PoolSettles

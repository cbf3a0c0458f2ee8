SPECIFICATION Spec
CONSTANTS
    Accounts = {a, b}
    Active = a
    MaxOps = 3
    MaxRefreshes = 2
    MaxRuntime = 1
    MaxLosses = 1
    MaxCrashes = 1
CHECK_DEADLOCK FALSE
INVARIANTS TypeOK ReceiptCommitted OnlyHeldRuns
PROPERTIES StoresForward Converges

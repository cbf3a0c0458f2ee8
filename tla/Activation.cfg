SPECIFICATION LiveSpec
CONSTANTS
  Accounts = {a, b}
  Runtimes = {r}
  None = None
  MaxOutside = 1
  MaxFaults = 2
  MaxOps = 1
  LateErrors = {"Rotation"}
  SwiftDegrades = FALSE
INVARIANTS TypeOK RuntimeCurrent NoUnguardedSplit
PROPERTIES PreparedOutcome ForeignTokenSurvives NoActivationOverUnresolved Resolves
CHECK_DEADLOCK FALSE

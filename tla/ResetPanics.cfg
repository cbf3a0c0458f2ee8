SPECIFICATION Spec
CONSTANTS
  Accounts = {a}
  Operations = {o1}
  Generated = {r1}
  None = None
  MaxCredit = 2
  TerminalCap = 1
  UnresolvedCap = 1
  MaxEvents = 1
SYMMETRY Symmetry
INVARIANT UpdateFindsItsAttempt

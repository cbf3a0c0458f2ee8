SPECIFICATION Spec
CONSTANTS
    Accounts = {a, b}
    None = None
    MaxOutside = 2
INVARIANTS TypeOK SplitGuarded
PROPERTIES ConfirmedTrue OperationSettles SupersededStops

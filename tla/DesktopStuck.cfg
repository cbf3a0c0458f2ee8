SPECIFICATION Spec
CONSTANTS
    Versions = {1}
    Bad = {}
    MaxDirs = 8
    MaxFaults = 1
    MaxLaunches = 0
CHECK_DEADLOCK FALSE
PROPERTY CleanupRetried

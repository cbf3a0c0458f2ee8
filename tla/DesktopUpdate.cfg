SPECIFICATION Spec
CONSTANTS
    Versions = {1, 2}
    Bad = {1}
    MaxDirs = 8
    MaxFaults = 2
    MaxLaunches = 1
CHECK_DEADLOCK FALSE
INVARIANTS TypeOK UpdateKept
PROPERTIES AppInstalled JournalCloses

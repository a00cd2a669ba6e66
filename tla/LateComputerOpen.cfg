SPECIFICATION ComputerSpec
CONSTANTS
    ComputerSessions = {s1, s2}
    MaxGenerations = 3
    MaxRequests = 1
INVARIANT ReleasedContextUnused
CHECK_DEADLOCK FALSE

SPECIFICATION DrowsySpec
CONSTANTS
    Agents = {a1}
    Turns = {t1}
    Paths = {root, p1}
    RootPath = root
    Root = user
    NoTurn = noTurn
    NoOwner = nobody
    InitialLimit = 1
    Limits = {2}
    MaxDepth = 1
    MaxPerTurn = 2
    MaxMail = 1
    PersistFaults = FALSE
INVARIANTS SleepIsDurable
CHECK_DEADLOCK FALSE

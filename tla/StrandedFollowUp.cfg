SPECIFICATION SleeperSpec
CONSTANTS
    Agents = {a1}
    Turns = {t1}
    Paths = {root, p1, p2}
    RootPath = root
    Root = user
    NoTurn = noTurn
    NoOwner = nobody
    InitialLimit = 1
    Limits = {1}
    MaxDepth = 1
    MaxPerTurn = 2
    MaxMail = 1
    PersistFaults = FALSE
INVARIANTS FollowUpsRun
CHECK_DEADLOCK FALSE

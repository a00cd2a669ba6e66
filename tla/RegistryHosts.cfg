SPECIFICATION HostsSpec
CONSTANTS
    Agents = {a1, a2}
    Turns = {t1}
    Paths = {root, p1, p2}
    RootPath = root
    Root = user
    NoTurn = noTurn
    NoOwner = nobody
    InitialLimit = 1
    Limits = {2}
    MaxDepth = 2
    MaxPerTurn = 2
    MaxMail = 1
    PersistFaults = FALSE
INVARIANTS SlotAccounting PathOwnership AbortedTurnSettled SleepIsDurable
PROPERTIES SlotPoolImplemented
SYMMETRY Symmetry
CHECK_DEADLOCK FALSE

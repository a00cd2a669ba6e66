SPECIFICATION ClosingSpec
CONSTANTS
    Agents = {a1, a2}
    Turns = {}
    Paths = {root, p1,p2}
    RootPath = root
    Root = user
    NoTurn = noTurn
    NoOwner = nobody
    InitialLimit = 2
    Limits = {1}
    MaxDepth = 2
    MaxPerTurn = 2
    MaxMail = 1
    PersistFaults = FALSE
INVARIANTS ClosedIsInert ClosedFromTheLeaves
PROPERTIES CloseReturns SlotsComeBack
CHECK_DEADLOCK FALSE

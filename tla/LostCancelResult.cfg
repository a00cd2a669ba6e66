SPECIFICATION RepositorySpec
CONSTANTS
    MaxWorkers = 2
    MaxRows = 1
    Cancellers = {c1, c2}
    NoBarrier = noBarrier
INVARIANT OneTerminalEach
CHECK_DEADLOCK FALSE

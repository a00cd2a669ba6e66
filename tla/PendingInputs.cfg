SPECIFICATION Spec
CONSTANTS
    CountLimit = 3
    ByteLimit = 4
    Keys = {}
    NoKey = noKey
    Submitters = {s1, s2}
    Sizes = {1, 2}
    MaxInputs = 5
    MaxEpoch = 1
INVARIANTS OneBatch BudgetExact InputsInOrder AcceptedIsKept ResetIsolates OneSnapshot
CHECK_DEADLOCK FALSE

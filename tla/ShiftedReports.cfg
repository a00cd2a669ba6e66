SPECIFICATION Spec
CONSTANTS
    Configurations <- PreemptingParent
    KillPoints <- SafePoints
    CountLimit = 2
    ByteLimit = 3
    Keys = {k1}
    NoKey = noKey
    Sizes = {1}
    MaxInputs = 4
    MaxTurns = 2
    MaxEpoch = 1
INVARIANT GuidanceKept
CHECK_DEADLOCK FALSE

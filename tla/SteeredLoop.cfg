SPECIFICATION Spec
CONSTANTS
    Configurations <- SeparateHosts
    KillPoints <- SafePoints
    CountLimit = 2
    ByteLimit = 3
    Keys = {k1}
    NoKey = noKey
    Sizes = {1, 2}
    MaxInputs = 4
    MaxTurns = 2
    MaxEpoch = 1
INVARIANTS GuidanceKept SubmittedInOrder NoticesOfConversation NothingStranded
CHECK_DEADLOCK FALSE

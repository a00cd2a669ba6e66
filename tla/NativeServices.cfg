SPECIFICATION Spec
CONSTANTS
    Threads = {t1, t2, t3}
    NoThread = noThread
    MaxReferences = 2
    Closers = {c1, c2}
    MaxUpdates = 3
    KeychainClients = {k1, k2, k3}
    Credentials = {v1}
    NoCredential = noCredential
    Contents <- ClipboardContents
    MaxCopies = 4
    AudioSizes = {0, 1, 2, 4}
    AudioLimit = 4
    AudioBuffers = 2
    MaxSamples = 4
    MaxOperations = 3
    SourceLimit = 1
    SinkLimit = 1
    MaxCalls = 3
    Attempts = 2
    MaxCallbacks = 3
    MaxWorkers = 2
    MaxRows = 1
    Cancellers = {c1, c2}
    NoBarrier = noBarrier
    Engines = {e1, e2}
    HostContexts = {h1}
    NoContext = noContext
    MaxPendingId = 2
    MaxCommands = 3
    ComputerSessions = {s1, s2}
    MaxGenerations = 3
    MaxRequests = 1
INVARIANTS
    RuntimeReady BlocksFindTheirContext RacingWritersSucceed ImageIsAnnounced CaptureIsWhole
    AnswerToOwnRequest FreeLeavesNothing QuietAfterCancelAll AnsweredByOwnRequest ReplacedContextIdle GenerationsMatchLeases
PROPERTIES
    MonitorCloses ServiceImplemented CallsReturn ResourceFollowsClient ContractKept DestroyReturns SetBrowserReturns
CHECK_DEADLOCK FALSE

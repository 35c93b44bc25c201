SPECIFICATION MCSpec
CONSTANTS
    Peers = {"reference", "anchor"}
    Dist <- MCDist
    WildOffset = 5000
    NSamples = 4
    MmPerKiloTick = 2340
    MaxTotal = 65000
    TxMin = 14000
    TxMax = 19000
    Seed = 16385
    Ideals <- MCIdeals
    Requests <- MCRequests
    AntTx = {16500}
    MaxCommands = 2
    MaxReboots = 1
INVARIANTS
    AnswerIsOwn
    Calibrated
    FailureChangesNothing
    SavedIsInForce
PROPERTIES
    ConsoleComesBack
CHECK_DEADLOCK FALSE

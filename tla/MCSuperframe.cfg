SPECIFICATION Spec
CONSTANTS
    Period = 780
    Guard = 6
    Occupancy = 6
    MaxMisses = 4
    Wrap <- MCWrap
    Preamble = 5
    Body = 2
    Margin = 20
    ArmLead = 6
    Turnaround = 8
    StepBudget = 40
    SolveBudget = 600
    GwTxTimeout = 43
    Delays <- MCDelays
    AnchorTxTimeout = 71
    Lookahead = 2
    NodeTxTimeout = 32
    Pause = 20
    EnumSlot = 117
    Slots = {0, 7}
    Deadline = 2730
    Exchange = 145
    MaxExchanges = 64
    Saves = {40}
    Start <- MCStart
    GwOffsets <- MCGwOffsets
    Phases <- MCPhases
    Spells <- MCSpells
    MaxFrames = 6
    MaxWork = 2
    MaxFaults = 1
    FaultFrames = 2
INVARIANTS
    AnswersSpareBeacon
    RefusalIsPredicted
    RetryGetsThrough
    BeaconIsReady
PROPERTIES
    BatchKeepsLock
CHECK_DEADLOCK FALSE

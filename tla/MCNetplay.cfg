SPECIFICATION FairSpec
CONSTANTS
    Inputs <- Buttons
    Window = 2
    MaxInputDelay = 1
    RingSpare = 1
    History = 5
    HistorySpare = 0
    MaxEntries = 2
    K = 2
    CpSlots = 2
    MaxSums = 1
    CatchUpPerTick = 1
    Relay = FALSE
    Busy <- PlayerZeroPresses
    AutoDelayed <- SecondAuto
    Delays <- UnevenDelays
    Faults <- FirstFrame
    MayTimeOut = TRUE
    Retain = 3
    InFlight <- TwoInFlight
    MaxFrame = 5
INVARIANTS
    SessionInv
    EffectsMatch
PROPERTIES
    RefinesLockstep
    MatchIsPlayed
    FaultIsFound
CHECK_DEADLOCK FALSE

SPECIFICATION RelaySpec
CONSTANTS
    Inputs <- Buttons
    Window = 1
    MaxInputDelay = 0
    RingSpare = 2
    History = 5
    HistorySpare = 0
    MaxEntries = 3
    K = 1
    CpSlots = 4
    MaxSums = 1
    CatchUpPerTick = 1
    Relay = TRUE
    Busy <- ZeroPressesOnce
    AutoDelayed <- NoAuto
    Delays <- NoDelays
    Faults <- FirstFrame
    MayTimeOut = FALSE
    Retain = 3
    InFlight <- OneLossyPeer
    MaxFrame = 3
    RelaySlots = 4
    RelayPerTick = 2
INVARIANTS
    RelayInv
    OneFaultIsRepaired
CHECK_DEADLOCK FALSE

SPECIFICATION FairSpec
CONSTANTS
    d1 = d1
    d2 = d2
    None = None
    MaxEpoch = 3
    Deltas <- TwoDeltas
    QueueCap = 2
INVARIANTS
    SnapshotInv
PROPERTIES
    NewestDeltaWins
    LanesServed
CHECK_DEADLOCK FALSE

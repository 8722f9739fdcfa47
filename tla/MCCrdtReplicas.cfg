SPECIFICATION ReplicaSpec
CONSTANTS
    Props <- Keys
    MapEdits <- AllMapEdits
    Splices <- AllSplices
    MarkEdits <- AllMarks
    Replicas <- Three
    MaxEdits <- One
INVARIANTS
    ReplicaInv
    Converged
    CanonicalOrder
CHECK_DEADLOCK FALSE

SPECIFICATION Spec
CONSTANTS
    Props <- Keys
    MapEdits <- Puts
    Splices <- NoSplices
    MarkEdits <- NoMarks
    Replicas <- HubAndOne
    MaxEdits <- HubMore
    MaxJoins = 1
    QueueCap = 1
    MayWrite <- JustOne
    BloomFalse <- Nobody
INVARIANTS
    NextRoundRecovers
CHECK_DEADLOCK FALSE

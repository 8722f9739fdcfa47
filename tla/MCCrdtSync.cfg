SPECIFICATION FairSpec
CONSTANTS
    Props <- Keys
    MapEdits <- Puts
    Splices <- NoSplices
    MarkEdits <- NoMarks
    Replicas <- HubAndOne
    MaxEdits <- HubMore
    MaxJoins = 2
    QueueCap = 8
    MayWrite <- JustOne
    BloomFalse <- HubFirst

    
PROPERTIES
    RefinesReplicas
    FallsSilent
CHECK_DEADLOCK FALSE

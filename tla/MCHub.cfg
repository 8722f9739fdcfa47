SPECIFICATION FairSpec
CONSTANTS
    c1 = c1
    c2 = c2
    Conns <- TwoConns
    Limits = {0, 1}
    QueueCap = 1
    MaxCasts = 2
INVARIANTS
    HubInv
PROPERTIES
    NoSendAfterClose
    RefinesDrainGate
    CloseCompletes
    PumpsEndTogether
CHECK_DEADLOCK FALSE

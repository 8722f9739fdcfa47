SPECIFICATION FairSpec
CONSTANTS
    s1 = s1
    s2 = s2
    o1 = o1
    g1 = g1
    None = None
    Slots <- TwoSlots
    Telemetry <- OneSlot
    Owners <- OneOwner
    Guests <- OneGuest
INVARIANTS
    ObserversInv
    ClosedIsLast
PROPERTIES
    CloseFinishes
CHECK_DEADLOCK FALSE

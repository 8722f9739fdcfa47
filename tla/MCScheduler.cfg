SPECIFICATION FairSpec
CONSTANTS
    t1 = t1
    j1 = j1
    c1 = c1
    Tasks <- OneTask
    Jobs <- OneJob
    Stoppers <- OneCaller
    GraceStoppers <- OneCaller
    OneShot <- NoTasks
    Watched <- OneTask
    Delayed <- OneTask
    MaxAttempts <- Unlimited
    AttemptCap = 1
    MaxFires = 1
INVARIANTS
    SchedulerInv
PROPERTIES
    RefinesDrainGate
    GiveUpDrains
    ParentCancelUnwinds
    StopReturns
CHECK_DEADLOCK FALSE

CONSTANTS
    Ticks = {t1}
    Attempts = {a1, a2, a3}
    NoAttempt = none
    MaxLoops = 2
    TokenBudget = 9
    CostPerRun = 1
    MaxTime = 18
    MaxExternal = 1
    ManualKinds = {}
    ArgvForms = {TRUE}
    SlowWorkers = {}
    TickCrashes = FALSE
    SlugTicks = FALSE
    OwnerChecks = FALSE
    OwnerStates = {}
    OwnerCategories = {}
SPECIFICATION FairSpec
INVARIANTS
    TypeOK
    SoleWorker
    BuriedOnce
    NeverForOneAlone
    OneBriefPerMatter
PROPERTIES
    DeadWorkersAreBuried
    MissionEnds
CHECK_DEADLOCK FALSE

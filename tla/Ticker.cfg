SPECIFICATION FairSpec
CONSTANTS
    m = m
    n = n
    x = x
    BASE = 1
    MAX_STEP = 2
    CEILING = 2
    Burst = {0, 2}
    LastOfBurst = 2
    Every = 2
    Misses = 2
    DueLimit = 2
    Own = {m, n}
    Others = {x}
    MaxNews = 2
    Scenes <- SchedulesOrQueue
INVARIANTS
    TypeOK
    UpgradeOwed
    NoStaleCooldown
PROPERTIES
    RedialGoesOn
    UpgradeGoesOn
    RowsAreTried

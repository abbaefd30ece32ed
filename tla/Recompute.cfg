SPECIFICATION FairSpec
CONSTANTS
    h1 = h1
    h2 = h2
    t1 = t1
    t2 = t2
    Handlers = {h1, h2}
    Threads = {t1, t2}
    Loop = loop
    MaxWrites = 2
    MaxFailures = 1
    MaxCrashes = 1
INVARIANTS
    TypeOK
    RunsExclusive
    OneThread
    IdleMeansInSync
PROPERTIES
    GoldNeverGoesBack
    PromiseKept
    WritesReachGold
    RecomputeEnds

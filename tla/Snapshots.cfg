SPECIFICATION FairSpec
CONSTANTS
    l1 = l1
    l2 = l2
    b = b
    loop = loop
    backfill = backfill
    Legs = {l1, l2}
    Boxes = {b}
    BoxOf <- MCBoxOf
    Collectors = {loop, backfill}
    MaxRuns = 2
INVARIANTS
    TypeOK
    StatusIsRight
    CurrentWhenAnyOpen
PROPERTIES
    LegsLive
    ClosesReachSilver

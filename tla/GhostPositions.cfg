SPECIFICATION Spec
CONSTANTS
    l1 = l1
    l2 = l2
    b = b
    loop = loop
    backfill = backfill
    Legs = {l1}
    Boxes = {b}
    BoxOf <- MCBoxOf
    Collectors = {loop, backfill}
    MaxRuns = 2
INVARIANTS
    CurrentIsLatest




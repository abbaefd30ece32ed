SPECIFICATION Spec
CONSTANTS
    Kinds <- MCKinds
    Insts = {i1, i2}
    i1 = i1
    i2 = i2
    DayLength = 2
    Lookback = 0
    PageLimit = 1
    MaxPages = 2
    Horizon = 3
    MaxRecords = 2
    MaxFaults = 1
SYMMETRY Symmetry
INVARIANTS
    HistoryHeals

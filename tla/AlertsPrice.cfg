SPECIFICATION FairSpec
CONSTANTS
    Workers = {w1, w2}
    Codes = {"a", "c"}
    Situations <- MCSituations
    SettingValues = {"off", "on"}
    Expiries = {1}
    Horizon = 0
    Lead <- MCNoLead
    Grace = 0
    Rearm = 2
    EndsMayShrink = FALSE
    MaxFaults = 1
    w1 = w1
    w2 = w2
INVARIANTS
    OncePerCrossing
    CriticalNotSwallowed
PROPERTIES
    AlertsGetOut

SPECIFICATION Spec
CONSTANTS
    Workers = {w1, w2}
    Codes = {"e", "f"}
    Situations <- MCNoSituation
    SettingValues = {"none", "on"}
    Expiries = {3, 4}
    Horizon = 6
    Lead <- MCLead
    Grace = 2
    Rearm = 0
    EndsMayShrink = FALSE
    MaxFaults = 2
    w1 = w1
    w2 = w2
SYMMETRY Symmetry
INVARIANTS
    TypeOK
    OncePerExpiry

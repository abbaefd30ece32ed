SPECIFICATION Spec
CONSTANTS
    l1 = l1
    l2 = l2
    u = u
    x = x
    y = y
    a1 = a1
    a2 = a2
    Admins = {a1, a2}
    Legs = {l1}
    NumBoxes = 3
    NumSeeded = 3
    SeedName <- MCThreeSeedName
    RulePref <- MCOneLegRulePref
    Names = {u, x, y}
    MaxChangesets = 3
INVARIANTS
    NewestLinkIsCurrent
    StaleGoldIsSyncing
PROPERTIES
    LinksAppendOnly

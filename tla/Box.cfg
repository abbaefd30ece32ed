SPECIFICATION Spec
CONSTANTS
    l1 = l1
    l2 = l2
    u = u
    x = x
    y = y
    a1 = a1
    a2 = a2
    Admins = {a1}
    Legs = {l1, l2}
    NumBoxes = 3
    NumSeeded = 2
    SeedName <- MCSeedName
    RulePref <- MCRulePref
    Names = {u, x}
    MaxChangesets = 5
INVARIANTS
    TypeOK
    BoardForeseesPipeline
    PinsAreActive
    KeysNeverCollide
    TypedNamesUnique
PROPERTIES
    DeleteEmptiesBox
    UndoRestores

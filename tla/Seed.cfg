SPECIFICATION Spec
CONSTANTS
    None = None
    Ids = {1, 2, 3, 4, 5, 6}
    Names = {"u", "x"}
    Matches = {"puts"}
    Codes = {"price"}
    Values = {1, 2}
    Folders <- MCFolders
    MaxEdits = 4
    MaxLoads = 2
    MaxLinks = 1
PROPERTIES
    RestLeftAlone
    SeedSettles
CHECK_DEADLOCK FALSE

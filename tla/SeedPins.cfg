SPECIFICATION Spec
CONSTANTS
    None = None
    Ids = {1, 2, 3, 4, 5, 6}
    Names = {"u", "x"}
    Matches = {"puts"}
    Codes = {"price"}
    Values = {1, 2}
    Folders <- MCFolders
    MaxEdits = 2
    MaxLoads = 1
    MaxLinks = 1
PROPERTIES
    PinsSurvive

CHECK_DEADLOCK FALSE

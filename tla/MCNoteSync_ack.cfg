SPECIFICATION Spec
CONSTANTS
    Ids <- MCIds
    None = None
    PageSize = 2
    Candidates = 1
    MaxEdits = 2
    MaxActs = 0
    MaxFaults = 0
PROPERTIES
    AckKeepsConcurrentEdit

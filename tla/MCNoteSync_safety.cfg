SPECIFICATION Spec
CONSTANTS
    Ids <- MCIds
    None = None
    PageSize = 1
    Candidates = 1
    MaxEdits = 2
    MaxActs = 1
    MaxFaults = 1
INVARIANTS
    TypeOK
    BaseSeen
    CleanRowAgrees
    NoLostEdit
    OneRowPerNote
    CursorSound
PROPERTIES
    NoRemoteClobber

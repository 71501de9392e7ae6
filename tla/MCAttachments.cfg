SPECIFICATION Spec
CONSTANTS
    Ids = {i1, i2, i3}
    Docs = {d1, d2}
    None = None
    MaxRemote = 1
    MaxUploads = 1
    MaxRemoved = 1
    MaxSaves = 1
    MaxRestores = 1
    MaxFaults = 1
PROPERTIES
    PendingKept
    UploadKeepsApplied
    SetConverges

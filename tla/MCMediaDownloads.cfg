SPECIFICATION Spec
CONSTANTS
    Images = {i1}
    Attachs = {a1}
    Workers = {w1, w2}
    Viewers = {v1}
    Capacity = 1
    None = None
    MaxBatches = 2
    MaxStops = 1
    MaxViews = 1
    MaxFaults = 1
CHECK_DEADLOCK FALSE
INVARIANTS
    FilesAgree
PROPERTIES
    NothingAfterStop
    ServedAfterWait
    WaitersReturn
    StopReturns

SPECIFICATION Spec
CONSTANTS
    n1 = n1
    n2 = n2
    img = img
    att = att
    v1 = v1
    v2 = v2
    Notes = {n1, n2}
    Images = {img}
    Attachments = {att}
    Holds <- FileHolds
    Versions = {v1, v2}
    None = None
    Torn = Torn
    CacheMax = 0
    MaxWorkers = 2
    MaxChanges = 2
    MaxFaults = 1
    MaxQueued = 1
    MaxGen = 2
    LastChange = 2
SYMMETRY Alike
CHECK_DEADLOCK FALSE
INVARIANTS
    ReadyIsTarget
    OneGeneration
    ReadableOnDisk
PROPERTIES
    OneSnapshot
    LossAnnounced

SPECIFICATION FairSpec
CONSTANTS
    n1 = n1
    n2 = n2
    img = img
    att = att
    v1 = v1
    v2 = v2
    Notes = {n1}
    Images = {img}
    Attachments = {}
    Holds <- ImageHold
    Versions = {v1, v2}
    None = None
    Torn = Torn
    CacheMax = 1
    MaxWorkers = 2
    MaxChanges = 3
    MaxFaults = 1
    MaxQueued = 0
    MaxGen = 6
    LastChange = 2
CHECK_DEADLOCK FALSE
PROPERTIES
    EventuallyReady

SPECIFICATION Spec
CONSTANTS
    Ids = {n1, n2, n3, n4}
    Titles = {t1, t2}
    None = None
    Bindings = FALSE
    MaxKept = 1
    MaxRemote = 1
    MaxEdits = 0
    MaxFaults = 1
    MaxRestored = 1
PROPERTIES
    TreeConverges
    RestoredConverges

SPECIFICATION Spec
CONSTANTS
    Ids = {n1, n2, n3}
    Titles = {t1, t2}
    None = None
    Bindings = TRUE
    MaxKept = 1
    MaxRemote = 1
    MaxEdits = 2
    MaxFaults = 0
    MaxRestored = 0
SYMMETRY SymmetryOfNames
INVARIANTS
    OneRowPerNotebook
    AcceptedBeforeDownload
    CleanRowAgrees
    AllShown
    CyclesCutOnce

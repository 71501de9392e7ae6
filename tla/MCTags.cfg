SPECIFICATION Spec
CONSTANTS
    Names = {g1, g2}
    None = None
    MaxRemote = 2
    MaxEdits = 2
    MaxFaults = 1
    MaxRefused = 1
INVARIANTS
    CleanTagOnServer
PROPERTIES
    TombstonesArrive

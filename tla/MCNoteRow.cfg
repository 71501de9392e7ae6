SPECIFICATION Spec
CONSTANTS
    r1 = r1
    r2 = r2
    Requests = {r1, r2}
    Limit = 2
    MaxTexts = 2
    MaxEdits = 3
    MaxFaults = 1
SYMMETRY Alike
CHECK_DEADLOCK FALSE
INVARIANTS
    LatestKept
PROPERTIES
    ReplacedKept

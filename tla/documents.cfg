SPECIFICATION Spec
CONSTANTS
    Procs = {p1, p2}
    MaxFaults = 1
    MaxLosses = 1
    None = None
    Outlines <- MCOutlines
    MaxRevisions = 2
    MaxBatches = 2
    Manuscripts = {m1}
    Sound = {m1}
    Kinds = {"plain", "report"}
    MaxConfig = 2
    MaxRenderer = 2
    MaxBuilds = 2
    MaxClock = 3
INVARIANTS
    RevisionsOnce
    DecidedCurrent
SYMMETRY Symmetry
\* The bounds stop each service.
CHECK_DEADLOCK FALSE

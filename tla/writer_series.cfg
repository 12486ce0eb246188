SPECIFICATION FairSpec
CONSTANTS
    Procs = {p1, p2}
    None = None
    Bodies = {"x"}
    MaxVersion = 3
    MaxEvents = 2
    MaxFaults = 2
    MaxLosses = 2
INVARIANT
    SeriesSound
PROPERTY
    Completes
\* A series ends with its numbers.
CHECK_DEADLOCK FALSE

SPECIFICATION Spec
CONSTANTS
    Clients = {c1, c2}
    Questions = {"q", "r"}
    Approved <- ApprovedAtFirst
    Contents = {1}
    ExhibitIds = {1, 2}
    Limit = 1
    Artifacts <- NoArtifacts
    Sources <- BareSource
    None = None
    Legacy = TRUE
    MaxMoves = 1
    MaxTime = 1
    MaxDamage = 0
INVARIANT StoresReadable
\* The bounds stop the registry.
CHECK_DEADLOCK FALSE

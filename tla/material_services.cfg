SPECIFICATION MCSpec
CONSTANTS
    Procs = {p1, p2}
    None = None
    MaxCrashes = 1
    Attempts = {a1, a2}
    Captures = {c1, c2}
    PairLimit = 1
    Targets <- MCTargets
    Address <- MCAddress
    Origin <- MCOrigin
    MaxChildRuns = 2
    MaxDamage = 1
    Reacquired <- MCReacquired
    Requests <- MCRequests
    MaxAttempts = 2
    MaxMoves = 1
    Readers <- MCReaders
    Refs <- MCRefs
    Question = "q"
    PackageRuns <- MCPackageRuns
    SourceOf <- MCSourceOf
    Figures <- MCFigures
    PackageIds = {p1, p2}
    MaxSnapshots = 2
    MaxExhibits = 2
    MaxLosses = 1
    FindingRuns <- MCFindingRuns
    ParentOf <- MCParentOf
    Candidates <- MCCandidates
    Misbound <- MCMisbound
    Misshapen <- MCMisbound
    Undocumented <- MCUnrelated
    Unrelated <- MCUnrelated
    RowLimit = 3
    ChildLimit = 2
    MaxStateMoves = 1
    MaxMaterialLosses = 2
INVARIANTS
    ResultMatchesLedger
    SettledByItsCall
    OneResult
    PackagesCohere
PROPERTY
    NothingLost
SYMMETRY Symmetry
\* The bounds stop each service.
CHECK_DEADLOCK FALSE

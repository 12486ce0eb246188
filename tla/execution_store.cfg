SPECIFICATION Spec
CONSTANTS
    Processes = {p1, p2}
    Runs <- MCRuns
    Managed <- MCManaged
    Parent <- MCParent
    Handoffs <- RivalResults
    MaxCrashes = 1
    NoRun = none
    NoHandoff = none
    Jobs <- SharedContents
    RoleLimit = 1
    MaxFaults = 1
    Free = none
    NoCall = none
INVARIANTS
    ResultsRetained
    NoDangling
PROPERTIES
    ManagedRunsEnd
    NothingAfterTheEnd
\* The processes and the Runs come to an end.
CHECK_DEADLOCK FALSE

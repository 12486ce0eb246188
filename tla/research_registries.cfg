SPECIFICATION Spec
CONSTANTS
    None = None
    Callers <- MCCallers
    Profiles <- MCProfiles
    Codes <- MCCodes
    Faults <- MCFaults
    Policies <- MCPolicies
    Items = {1}
    Minimum = 1
    Retries = 1
    Repairs = 1
    MaxVersions = 2
    MaxRunMoves = 1
    MaxRuns = 2
    MaxModelRuns = 1
    MaxOthers = 1
    Clients = {a1, a2}
    RecordQuestions <- MCRecordQuestions
    ApprovedIn <- MCApprovedIn
    Contents = {1}
    Artifacts <- MCArtifacts
    Sources <- MCSources
    ExhibitIds = {1, 2}
    PageLimit = 1
    MaxStateMoves = 1
    MaxTime = 1
    MaxDamage = 1
    Readers <- MCReaders
    QuestionLimit = 2
    CandidateLimit = 2
    RequestLimit = 2
    SynthesisLimit = 1
    MaxCandidates = 3
    MaxRivals = 2
    MaxResumes = 1
    Actors = {a1, a2}
    Configs <- MCConfigs
    FirstConfig = "c1"
    Baseline <- MCBaseline
    Questions <- MCQuestions
    MaxMaps = 3
    MaxAdvances = 2
INVARIANTS
    
    ListingComplete
    ReviewSeesAll
    ResumeExplains
    NothingForgotten
PROPERTIES
    RevisionsFollow
SYMMETRY Symmetry
\* The bounds stop each registry.
CHECK_DEADLOCK FALSE

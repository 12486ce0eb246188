SPECIFICATION Spec
CONSTANTS
    Readers = {r1}
    None = None
    QuestionLimit = 2
    CandidateLimit = 2
    RequestLimit = 2
    SynthesisLimit = 1
    MaxCandidates = 3
    MaxRivals = 2
    MaxResumes = 1
INVARIANT ResumeOneState
\* The bounds stop the readers.
CHECK_DEADLOCK FALSE

SPECIFICATION Spec
CONSTANTS
    Processes = {p1, p2}
    Requests <- MCRequests
    Responses <- RivalResponses
    Refused = {"q1"}
    MaxHead = 1
    MaxFaults = 1
    NoResponse = None
    Inputs <- Actions
    MaxActions = 2
    MaxMade = 2
    MaxCrashes = 1
    NoInput = None
INVARIANTS
    CommitsAreOwned
    EffectsAuthorized
    ReceiptsTellTruth
PROPERTIES
    ClaimsAreSettled
    AnswersAreFinal
\* The bounds stop the actions.
CHECK_DEADLOCK FALSE

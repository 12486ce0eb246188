SPECIFICATION Spec
CONSTANTS
    Actors = {a1, a2}
    Participants = {x, y}
    None = None
INVARIANTS
    RoundTwoRests
    BatchesResume
    AskedAndCounted
PROPERTY
    HoldsWhenStored
SYMMETRY Symmetry
\* The bounds stop each registry.
CHECK_DEADLOCK FALSE

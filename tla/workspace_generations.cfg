SPECIFICATION FairSpec
CONSTANTS
    Procs = {p1, p2}
    Kids = {k1}
    FirstConfig <- MCConfig
    FirstProfile <- MCFirstProfile
    Requests = {"base", "next"}
    ProfilesFor <- MCProfilesFor
    Metadata = {"none", "generated"}
    MaxAttempts = 2
    MaxFaults = 1
INVARIANT GenerationSound
PROPERTIES StrengtheningKept Settles GenSpec
CHECK_DEADLOCK FALSE

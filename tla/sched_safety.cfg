SPECIFICATION Spec
CONSTANTS
    p1 = p1
    p2 = p2
    p3 = p3
    here = here
    there = there
    elsewhere = elsewhere
    Nobody = Nobody
    Job = {"tick", "discovery"}
    Process = {p1, p2}
    Host <- OneHost
    LongJobs = FALSE
    LongOutages = TRUE
    PidReturns = FALSE
    ResetsOnStart = FALSE
    MaxLive = 2
    MaxExits = 4
INVARIANTS
    TypeOK
    MutualExclusion
CHECK_DEADLOCK FALSE
PROPERTIES
    LiveLocksHold

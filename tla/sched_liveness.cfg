SPECIFICATION FairSpec
CONSTANTS
    p1 = p1
    p2 = p2
    p3 = p3
    here = here
    there = there
    elsewhere = elsewhere
    Nobody = Nobody
    Job = {"tick", "discovery"}
    Process = {p1, p2}
    Host <- OneHost
    LongJobs = TRUE
    LongOutages = TRUE
    PidReturns = TRUE
    ResetsOnStart = TRUE
    MaxLive = 1
    MaxExits = 2
PROPERTIES
    JobsKeepRunning

SPECIFICATION Spec
CONSTANTS
    MaxRevisions = 1
    Pipeline <- MCPipeline
    Chapter <- MCChapter
    Key <- MCKey
    Authored <- MCAuthored
    Cases <- MCCases
    Listed <- MCListed
    MaxCandidates = 2
    MaxRounds = 1
    Context = 1
    MaxTargets = 2
    MaxFindings = 1
    MaxCrashes = 1
INVARIANTS
    TypeOK
    FiguresAreCleared
    RejectedDraftsLeaveNoTrace
    PassedDraftsHold
CHECK_DEADLOCK FALSE

\* Four agents, four items, one cluster a cycle and two in all; agents and jobs crash.
CONSTANTS
    Item <- MCItem
    Origin <- MCOrigin
    Identity <- MCIdentity
    Reports <- MCReports
    Agent = {"arxiv_agent", "conference_agent", "benchmark_agent", "community_agent"}
    Finds <- MCFinds
    LoadLimit = 3
    Stated = {"mature"}
    Asked = {"IGNORE", "REWRITE_SECTION"}
    MaxKnown = 2
    Crashes = TRUE
    MinScientific = 1
    MinSources = 2
    Cosine <- MCCosine
    SameAt = 94
    JoinAt = 86
    MaxClusters = 1
SPECIFICATION Spec
CHECK_DEADLOCK FALSE
INVARIANTS
    TypeOK
    EvidenceStaysInKind
    StructuralChangesAreEarned
    DuplicatesAreFolded
    GroupsHoldTogether
PROPERTY DecidedStaysDecided

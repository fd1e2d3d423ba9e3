SPECIFICATION Spec
CONSTANTS
    p1 = p1
    p2 = p2
    ch1 = ch1
    ch2 = ch2
    bib = bib
    Pipeline = {p1, p2}
    Key = {p1, p2}
    File = {ch1, ch2, bib}
    Branch = {"agent/one", "agent/two"}
    Recipient = {"editor", "author"}
    Target <- OwnChapters
    Earlier <- BothCite
    Written <- OneAdds
    BranchOf <- OwnBranches
    Concurrent = FALSE
    MaxRetries = 2
    MaxVersions = 2
    MaxCrashes = 1
    MaxBreaks = 1
INVARIANTS
    TypeOK
    OnlySharedFilesLeak
    RowsNameCommits
    RepeatsNeedABreak
PROPERTIES
    VersionsAreKept
CHECK_DEADLOCK FALSE

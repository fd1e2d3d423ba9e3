SPECIFICATION Spec
CONSTANTS
    MaxRevisions = 1
    Pipeline <- MCPipeline
    Claim <- MCClaim
    Strict <- MCStrict
    Cases <- MCCases
    Listing <- MCListing
    Registry <- MCRegistry
    Stem <- MCStem
    Brief <- MCBrief
    Authored <- MCAuthored
    Answer <- MCAnswer
    MaxPool = 2
    MaxTries = 2
    MaxAttempts = 2
    MaxCrashes = 1
INVARIANTS
    TypeOK
    VettedEntries
    CitationsNameTheirSources
    KeysStayApart
    SourcesAreEnteredOnce
CHECK_DEADLOCK FALSE

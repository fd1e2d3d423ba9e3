SPECIFICATION FairSpec
CONSTANTS
    MaxRevisions = 1
    FromStates <- SomeFrom
    ResetsRevisions = TRUE
    EmailEnabled = TRUE
    RevisionCap = 2
    MaxCrashes = 1
INVARIANTS
    TypeOK
    OnlyVerifiedShips
    OnlySanctionedShips
PROPERTIES
    ImplementsPublication
    CitationRefusalsAreRewritten
    ReworkEnds
    TicksMove
CHECK_DEADLOCK FALSE

SPECIFICATION FairSpec
CONSTANTS
    MaxRevisions = 2
    FromStates <- NoFrom
    ResetsRevisions = FALSE
    EmailEnabled = TRUE
    RevisionCap = 3
    MaxCrashes = 0
PROPERTIES
    ApprovedGoesOn
CHECK_DEADLOCK FALSE

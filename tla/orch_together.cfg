SPECIFICATION FairSpec
CONSTANTS
    c1 = c1
    c2 = c2
    MaxRevisions = 0
    Cluster = {c1, c2}
    Workers = {"verdict", "tick"}
    Operators = "never"
    Revives = TRUE
    Limit = 1
    MaxPipelines = 2
    RevisionCap = 2
INVARIANTS
    TypeOK
    WorkIsWithinBudget
PROPERTIES
    ActiveAreStepped

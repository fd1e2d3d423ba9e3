SPECIFICATION Spec
CONSTANTS
    c1 = c1
    c2 = c2
    MaxRevisions = 1
    Cluster = {c1}
    Workers = {"cycle"}
    Operators = "between"
    Revives = FALSE
    Limit = 2
    MaxPipelines = 2
    RevisionCap = 2
INVARIANTS
    OnePipelinePerCluster
PROPERTIES
    RowsFollowTable

SPECIFICATION Spec
CONSTANTS
    Order <- MCOrder
    Versions <- MCVersions
    Text <- MCText
    Indexer <- MCIndexer
    MinWords = 2
    Budget = 5
    MaxEdits = 2
    MaxFailures = 1
INVARIANTS
    KnowledgeIsCurrent
CHECK_DEADLOCK FALSE

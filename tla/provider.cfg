SPECIFICATION FairSpec
CONSTANTS
    k1 = k1
    k2 = k2
    Key = {k1, k2}
    Rejections <- SomeOrAll
    Call = {"verdict", "writer"}
    ChainLength = 2
    MaxConcurrency = 1
    MaxKeyAttempts = 2
    MaxAttempts = 2
    ChainSweeps = 2
INVARIANTS
    TypeOK
    GoodKeysHaveTheirTurn
PROPERTIES
    CallsEnd

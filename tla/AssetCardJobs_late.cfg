SPECIFICATION FairSpec
CONSTANTS
    Jobs = {j1, j2}
    Assets = {a1}
    HostOf <- MCHostOf
    Limit = 1
    NoAsset = NoAsset
    RecoverBeforeServing = FALSE
    DatabaseFaults = FALSE
    MaxRestarts = 0
INVARIANTS
    ActiveWithinLimit
PROPERTIES
    EveryJobEnds

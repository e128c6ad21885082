SPECIFICATION FairSpec
CONSTANTS
    a1 = a1
    a2 = a2
    old = old
    t1 = t1
    Targets = {t1}
    Assets <- MCAssets
    AssetsOf <- MCAssetsOf
    HostOf <- MCHostOf
    OldCards = {old}
    RefreshSource = old
    ProcessWorkers = 1
    NoAsset = NoAsset
    RecoverBeforeServing = FALSE
    DatabaseFaults = TRUE
    MaxCrashes = 1
INVARIANTS
    RemovalsAreSafe
    FinishedRunIsQuiet
    CompletionIsTrue
PROPERTIES
    RunEnds

SPECIFICATION Spec
SYMMETRY MCSymmetry
CONSTANTS
    Jobs = {j1, j2}
    Assets = {a1, a2}
    HostOf <- MCHostOf
    Limit = 2
    NoAsset = NoAsset
    RecoverBeforeServing = TRUE
    DatabaseFaults = TRUE
    MaxRestarts = 1
INVARIANTS
    OneBuilderPerAsset
    AcknowledgedCancelSavesNothing
    CardsAndNames

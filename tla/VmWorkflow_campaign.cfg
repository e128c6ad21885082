SPECIFICATION Spec
SYMMETRY RowSymmetry
CONSTANTS
    v1 = v1
    v2 = v2
    Workflows = {v1, v2}
    Assets = {a1}
    Task = Task
    Existing = Existing
    Kinds <- MCCampaigns
    Threads = {t1, t2}
    None = None
    ConnectDuringRequest = FALSE
    MaxCrashes = 0
    MaxTroubles = 1
INVARIANTS
    WaitingCaseHasWorkflow

SPECIFICATION FairSpec
CONSTANTS
    v1 = v1
    v2 = v2
    Workflows = {v1}
    Assets = {a1, a2}
    Task = Task
    Existing = Existing
    Kinds <- MCAnyKind
    Threads = {t1, t2}
    None = None
    ConnectDuringRequest = FALSE
    MaxCrashes = 1
    MaxTroubles = 1
INVARIANTS
    NothingRunsTwice
    EndIsTruthful
PROPERTIES
    WorkflowEnds

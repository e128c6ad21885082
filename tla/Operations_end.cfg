SPECIFICATION Spec
CONSTANTS
    Jobs = {j1, j2}
    Threads = {t1}
    None = None
    Stale = 1
    Unowned = {j1}
    Submitted = {j1}
    MaxTime = 3
    MaxRequests = 1
    MaxCrashes = 0
INVARIANTS
    EndIsNotLost
CHECK_DEADLOCK FALSE

SPECIFICATION Spec
CONSTANTS
    MaxRuns = 2
    Workers = {w1, w2}
    StepCount = 1
    Continue = {}
    MaxRetries = 0
    Keys = {}
    None = None
    MissedAfter = 1
    LateResume = FALSE
    MaxTime = 2
    MaxCrashes = 1
    MaxFaults = 1
INVARIANTS
    EveryRunOnce
    ScheduledRunsNeverOverlap

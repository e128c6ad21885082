SPECIFICATION FairSpec
CONSTANTS
    MaxRuns = 1
    Workers = {w1, w2}
    StepCount = 2
    Continue = {1}
    MaxRetries = 1
    Keys = {}
    None = None
    MissedAfter = 1
    LateResume = TRUE
    MaxTime = 1
    MaxCrashes = 1
    MaxFaults = 1
INVARIANTS
    CancelStopsRun
PROPERTIES
    StepsNotRepeated
    RunEnds

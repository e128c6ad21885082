SPECIFICATION Spec
CONSTANTS
    t1 = t1 s1 = s1 s2 = s2 f1 = f1 w1 = w1 d1 = d1 d2 = d2 c1 = c1 k1 = k1
    Targets = {t1}
    Starts = {s1, s2}
    Retries = {f1}
    Saves = {w1}
    Deletes = {d1, d2}
    Sweeps = {c1}
    Keys = {k1}
    KeyOf <- MCKeyOf
    Mode <- MCMode
    None = None
    Failed = Failed
    MaxCrashes = 1
INVARIANTS PrechecksAccounted StartedScanIsTracked
PROPERTIES LaunchesKeyed
CHECK_DEADLOCK FALSE

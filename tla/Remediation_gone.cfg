SPECIFICATION Spec
CONSTANTS
    None = None
    r1 = r1 r2 = r2 t1 = t1
    Keys = {r1, r2}
    Rated = {r1}
    Threads = {t1}
    Shots <- MCShots
    Key <- MCKey
    Instance <- MCInstance
    MaxSaves = 2
    MaxRequests = 0
    MaxCrashes = 0
PROPERTIES
    ResolvedOnlyIfGone
CHECK_DEADLOCK FALSE

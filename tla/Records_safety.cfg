SPECIFICATION MCSpec
CONSTANTS
    a1 = a1 a2 = a2 b1 = b1
    p1 = p1 p2 = p2 p3 = p3 f1 = f1 f2 = f2 k1 = k1
    x = x y = y g = g h = h c = c d = d deb = deb
    r1 = r1 r2 = r2 t1 = t1 t2 = t2
    v1 = v1 c1 = c1 o1 = o1
    s1 = s1 s2 = s2 s3 = s3 u1 = u1
    q1 = q1 q2 = q2 q3 = q3 m1 = m1 m2 = m2
    n1 = n1 n2 = n2 h1 = h1 h2 = h2 h3 = h3
    None = None
    Null = Null
    Ids = {a1, a2, b1} Observations <- MCObservations MaxSaves = 3
    Threads <- MCThreads MaxCrashes = 1
    Keys <- MCKeys Rated <- MCRated Shots <- MCShots Key <- MCKey Instance <- MCInstance
    MaxCards = 2 MaxEdits = 2
    Users <- MCUsers MaxTokens = 3 MaxActive = 2 Lifetime = 2 Grace <- MCGrace
    MaxClock = 1 MaxSessions = 1 MaxRequests = 2
    Assets <- MCMembers Parallelism = 2 Slots = 2
    Subnets <- MCSubnets Hosts <- MCHosts NetOf <- MCNetOf Known <- MCKnown
    Args <- MCArgs Queries = 2 JobsLimit = 1
    Retention = 2 ConnectDuringLaunch = FALSE TaskRunsAgain = TRUE MaxTime = 3
    PassportIds <- MCIds Order <- MCOrder Parts <- MCParts Trending <- MCTrending
    Catalogs <- MCCatalogs DetailOs <- MCDetailOs Findings <- MCPassportFindings
    Finding <- MCPassportFinding Cases <- MCCases DetailBatch = 2 MaxRestarts = 1 MaxPosts = 3
    Indexed <- MCIndexed Contents <- MCContents Definitions <- MCQueries
    Accepts <- MCAccepts Finds <- MCFinds Satisfies <- MCSatisfies Evaluators <- MCThreads
    BatchSize = 1 MaxRewrites = 1 MaxFaults = 0 MaxChanges = 2
    TreeGroups <- MCGroups Editors <- MCThreads MaxMoves = 3
    Triggers <- MCTriggers HistoryDays = 2 MaxDay = 4 MaxHistory = 3
    Detections <- MCFindings Loads <- MCLoads MaxWrites = 3
INVARIANTS
    OneCardPerFqdn
    
    CasesMatchCard
    TotalsAreTrue
    TokensHold
    GroupsHold
    EndedRefreshIsQuiet
    RemovalsHold
    GroupStays
PROPERTIES
    RowsKeepTheirSubject
    EditsSeeTheirCase
CHECK_DEADLOCK FALSE

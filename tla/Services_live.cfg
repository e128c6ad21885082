SPECIFICATION MCSpec
CONSTANTS
    StepCount = 3
    Requests = {r1}
    NoThread = NoThread
    MaxOutages = 2
    None = None
    Builders <- MCBuilders Windows <- MCWindows Kinds <- MCKinds Root <- MCRoot Kind <- MCKind
    Refs <- MCRefs Declared <- MCDeclared Members <- MCMembers Excluded <- MCExcluded
    Widgets <- MCWidgets Containers <- MCContainers InImage <- MCInImage Answers <- MCAnswers
    MaxDepth = 1 MaxItems = 2 MaxLost = 1
    b1 = b1 b2 = b2
    j1 = j1 j2 = j2 t1 = t1 t2 = t2
    k1 = k1 k2 = k2
    o1 = o1 o2 = o2 c1 = c1 c2 = c2
INVARIANTS
    StartupIsSound
    SchedulerStaysStopped
    UnwarnedIsWhole
PROPERTIES
    EventuallyRecovered
    GroupIsRemoved
    BuildEnds
    RegistryCloses
    ThreadsEnd
CHECK_DEADLOCK FALSE

------------------------------ MODULE MCServices ------------------------------
(* What runs in the background and has to end: the recovery of the database,   *)
(* the group of a scan and its cleanup, the build of a card, the backfill of   *)
(* the search index, the registry of the operations, the cache that the        *)
(* dashboard reads, and the script that scans subnets.  A behaviour moves the  *)
(* component that is in focus; only its threads are scheduled.  Three steps    *)
(* stand for the eighteen of the startup: the migration, one in the middle,    *)
(* and the scheduler.                                                          *)
EXTENDS Services, TLC

CONSTANTS
    b1, b2,          \* builders: of a Linux host and of a Windows host
    j1, j2, t1, t2,  \* jobs, threads
    k1, k2,          \* cache keys
    o1, o2, c1, c2   \* cards and their contents

\* The variables of the component in focus, but for those of the recovery and the builder.
VARIABLES
    focus,
    v01, v02, v03, v04, v05, v06, v07, v08, v09, v10, v11, v12, v13, v14, v15, v16, v17,
    v18, v19, v20

cells == <<v01, v02, v03, v04, v05, v06, v07, v08, v09, v10, v11, v12, v13, v14,
           v15, v16, v17, v18, v19, v20>>
all == <<focus, vars, cells, builds>>

-----------------------------------------------------------------------------
K == INSTANCE DockerGroup WITH
    Retention <- 2, ConnectDuringLaunch <- FALSE, TaskRunsAgain <- TRUE, MaxTime <- 3,
    MaxCrashes <- 1, run <- v01, knownRun <- v02, state <- v03, requested <- v04,
    confirmed <- v05, finishedAt <- v06, cleanupAfter <- v07, removed <- v08, lpc <- v09,
    wpc <- v10, cpc <- v11, deadline <- v12, group <- v13, scan <- v14, scanEnd <- v15,
    rerun <- v16, rerunEnd <- v17, now <- v18, crashes <- v19, gone <- v20

\* Two hosts and what they run: nodes l and w with a package i and a dump that only the
\* Linux card reads; three groups of findings; four ways their requests end.
MCBuilders == {b1, b2}
MCWindows == {b2}
MCKinds == {"host", "soft"}
MCRoot == b1 :> "l" @@ b2 :> "w"
MCKind == [l |-> "host", w |-> "host", s |-> "soft", i |-> "soft"]
MCRefs == [l |-> {}, w |-> {"s"}, s |-> {}, i |-> {}]
MCDeclared == [host |-> {"packages", "dump"}, soft |-> {}]
MCMembers == (<<"l", "packages">> :> {"i"} @@ <<"l", "dump">> :> {"s"}
              @@ <<"w", "packages">> :> {"i"} @@ <<"w", "dump">> :> {})
MCWidgets == [os |-> <<[id |-> "g1", items |-> <<"f1", "f2">>]>>,
              software |-> <<[id |-> "g2", items |-> <<"f3">>], [id |-> "g3", items |-> <<"f4">>]>>]
MCContainers == <<"f3", "f5">>
MCInImage == {"f3"}
MCExcluded == {"dump"}
MCLoad(id, n) == [id |-> id, n |-> n]
MCAnswer(os, software, g1, g3, rows, failed) ==
    [os |-> os, software |-> software,
     loaded |-> [os |-> <<g1>>, software |-> <<MCLoad(TRUE, 1), g3>>],
     docker |-> [rows |-> rows, failed |-> failed]]
MCAnswers == {
    MCAnswer(TRUE, TRUE, MCLoad(TRUE, 2), MCLoad(TRUE, 1), 2, FALSE),
    MCAnswer(TRUE, TRUE, MCLoad(TRUE, 2), MCLoad(TRUE, 1), 0, TRUE),
    MCAnswer(FALSE, TRUE, MCLoad(TRUE, 2), MCLoad(FALSE, 1), 0, FALSE),
    MCAnswer(TRUE, TRUE, MCLoad(TRUE, None), MCLoad(TRUE, 1), 0, FALSE) }

MCThreads == {t1, t2}
MCJobs == {j1, j2}
MCFirst == {j1}
O == INSTANCE Operations WITH
    Jobs <- MCJobs, Threads <- MCThreads, Stale <- 1, Unowned <- MCFirst,
    Submitted <- MCFirst, MaxTime <- 2, MaxRequests <- 2, MaxCrashes <- 1, now <- v01,
    source <- v02, worker <- v03, registry <- v04, pending <- v05, phase <- v06,
    child <- v07, requests <- v08, crashes <- v09

MCKeys == {k1, k2}
D == INSTANCE SnapshotCache WITH
    Keys <- MCKeys, Threads <- MCThreads, MaxEntries <- 1, MaxRefreshes <- 1,
    entry <- v01, flight <- v02, background <- v03, pc <- v04, key <- v05

MCAssets == {o1, o2}
MCContents == {c1, c2}
I == INSTANCE AssetSearch WITH
    Assets <- MCAssets, Contents <- MCContents, BatchSize <- 1, MaxSaves <- 2,
    MaxFaults <- 1, card <- v01, index <- v02, inventory <- v03, running <- v04,
    bpc <- v05, covered <- v06, batch <- v07, processed <- v08, held <- v09,
    saves <- v10, faults <- v11, overtaken <- v12

\* One subnet of one host, with every option that makes the script wait.
MCSubnets == <<"subnet">>
MCHosts == {"host"}
MCNetOf == [h \in MCHosts |-> "subnet"]
MCArgs == {[option \in {"scan", "dry", "check", "validate", "start", "export", "delete", "clean",
                        "final"} |-> option \notin {"dry", "clean"}]}
S == INSTANCE SubnetScan WITH
    Subnets <- MCSubnets, Hosts <- MCHosts, NetOf <- MCNetOf, Known <- MCHosts,
    Args <- MCArgs, Queries <- 1, JobsLimit <- 1, args <- v01, pc <- v02, left <- v03,
    failed <- v04, code <- v05, covered <- v06, stage <- v07, net <- v08, found <- v09,
    targets <- v10, queries <- v11, ids <- v12, run <- v13, job <- v14, assets <- v15,
    asked <- v16, refused <- v17, gone <- v18

-----------------------------------------------------------------------------
\* The cells that a component does not use, from the one with that number on.
None19 == v19 = None /\ v20 = None
None13 == /\ v13 = None /\ v14 = None /\ v15 = None /\ v16 = None /\ v17 = None /\ v18 = None
          /\ None19
None10 == v10 = None /\ v11 = None /\ v12 = None /\ None13
None06 == v06 = None /\ v07 = None /\ v08 = None /\ v09 = None /\ None10
None01 == v01 = None /\ v02 = None /\ v03 = None /\ v04 = None /\ v05 = None /\ None06

rest19 == <<v19, v20>>
rest13 == <<v13, v14, v15, v16, v17, v18, rest19>>
rest10 == <<v10, v11, v12, rest13>>
rest06 == <<v06, v07, v08, v09, rest10>>

\* What each component leaves alone.
Recovering == focus = "recovery" /\ UNCHANGED <<focus, cells, builds>>
Grouping == focus = "group" /\ UNCHANGED <<focus, vars, builds>>
Building == focus = "build" /\ UNCHANGED <<focus, vars, cells>>
Registering == focus = "registry" /\ UNCHANGED <<focus, vars, rest10, builds>>
Caching == focus = "cache" /\ UNCHANGED <<focus, vars, rest06, builds>>
Indexing == focus = "search" /\ UNCHANGED <<focus, vars, rest13, builds>>
Scanning == focus = "script" /\ UNCHANGED <<focus, vars, rest19, builds>>

\* When another component is in focus, the recovery is over.
Over ==
    /\ stage = "down" /\ monitoring = FALSE /\ lock = NoThread /\ completed = {}
    /\ last = "none" /\ pc = [t \in Threads |-> "idle"] /\ working = [t \in Threads |-> 1]
    /\ answer = [t \in Threads |-> "none"] /\ connected = TRUE /\ schemaCurrent = TRUE
    /\ outages = 0 /\ scheduler = FALSE /\ done = [s \in Steps |-> 0] /\ missed = {}

MCInit ==
    /\ C!Init
    /\ \/ focus = "recovery" /\ Init /\ None01
       \/ /\ Over
          /\ \/ focus = "group" /\ K!Init
             \/ focus = "build" /\ None01
             \/ focus = "registry" /\ O!Init /\ None10
             \/ focus = "cache" /\ D!Init /\ None06
             \/ focus = "search" /\ I!SearchInit /\ None13
             \/ focus = "script" /\ S!Init /\ None19

MCNext ==
    \/ Recovering /\ Next
    \/ Grouping /\ K!Next
    \/ Building /\ C!Next
    \/ Registering /\ O!Next
    \/ Caching /\ D!Next
    \/ Indexing /\ I!SearchNext
    \/ Scanning /\ S!Next

(* The fairness of the components, stated there: one condition stands here for *)
(* one of every component, because only one of them can take steps.            *)
MCFairness ==
    /\ WF_all(\/ Recovering /\ pc["startup"] # "idle" /\ Check("startup")
              \/ Grouping /\ K!Launch
              \/ Building /\ C!Work(b1)
              \/ Registering /\ O!Finish(j1)
              \/ Caching /\ D!Thread(t1)
              \/ Indexing /\ I!Backfill
              \/ Scanning /\ S!Working)
    /\ WF_all(\/ Recovering /\ pc["monitor"] # "idle" /\ Check("monitor")
              \/ Grouping /\ K!CloseRun
              \/ Building /\ C!Work(b2)
              \/ Registering /\ O!Finish(j2)
              \/ Caching /\ D!Thread(t2)
              \/ Scanning /\ S!Deadlines)
    /\ WF_all(\/ Recovering /\ Acquire("startup")
              \/ Grouping /\ K!FinishRun
              \/ Registering /\ O!Look(t1))
    /\ WF_all(\/ Recovering /\ Serve
              \/ Grouping /\ K!Cleanup
              \/ Registering /\ O!Look(t2))
    /\ WF_all(\/ Recovering /\ DatabaseBack
              \/ Grouping /\ K!Connect
              \/ Registering /\ O!Tick)
    /\ WF_all(Grouping /\ K!GroupAppears)
    /\ WF_all(Grouping /\ K!ScanEnds)
    /\ WF_all(Grouping /\ K!RerunEnds)
    /\ WF_all(Grouping /\ K!Tick)
    /\ \A t \in Requests : WF_all(Recovering /\ pc[t] # "idle" /\ Check(t))
    /\ SF_all(\/ Recovering /\ \E t \in Threads : RunStep(t)
              \/ Grouping /\ K!RemoveGroup
              \/ Registering /\ \E t \in MCThreads : O!BeginList(t) /\ v04' = O!Swept(v04))
    /\ SF_all(\/ Recovering /\ Acquire("monitor")
              \/ Grouping /\ K!RecordRemoved)

MCSpec == MCInit /\ [][MCNext]_all /\ MCFairness

-----------------------------------------------------------------------------
(* The properties of the components, stated in their modules; what is not in   *)
(* focus has no state.                                                         *)

\* Group: of a run that has ended it is removed, over failures and restarts.
GroupIsRemoved ==
    (focus = "group" /\ v01 = "final" /\ v13 = "present")
        ~> (focus = "group" /\ (v13 = "absent" \/ K!Unremovable))
\* Builder: every build ends, whichever builders load the types of each other.
BuildEnds == focus = "build" ~> (focus = "build" /\ \A b \in MCBuilders : ~C!Active(b))
\* Registry: no operation stays active for ever, whatever the syncs write over each other.
RegistryCloses ==
    (focus = "registry" /\ \E j \in MCJobs : O!Active(j))
        ~> (focus = "registry" /\ \A j \in MCJobs : ~O!Active(j))
\* Cache, search and script: every thread that asked the cache is answered, the backfill
\* thread ends and lowers its flag, and the script ends whatever MP VM does.
ThreadsEnd ==
    \/ focus = "cache" /\ v04[t1] # "idle"
    \/ focus = "search" /\ v04
    \/ focus = "script" /\ v02 # "end"
  ~>
    \/ focus = "cache" /\ v04[t1] = "idle"
    \/ focus = "search" /\ ~v04
    \/ focus = "script" /\ v02 = "end"
=============================================================================

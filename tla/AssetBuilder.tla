----------------------------- MODULE AssetBuilder -----------------------------
(* Building the snapshot of an asset's card: the tree, read level by level with *)
(* metadata that all builders share, and the vulnerability collections of the   *)
(* widgets and of the Docker containers.  A failed request does not fail the    *)
(* build: it leaves a gap and a warning.  Cached metadata outlives two builds.   *)
EXTENDS Naturals, FiniteSets, Sequences

CONSTANTS
    Builders,       \* build jobs of one MP VM address
    Windows,        \* those whose root is a Windows host
    Kinds,          \* asset types, which have metadata
    Root, Kind,     \* root of each builder, type of each node
    Refs,           \* nodes that the data of a node refers to
    Declared,       \* collections that the metadata of a type declares
    Members,        \* nodes in the collection of a node: function of <<node, name>>
    Excluded,       \* WINDOWS_ASSET_CARD_EXCLUDED_COLLECTIONS
    Widgets,        \* groups of each widget source: [id, items]
    Containers,     \* findings of the container query
    InImage,        \* findings of the software widget that name a Docker image
    Answers,        \* how the vulnerability requests can end: [os, software, loaded, docker],
                    \* loaded: for each group, whether it has an id and the items that came
    MaxDepth, MaxItems, None,
    MaxLost         \* bound on the requests that fail on one level

VARIABLES
    cache,      \* ASSET_METADATA_CACHE: "none", "full" or "filtered"
    inflight,   \* ASSET_METADATA_INFLIGHT: the builder that loads a type, or None
    build,      \* each builder: point, level, depth, nodes, collections, metadata, its types, warned
    vulns,      \* each builder: how its vulnerability requests ended, or None
    cancelled,  \* builders whose cancellation event is set
    blind       \* history: builders that were given no metadata, or another system's, in silence

vars == <<cache, inflight, build, vulns, cancelled, blind>>

-----------------------------------------------------------------------------
(* Vulnerability collections. *)

\* load_group and the flag of the group: a page that fails ends the loading; an
\* unexpected error (None) leaves the group empty and not truncated.  A group without a
\* collection id is kept, but its items are never requested.  The order of the items
\* decides which are cut, and nothing after that.
Group(group, load) ==
    LET n == IF load.n # None /\ load.n > MaxItems THEN MaxItems ELSE load.n
        none == ~load.id \/ n = None IN
    [id |-> IF load.id THEN group.id ELSE None,
     items |-> IF none THEN {} ELSE {group.items[j] : j \in {i \in DOMAIN group.items : i <= n}},
     truncated |-> ~none /\ n < Len(group.items)]

\* A source whose request failed has no groups.
Source(name, answer) ==
    IF answer[name]
    THEN {Group(Widgets[name][i], answer.loaded[name][i]) : i \in DOMAIN Widgets[name]}
    ELSE {}

Found(groups) == UNION {g.items : g \in groups}

\* _extract_docker_fallback: what the software widget says of images is moved, and a
\* group that has nothing else is dropped with its flag.
Software(groups) ==
    {[g EXCEPT !.items = g.items \ InImage] : g \in {h \in groups : h.items = {} \/ ~(h.items \subseteq InImage)}}

\* build_docker_vulnerability_source: the container query decides when it brought
\* anything; an error truncates only what it brought.
DockerGroups(answer, software) ==
    LET n == answer.docker.rows
        primary == {Containers[i] : i \in 1 .. n}
        chosen == IF primary # {} THEN primary ELSE Found(software) \cap InImage IN
    IF chosen = {} THEN {}
    ELSE {[id |-> "container", items |-> chosen,
           truncated |-> primary # {} /\ n < Len(Containers)]}

\* The groups of the finished snapshot.
Snapshot(answer) ==
    LET software == Source("software", answer) IN
    Source("os", answer) \cup Software(software) \cup DockerGroups(answer, software)

\* Whether any of these requests left a warning.
VulnerabilityWarned(answer) ==
    \/ \E s \in {"os", "software"} :
          \/ ~answer[s]
          \/ \E i \in DOMAIN Widgets[s] :
                \/ ~answer.loaded[s][i].id \/ answer.loaded[s][i].n = None
                \/ Group(Widgets[s][i], answer.loaded[s][i]).truncated
    \/ answer.docker.failed

-----------------------------------------------------------------------------
(* Metadata and the tree. *)

\* filter_windows_asset_metadata
Shown(b, metadata) == IF b \in Windows /\ metadata = "full" THEN "filtered" ELSE metadata

\* Collections that a node of this kind has according to the metadata a builder holds.
Collections(b, n) ==
    CASE build[b].known[Kind[n]] = "full"     -> Declared[Kind[n]] \ (IF b \in Windows THEN Excluded ELSE {})
      [] build[b].known[Kind[n]] = "filtered" -> Declared[Kind[n]] \ Excluded
      [] OTHER -> {}

Wanted(b) == {Kind[n] : n \in build[b].level} \ {k \in Kinds : build[b].known[k] # "unknown"}

SpecsOf(b, n) == {<<n, c>> : c \in Collections(b, n)}
Specs(b) == (UNION {SpecsOf(b, n) : n \in build[b].level}) \ build[b].colls
Direct(b) == (UNION {Refs[n] : n \in build[b].level}) \ build[b].nodes

Active(b) == build[b].at \notin {"done", "cancelled"}

Started(b, at) ==
    [at |-> at, level |-> {Root[b]}, depth |-> 0, nodes |-> {Root[b]}, colls |-> {},
     known |-> [k \in Kinds |-> "unknown"], mine |-> {}, theirs |-> {}, warned |-> FALSE]

Init ==
    /\ cache = [k \in Kinds |-> "none"] /\ inflight = [k \in Kinds |-> None]
    /\ build = [b \in Builders |-> Started(b, "claim")]
    /\ vulns = [b \in Builders |-> None] /\ cancelled = {} /\ blind = {}

\* Under the lock every type is taken from the cache, claimed, or left to the builder
\* that is loading it.
Claim(b) ==
    LET hit == {k \in Wanted(b) : cache[k] # "none"}
        free == {k \in Wanted(b) \ hit : inflight[k] = None} IN
    /\ build[b].at = "claim"
    /\ inflight' = [k \in Kinds |-> IF k \in free THEN b ELSE inflight[k]]
    /\ build' = [build EXCEPT ![b].at = "ask", ![b].mine = free,
          ![b].theirs = {<<k, inflight[k]>> : k \in Wanted(b) \ (hit \cup free)},
          ![b].known = [k \in Kinds |-> IF k \in hit THEN cache[k] ELSE @[k]]]
    /\ blind' = IF b \notin Windows /\ \E k \in hit : cache[k] = "filtered" THEN blind \cup {b} ELSE blind
    /\ UNCHANGED <<cache, vulns, cancelled>>

CachedEmpty(old, metadata) == metadata

\* Empty metadata is not cached.
Cached(old, metadata) == IF metadata = "empty" THEN old ELSE metadata

\* Its own requests end; then the results are published and the waiting builders woken.
Ask(b, failed) ==
    LET got == [k \in Kinds |-> IF k \in failed THEN "empty" ELSE Shown(b, "full")] IN
    /\ build[b].at = "ask" /\ failed \subseteq build[b].mine
    /\ ~(b \in cancelled /\ build[b].mine # {})
    /\ cache' = [k \in Kinds |-> IF k \in build[b].mine THEN Cached(cache[k], got[k]) ELSE cache[k]]
    /\ inflight' = [k \in Kinds |-> IF k \in build[b].mine THEN None ELSE inflight[k]]
    /\ build' = [build EXCEPT ![b].at = "wait", ![b].mine = {}, ![b].warned = @ \/ failed # {},
          ![b].known = [k \in Kinds |-> IF k \in build[b].mine THEN got[k] ELSE @[k]]]
    /\ UNCHANGED <<vulns, cancelled, blind>>

AbandonClaimed(b) == inflight

\* A cancelled builder gives its types up (except BaseException).
Abandon(b) == [k \in Kinds |-> IF k \in build[b].mine THEN None ELSE inflight[k]]

AskCancelled(b) ==
    /\ build[b].at = "ask" /\ b \in cancelled /\ build[b].mine # {}
    /\ inflight' = Abandon(b)
    /\ build' = [build EXCEPT ![b] = Started(b, "cancelled")]
    /\ UNCHANGED <<cache, vulns, cancelled, blind>>

Awaited(b) == {t[1] : t \in build[b].theirs}

\* event.wait() for the types of other builders: what they did not cache counts as empty.
Wait(b) ==
    /\ build[b].at = "wait" /\ \A t \in build[b].theirs : inflight[t[1]] # t[2]
    /\ build' = [build EXCEPT ![b].at = "fetch", ![b].theirs = {},
          ![b].known = [k \in Kinds |-> IF k \notin Awaited(b) THEN @[k]
                                        ELSE IF cache[k] = "none" THEN "empty" ELSE cache[k]]]
    /\ blind' = IF \E k \in Awaited(b) : cache[k] = "none" \/ (cache[k] = "filtered" /\ b \notin Windows)
                THEN blind \cup {b} ELSE blind
    /\ UNCHANGED <<cache, inflight, vulns, cancelled>>

\* fetch_node_specs and fetch_collection_specs warn of each request that failed, and the
\* traversal of everything it leaves out at the greatest depth.
Gap(b, lost) == lost \/ (build[b].depth = MaxDepth /\ (Specs(b) # {} \/ Direct(b) # {}))

Deeper(b) == build[b].depth < MaxDepth
Reading(b) == IF Deeper(b) THEN Specs(b) ELSE {}
Children(b, read) ==
    ((IF Deeper(b) THEN Direct(b) ELSE {}) \cup UNION {Members[s] : s \in read}) \ build[b].nodes

\* One level: the collections and the nodes that the data refers to, at once; then the
\* nodes that the items refer to, with a second attempt for the first ones.
Fetch(b, lostColls, lostNodes, again) ==
    LET read == Reading(b) \ lostColls
        next == Children(b, read) \ lostNodes IN
    /\ Cardinality(lostColls) + Cardinality(lostNodes) + Cardinality(again) <= MaxLost
    /\ lostColls \subseteq Reading(b) /\ again \subseteq Direct(b) \cap next
    /\ build' = [build EXCEPT
          ![b].at = IF next = {} THEN "tree" ELSE "claim", ![b].level = next, ![b].depth = @ + 1,
          ![b].nodes = @ \cup next, ![b].colls = @ \cup read,
          ![b].warned = @ \/ Gap(b, lostColls # {} \/ lostNodes \cup again # {})]
    /\ UNCHANGED <<cache, inflight, vulns, cancelled, blind>>

\* The coordinator schedules no further batch once the event is set.
FetchCancelled(b) ==
    /\ build[b].at = "fetch" /\ b \in cancelled
    /\ build' = [build EXCEPT ![b] = Started(b, "cancelled")]
    /\ UNCHANGED <<cache, inflight, vulns, cancelled, blind>>

\* The second coordinator, which shares nothing with the first one; a cancellation makes
\* it raise, and the build with it.
LoadVulnerabilities(b, answer) ==
    /\ build[b].at = "tree" /\ b \notin cancelled
    /\ vulns' = [vulns EXCEPT ![b] = answer]
    /\ build' = [build EXCEPT ![b] = Started(b, "done")]
    /\ UNCHANGED <<cache, inflight, cancelled, blind>>

VulnerabilitiesCancelled(b) ==
    /\ build[b].at = "tree" /\ b \in cancelled
    /\ build' = [build EXCEPT ![b] = Started(b, "cancelled")]
    /\ UNCHANGED <<cache, inflight, vulns, cancelled, blind>>

Cancel(b) ==
    /\ Active(b) /\ b \notin cancelled
    /\ cancelled' = cancelled \cup {b}
    /\ UNCHANGED <<cache, inflight, build, vulns, blind>>

AskAny(b) == \E failed \in SUBSET build[b].mine : Ask(b, failed)
FetchAny(b) ==
    /\ build[b].at = "fetch" /\ b \notin cancelled
    /\ \E lostColls \in SUBSET Specs(b), again \in SUBSET Direct(b) :
       \E lostNodes \in SUBSET Children(b, Reading(b) \ lostColls) :
           Fetch(b, lostColls, lostNodes, again)
LoadAny(b) == \E a \in Answers : LoadVulnerabilities(b, a)

Work(b) ==
    \/ Claim(b) \/ AskAny(b) \/ AskCancelled(b) \/ Wait(b)
    \/ FetchAny(b) \/ FetchCancelled(b) \/ LoadAny(b) \/ VulnerabilitiesCancelled(b)

Next == \E b \in Builders : Work(b) \/ Cancel(b)

\* The coordinators are threads of the build, and every request ends by its timeout.
Fairness == \A b \in Builders : WF_vars(Work(b))
Spec == Init /\ [][Next]_vars /\ Fairness

-----------------------------------------------------------------------------
TypeOK ==
    /\ cache \in [Kinds -> {"none", "full", "filtered", "empty"}]
    /\ inflight \in [Kinds -> Builders \cup {None}] /\ cancelled \subseteq Builders

\* What a builder that lost nothing reads.
Branches(b, n) == {<<n, c>> : c \in Declared[Kind[n]] \ (IF b \in Windows THEN Excluded ELSE {})}
Below(b, nodes) ==
    nodes \cup UNION {Refs[n] \cup UNION {Members[s] : s \in Branches(b, n)} : n \in nodes}
\* What at most d steps down from the root lead to.
Within(b, d) ==
    {p[d] : p \in {q \in [0 .. d -> DOMAIN Kind] :
                      q[0] = Root[b] /\ \A i \in 1 .. d : q[i] \in Below(b, {q[i - 1]})}}
Reach(b) == Within(b, MaxDepth)

Items(group) == {group.items[j] : j \in DOMAIN group.items}
Reported == (UNION {UNION {Items(Widgets[s][i]) : i \in DOMAIN Widgets[s]} : s \in {"os", "software"}}) \ InImage

\* A card that was built without any warning lacks nothing: every node in reach is there,
\* and every finding of the widgets or a truncated flag, unless the builder was given
\* wrong metadata without a word (the waiter of metadata_for_types).
UnwarnedIsWhole ==
    \A b \in Builders :
        /\ build[b].at = "tree" /\ ~build[b].warned /\ b \notin blind => build[b].nodes = Reach(b)
        /\ vulns[b] # None /\ ~VulnerabilityWarned(vulns[b]) =>
              Reported \subseteq Found(Snapshot(vulns[b]))

\* Every build ends, whichever builders load the types of each other (metadata_for_types).
BuildEnds == \A b \in Builders : <>(~Active(b))
=============================================================================

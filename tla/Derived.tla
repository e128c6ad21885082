------------------------------- MODULE Derived -------------------------------
(* Components that compute rows from other rows, beside those of Records: the   *)
(* index of the cards with the groups that are evaluated from it, the tree of   *)
(* these groups, the history of the vulnerability totals and the rollups.       *)
EXTENDS Records

CONSTANTS
    Indexed, Contents, Definitions, Accepts(_), Finds(_, _), Satisfies(_, _), Evaluators,
    BatchSize, MaxRewrites, MaxFaults, MaxChanges,                          \* index and groups
    TreeGroups, Editors, MaxMoves,                                              \* tree
    Triggers, HistoryDays, MaxDay, MaxHistory,                              \* history
    Detections, Loads, MaxWrites                                            \* rollups

ASSUME HistoryDaysNat == HistoryDays \in Nat
ASSUME DetectionsTyped ==
    /\ IsFiniteSet(Assets) /\ IsFiniteSet(Detections) /\ Loads \subseteq SUBSET Detections
    /\ \A d \in Detections : d.rank \in 1 .. 5
ASSUME NoneIsNothing == None \notin TreeGroups \cup [id : Indexed, content : Contents]

VARIABLES
    content, index, inventory, running, bpc, indexed, batch, processed, held, rewrites, faults,
    overtaken, rule, definition, status, override, members, archived, epc, read, matched,
    changes, crossed, doubtful,                                             \* index and groups
    parent, standing, editing, target, wish, candidate, walked, moves, overlapped, \* tree
    day, captures, snapshots, history,                                      \* history
    stock, detected, perSelector, perHost, writer, writes                   \* rollups

assetGroups == <<content, index, inventory, running, bpc, indexed, batch, processed, held,
                 rewrites, faults, overtaken, rule, definition, status, override, members,
                 archived, epc, read, matched, changes, crossed, doubtful>>
tree == <<parent, standing, editing, target, wish, candidate, walked, moves, overlapped>>
trends == <<day, captures, snapshots, history>>
rollups == <<stock, detected, perSelector, perHost, writer, writes>>

G == INSTANCE AssetGroups WITH
    Assets <- Indexed, Queries <- Definitions, Valid <- Accepts, Selects <- Finds, Holds <- Satisfies,
    MaxSaves <- MaxRewrites, MaxEdits <- MaxChanges,
    card <- content, covered <- indexed, saves <- rewrites, query <- rule, found <- matched,
    edits <- changes, raced <- crossed
H == INSTANCE GroupTree WITH
    Groups <- TreeGroups, MaxEdits <- MaxMoves, row <- standing, pc <- editing, seen <- walked, edits <- moves
T == INSTANCE Trends WITH Retention <- HistoryDays
U == INSTANCE Rollup WITH Findings <- Detections, cards <- stock, rows <- detected

-----------------------------------------------------------------------------
(* The properties of the components, stated in their modules.                  *)

\* Index, groups and tree: search answers from the cards as they are stored, a ready group
\* has the members its definition says, and no group disappears in a cycle of parents.
GroupsHold == G!IndexFollowsCards /\ G!ReadyGroupIsRight /\ H!EveryGroupShown
\* Rollups and history: with and without the rollup tables the dashboard gives one answer,
\* and pruning the snapshots is invisible inside the retention.
TotalsAreTrue == U!AnswersAgree /\ T!TrendIsHistory
=============================================================================

----------------------------- MODULE AssetGroups -----------------------------
(* A local dynamic group of assets: its query, the manual exceptions, and the  *)
(* evaluations that replace its members from the search index.  The members of *)
(* a group that is ready are what a group scan takes as its targets.           *)
EXTENDS AssetSearch

CONSTANTS
    Queries,        \* the definitions an operator gives the group
    Valid(_),       \* validate_asset_query_tree accepts a query
    Selects(_, _),  \* the search selects a card by its rows in the index, and a query
    Holds(_, _),    \* what is documented: the content of a card satisfies a query
    Evaluators,     \* request threads that evaluate
    MaxEdits        \* bound: edits of the definition and of the exceptions

VARIABLES
    query, definition, \* query_json, definition_version
    status,            \* stale, evaluating, ready, error
    override,          \* asset_group_overrides: asset |-> include, exclude or None
    members, archived,
    epc, read, found,  \* each evaluation: point, the definition it read, the cards it found
    edits,
    raced, doubtful    \* history: evaluations that a change overtook; the members come from one,
                       \* or a card has changed since

groupVars == <<query, definition, status, override, members, archived, epc, read, found, edits, raced, doubtful>>
evaluation == <<epc, read, found>>

Init ==
    /\ SearchInit
    /\ query \in {q \in Queries : Valid(q)} /\ definition = 1 /\ status = "stale"
    /\ members = {} /\ archived = FALSE
    /\ override = [a \in Assets |-> None] /\ edits = 0
    /\ epc = [e \in Evaluators |-> "idle"] /\ read = [e \in Evaluators |-> None]
    /\ found = [e \in Evaluators |-> {}]
    /\ raced = {} /\ doubtful = FALSE

Matched(q) == {a \in Cards : Selects(index[a], q)}

Evaluating == {e \in Evaluators : epc[e] # "idle"}
Edited == edits < MaxEdits /\ edits' = edits + 1 /\ raced' = Evaluating

\* PATCH with a query: the version goes up and the members are out of date.
UpdateQuery(q) ==
    /\ Edited /\ ~archived /\ Valid(q)
    /\ query' = q /\ definition' = definition + 1 /\ status' = "stale"
    /\ UNCHANGED <<searchVars, override, members, archived, evaluation, doubtful>>

SetOverride(a, action) ==
    /\ Edited /\ card[a] # None /\ override' = [override EXCEPT ![a] = action] /\ status' = "stale"
    /\ UNCHANGED <<searchVars, query, definition, members, archived, evaluation, doubtful>>

DropOverride(a) ==
    /\ Edited /\ override' = [override EXCEPT ![a] = None] /\ status' = "stale"
    /\ UNCHANGED <<searchVars, query, definition, members, archived, evaluation, doubtful>>

Archive ==
    /\ ~archived /\ archived' = TRUE
    /\ UNCHANGED <<searchVars, query, definition, status, override, members, evaluation, edits, raced, doubtful>>

\* The group is read in one connection ...
ReadGroup(e) ==
    /\ epc[e] = "idle" /\ ~archived /\ epc' = [epc EXCEPT ![e] = "marking"]
    /\ read' = [read EXCEPT ![e] = [query |-> query, definition |-> definition]]
    /\ raced' = raced \ {e}
    /\ UNCHANGED <<searchVars, query, definition, status, override, members, archived, found, edits, doubtful>>

\* ... the evaluation recorded in a second ...
MarkEvaluating(e) ==
    /\ epc[e] = "marking" /\ epc' = [epc EXCEPT ![e] = "querying"] /\ status' = "evaluating"
    /\ UNCHANGED <<searchVars, query, definition, override, members, archived, read, found, edits, raced, doubtful>>

\* ... the cards queried in a third ...
QueryCards(e) ==
    /\ epc[e] = "querying" /\ epc' = [epc EXCEPT ![e] = "writing"]
    /\ found' = [found EXCEPT ![e] = Matched(read[e].query)]
    /\ UNCHANGED <<searchVars, query, definition, status, override, members, archived, read, edits, raced, doubtful>>

Idle(e) ==
    /\ epc' = [epc EXCEPT ![e] = "idle"] /\ read' = [read EXCEPT ![e] = None]
    /\ found' = [found EXCEPT ![e] = {}]

\* ... and the members replaced in a fourth, with the exceptions as they are by then; the
\* group is ready whatever its definition has become.  A card deleted since the query
\* breaks the foreign key of the members.
WriteMembers(e) ==
    LET kept == {a \in found[e] : override[a] # "exclude"}
        added == {a \in Cards : override[a] = "include"}
    IN /\ epc[e] = "writing" /\ kept \subseteq Cards
       /\ members' = kept \cup added /\ status' = "ready" /\ Idle(e)
       /\ doubtful' = (e \in raced)
       /\ UNCHANGED <<searchVars, query, definition, override, archived, edits, raced>>

\* The query or a write raises.
EvaluationFails(e) ==
    /\ epc[e] \in {"querying", "writing"} /\ status' = "error" /\ Idle(e)
    /\ UNCHANGED <<searchVars, query, definition, override, members, archived, edits, raced, doubtful>>

\* The process ends: the group stays 'evaluating' until somebody evaluates it again.
Crash ==
    /\ Evaluating # {}
    /\ epc' = [e \in Evaluators |-> "idle"] /\ read' = [e \in Evaluators |-> None]
    /\ found' = [e \in Evaluators |-> {}]
    /\ UNCHANGED <<searchVars, query, definition, status, override, members, archived, edits, raced, doubtful>>

\* Cards change under the group; a deleted one leaves its members and exceptions with it.
CardsChange ==
    /\ SearchNext
    /\ IF index' # index \/ card' # card THEN raced' = Evaluating /\ doubtful' = TRUE
                                         ELSE UNCHANGED <<raced, doubtful>>
    /\ members' = members \ {a \in Assets : card'[a] = None}
    /\ override' = [a \in Assets |-> IF card'[a] = None THEN None ELSE override[a]]
    /\ UNCHANGED <<query, definition, status, archived, evaluation, edits>>

Next ==
    \/ CardsChange \/ Archive \/ Crash
    \/ \E q \in Queries : UpdateQuery(q)
    \/ \E a \in Assets : DropOverride(a) \/ \E action \in {"include", "exclude"} : SetOverride(a, action)
    \/ \E e \in Evaluators :
          ReadGroup(e) \/ MarkEvaluating(e) \/ QueryCards(e) \/ WriteMembers(e) \/ EvaluationFails(e)

Spec == Init /\ [][Next]_<<searchVars, groupVars>>

\* The targets of a group scan: a ready group whose cards stayed as they were, and which
\* nobody edited while it was evaluated, has as members the cards that satisfy its query
\* as the documentation explains it, but for the exceptions.
ReadyGroupIsRight ==
    status = "ready" /\ ~doubtful /\ (\A a \in Cards : index[a] = card[a]) =>
        members = {a \in Cards : override[a] = "include"
                                 \/ (override[a] # "exclude" /\ Holds(card[a], query))}
==============================================================================

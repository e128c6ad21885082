------------------------------ MODULE GroupTree ------------------------------
(* The hierarchy of the asset groups: an edit of a parent walks to the root    *)
(* with one query per level and then writes, all of it READ COMMITTED.         *)
EXTENDS Naturals

CONSTANTS
    Groups, Editors,
    MaxEdits, \* bound: requests to create a group or move one
    None

VARIABLES
    parent, row,                       \* asset_groups: parent_id, "none", "live" or "archived"
    pc, target, wish, candidate, seen, \* each request: point, group, its new parent, the walk
    edits,
    overlapped                         \* history: a parent was written during another walk

vars == <<parent, row, pc, target, wish, candidate, seen, edits, overlapped>>

live == {g \in Groups : row[g] = "live"}
walk == <<target, wish, candidate, seen>>

Init ==
    /\ parent = [g \in Groups |-> None] /\ row \in [Groups -> {"none", "live"}]
    /\ pc = [e \in Editors |-> "idle"] /\ target = [e \in Editors |-> None]
    /\ wish = [e \in Editors |-> None] /\ candidate = [e \in Editors |-> None]
    /\ seen = [e \in Editors |-> {}] /\ edits = 0 /\ overlapped = FALSE

Begin(e, point, g, p) ==
    /\ pc[e] = "idle" /\ p # g /\ edits < MaxEdits /\ edits' = edits + 1
    /\ pc' = [pc EXCEPT ![e] = point] /\ target' = [target EXCEPT ![e] = g]
    /\ wish' = [wish EXCEPT ![e] = p] /\ candidate' = [candidate EXCEPT ![e] = p]
    /\ seen' = [seen EXCEPT ![e] = {g}] /\ UNCHANGED <<parent, row, overlapped>>

\* PATCH of the parent; a group that is its own parent is refused at once.
BeginEdit(e, g, p) == row[g] # "none" /\ Begin(e, "editing", g, p)

\* POST of a new group, under an id that nobody else has.
BeginCreate(e, g, p) ==
    row[g] = "none" /\ (\A o \in Editors : target[o] # g) /\ Begin(e, "creating", g, p)

Done(e) ==
    /\ pc' = [pc EXCEPT ![e] = "idle"] /\ target' = [target EXCEPT ![e] = None]
    /\ wish' = [wish EXCEPT ![e] = None] /\ candidate' = [candidate EXCEPT ![e] = None]
    /\ seen' = [seen EXCEPT ![e] = {}]

\* A candidate that was seen closes a cycle, one that is archived is not found.
Refused(e) ==
    /\ pc[e] # "idle" /\ candidate[e] # None
    /\ candidate[e] \in seen[e] \/ candidate[e] \notin live
    /\ Done(e) /\ UNCHANGED <<parent, row, edits, overlapped>>

AscendOnce(e) ==
    /\ pc[e] # "idle" /\ candidate[e] \in live \ seen[e]
    /\ candidate' = [candidate EXCEPT ![e] = None]
    /\ UNCHANGED <<parent, row, pc, target, wish, seen, edits, overlapped>>

\* One level up, as it is stored at that moment.
Ascend(e) ==
    /\ pc[e] # "idle" /\ candidate[e] \in live \ seen[e]
    /\ seen' = [seen EXCEPT ![e] = @ \cup {candidate[e]}]
    /\ candidate' = [candidate EXCEPT ![e] = parent[candidate[e]]]
    /\ UNCHANGED <<parent, row, pc, target, wish, edits, overlapped>>

\* The update does nothing to a group that was archived meanwhile.
WriteParent(e) ==
    LET written == pc[e] = "creating" \/ target[e] \in live
    IN /\ pc[e] # "idle" /\ candidate[e] = None /\ Done(e)
       /\ parent' = IF written THEN [parent EXCEPT ![target[e]] = wish[e]] ELSE parent
       /\ row' = IF written THEN [row EXCEPT ![target[e]] = "live"] ELSE row
       /\ overlapped' = (overlapped \/ \E o \in Editors \ {e} : pc[o] # "idle")
       /\ UNCHANGED edits

ArchiveGroup(g) ==
    /\ g \in live /\ row' = [row EXCEPT ![g] = "archived"]
    /\ UNCHANGED <<parent, pc, walk, edits, overlapped>>

Next ==
    \/ \E e \in Editors :
          \/ Refused(e) \/ Ascend(e) \/ WriteParent(e)
          \/ \E g \in Groups, p \in Groups \cup {None} : BeginEdit(e, g, p) \/ BeginCreate(e, g, p)
    \/ \E g \in Groups : ArchiveGroup(g)

Spec == Init /\ [][Next]_vars

\* The groups that tree() can show: those below a group without a parent it knows, which
\* are the least set that holds these roots and the children of what it holds.
Roots == {g \in live : parent[g] \notin live}
Closed(S) == Roots \subseteq S /\ {g \in live : parent[g] \in S} \subseteq S
Shown == {g \in live : \A S \in SUBSET live : Closed(S) => g \in S}

\* No group disappears from the page in a cycle of parents, unless two edits overlapped:
\* neither of them sees what the other is about to write (db.py 1520).
EveryGroupShown == overlapped \/ Shown = live
==============================================================================

------------------------------ MODULE BulkRefresh ------------------------------
(* A bulk refresh of asset cards: the operation's row, the coordinator with its *)
(* pool of worker threads, the slots that all refreshes share, one child        *)
(* operation per card, and the handler that cancels the operation and its       *)
(* children.                                                                     *)
EXTENDS Naturals, FiniteSets

CONSTANTS
    Assets,      \* cards that the selection returns
    Parallelism, \* worker threads
    Slots        \* ASSET_CARD_REFRESH_WORKERS

VARIABLES
    op,          \* status of the row of the operation
    listed,      \* child_operation_ids of the row
    token,       \* the cancellation event: "none", "registered" or "set"
    coord,       \* point of the coordinator
    outcome,     \* how it will end
    worker,      \* each card: point of its future
    tracked,     \* child_operation_ids of the coordinator
    child,       \* each card: status of its child operation
    others,      \* slots that other refreshes hold
    handler,     \* the cancelling request: point and the children it read
    overwritten  \* history: 'cancelling' was written over the end

vars == <<op, listed, token, coord, outcome, worker, tracked, child, others, handler, overwritten>>

ActiveStatuses == {"queued", "running", "cancelling"}
Terminal == {"completed", "completed_with_errors", "cancelled", "failed"}
InPool == {"submitted", "acquired", "calling", "started", "tracked", "waiting"}
Holding == InPool \ {"submitted"}
NoHandler == [at |-> "idle", children |-> {}]

Init ==
    /\ op = "absent" /\ listed = {} /\ token = "none"
    /\ coord = "none" /\ outcome = "none"
    /\ worker = [a \in Assets |-> "new"] /\ tracked = {} /\ child = [a \in Assets |-> "none"]
    /\ others = 0 /\ handler = NoHandler /\ overwritten = FALSE

operation == <<op, listed, token>>
outside == <<others, handler, overwritten>>

\* refresh_asset_cards_bulk: the row, the token and the future.
Request ==
    /\ op = "absent" /\ op' = "queued" /\ token' = "registered" /\ coord' = "queued"
    /\ UNCHANGED <<listed, outcome, worker, tracked, child, outside>>

Begin ==
    /\ coord = "queued" /\ op' = "running" /\ coord' = "selecting"
    /\ UNCHANGED <<listed, token, outcome, worker, tracked, child, outside>>

\* The cards are listed page by page; the template may be gone.
Select ==
    /\ coord = "selecting"
    /\ \/ token = "set" /\ coord' = "ending" /\ outcome' = "cancelled" /\ UNCHANGED op
       \/ token # "set" /\ coord' = "waiting" /\ outcome' = "completed" /\ op' = "running"
       \/ coord' = "ending" /\ outcome' = "failed" /\ UNCHANGED op
    /\ UNCHANGED <<listed, token, worker, tracked, child, outside>>

Pending == {a \in Assets : worker[a] \in InPool \cup {"done", "failed", "cancelled"}}

Move(a, at) == worker' = [worker EXCEPT ![a] = at]

Submit(a) ==
    /\ coord = "waiting" /\ worker[a] = "new" /\ Cardinality(Pending) < Parallelism
    /\ Move(a, "submitted")
    /\ UNCHANGED <<operation, coord, outcome, tracked, child, outside>>

-----------------------------------------------------------------------------
(* A worker: refresh_one. *)

WorkerFrame == UNCHANGED <<token, coord, outcome, outside>>

Acquire(a) ==
    /\ worker[a] = "submitted"
    /\ others + Cardinality({b \in Assets : worker[b] \in Holding}) < Slots
    /\ Move(a, "acquired") /\ WorkerFrame /\ UNCHANGED <<op, listed, tracked, child>>

\* The event is looked at before and after the slot, and while the child runs.
SeesEvent(a) ==
    /\ worker[a] \in {"submitted", "acquired", "waiting"} /\ token = "set"
    /\ Move(a, "cancelled") /\ WorkerFrame /\ UNCHANGED <<op, listed, tracked, child>>

Call(a) ==
    /\ worker[a] = "acquired" /\ token # "set"
    /\ Move(a, "calling") /\ WorkerFrame /\ UNCHANGED <<op, listed, tracked, child>>

\* refresh_asset_card_by_scan starts a scan with its own operation, or refuses.
StartChild(a) ==
    /\ worker[a] = "calling"
    /\ \/ Move(a, "started") /\ child' = [child EXCEPT ![a] = "active"]
       \/ Move(a, "failed") /\ UNCHANGED child
    /\ WorkerFrame /\ UNCHANGED <<op, listed, tracked>>

\* track_child, then register_child, which writes 'running' and the list.
Track(a) ==
    /\ worker[a] = "started" /\ Move(a, "tracked") /\ tracked' = tracked \cup {a}
    /\ WorkerFrame /\ UNCHANGED <<op, listed, child>>
Register(a) ==
    /\ worker[a] = "tracked" /\ Move(a, "waiting")
    /\ op' = "running" /\ listed' = listed \cup {a}
    /\ WorkerFrame /\ UNCHANGED <<tracked, child>>

\* wait_for_automation_operation; the last case is its deadline.
Awaited(a) ==
    /\ worker[a] = "waiting"
    /\ \/ child[a] = "completed" /\ Move(a, "done")
       \/ child[a] = "failed" /\ Move(a, "failed")
       \/ child[a] = "cancelled" /\ Move(a, "cancelled")
       \/ child[a] \in {"active", "cancelling"} /\ Move(a, "failed")
    /\ WorkerFrame /\ UNCHANGED <<op, listed, tracked, child>>

Work(a) == Acquire(a) \/ SeesEvent(a) \/ Call(a) \/ StartChild(a) \/ Track(a) \/ Register(a) \/ Awaited(a)

-----------------------------------------------------------------------------
(* The coordinator: refresh_asset_card_batch. *)

CoordFrame == UNCHANGED <<token, tracked, outside>>

\* A finished future is counted and 'running' written again; a cancelled one ends the batch.
Collect(a) ==
    /\ coord = "waiting" /\ worker[a] \in {"done", "failed", "cancelled"}
    /\ IF worker[a] = "cancelled"
       THEN /\ coord' = "sweeping" /\ outcome' = "cancelled" /\ UNCHANGED op
       ELSE /\ outcome' = (IF worker[a] = "failed" THEN "completed_with_errors" ELSE outcome)
            /\ op' = "running" /\ UNCHANGED coord
    /\ Move(a, "collected") /\ CoordFrame /\ UNCHANGED <<listed, child>>

SeeCancel ==
    /\ coord = "waiting" /\ Pending # {} /\ token = "set"
    /\ coord' = "sweeping" /\ outcome' = "cancelled"
    /\ CoordFrame /\ UNCHANGED <<op, listed, worker, child>>

\* A progress write raises: the batch fails, and its threads are waited for.
ProgressRaises ==
    /\ coord = "waiting" /\ \E a \in Assets : worker[a] \in {"done", "failed"}
    /\ coord' = "joining" /\ outcome' = "failed"
    /\ CoordFrame /\ UNCHANGED <<op, listed, worker, child>>

AllCollected ==
    /\ coord = "waiting" /\ \A a \in Assets : worker[a] = "collected"
    /\ coord' = "joining" /\ CoordFrame /\ UNCHANGED <<op, listed, outcome, worker, child>>

Told(S) == [a \in Assets |-> IF a \in S /\ child[a] = "active" THEN "cancelling" ELSE child[a]]

\* cancel_started_children; then the futures no thread has taken are dropped.
Sweep ==
    /\ coord = "sweeping" /\ child' = Told(tracked)
    /\ \E dropped \in SUBSET {a \in Assets : worker[a] = "submitted"} :
          worker' = [a \in Assets |-> IF a \in dropped THEN "collected" ELSE worker[a]]
    /\ coord' = "joining" /\ CoordFrame /\ UNCHANGED <<op, listed, outcome>>

\* executor.shutdown(wait=True) is over: whoever started a child has tracked it.
Joined == IF outcome = "cancelled" THEN Told(tracked) ELSE child

\* Mutant: shutdown(wait=False).
JoinNobody ==
    /\ coord = "joining" /\ child' = Joined
    /\ coord' = "ending" /\ CoordFrame /\ UNCHANGED <<op, listed, outcome, worker>>

Join ==
    /\ coord = "joining" /\ \A a \in Assets : worker[a] \notin InPool
    /\ child' = Joined
    /\ coord' = "ending" /\ CoordFrame /\ UNCHANGED <<op, listed, outcome, worker>>

\* The row gets its end, and the callback of the future removes the token.
End ==
    /\ coord = "ending" /\ op' = outcome /\ token' = "none" /\ coord' = "over"
    /\ UNCHANGED <<listed, outcome, worker, tracked, child, outside>>

Coordinate ==
    \/ Begin \/ Select \/ SeeCancel \/ ProgressRaises \/ AllCollected \/ Sweep \/ Join \/ End
    \/ \E a \in Assets : Submit(a) \/ Collect(a)

-----------------------------------------------------------------------------
(* cancel_operation, the children and the other refreshes. *)

Cancel ==
    /\ op \in ActiveStatuses /\ handler.at = "idle"
    /\ token' = (IF token = "none" THEN token ELSE "set")
    /\ handler' = [at |-> "children", children |-> listed]
    /\ UNCHANGED <<op, listed, coord, outcome, worker, tracked, child, others, overwritten>>
CancelChildren ==
    /\ handler.at = "children" /\ handler' = [handler EXCEPT !.at = "writing"]
    /\ child' = Told(handler.children)
    /\ UNCHANGED <<operation, coord, outcome, worker, tracked, others, overwritten>>
WriteCancelling ==
    /\ handler.at = "writing" /\ handler' = [handler EXCEPT !.at = "over"] /\ op' = "cancelling"
    /\ overwritten' = (op \in Terminal)
    /\ UNCHANGED <<listed, token, coord, outcome, worker, tracked, child, others>>

ChildEnds(a) ==
    /\ \/ child[a] = "active" /\ \E s \in {"completed", "failed"} : child' = [child EXCEPT ![a] = s]
       \/ child[a] = "cancelling" /\ child' = [child EXCEPT ![a] = "cancelled"]
    /\ UNCHANGED <<operation, coord, outcome, worker, tracked, outside>>

OthersTake ==
    /\ others + Cardinality({a \in Assets : worker[a] \in Holding}) < Slots /\ others' = others + 1
    /\ UNCHANGED <<operation, coord, outcome, worker, tracked, child, handler, overwritten>>
OthersRelease ==
    /\ others > 0 /\ others' = others - 1
    /\ UNCHANGED <<operation, coord, outcome, worker, tracked, child, handler, overwritten>>

Next ==
    \/ Request \/ Coordinate \/ Cancel \/ CancelChildren \/ WriteCancelling
    \/ \E a \in Assets : Work(a) \/ ChildEnds(a)
    \/ OthersTake \/ OthersRelease

Spec == Init /\ [][Next]_vars

\* An operation that is reported as ended does nothing any more, and one that is reported
\* as cancelled has no child that was not told to stop, also not a child started while
\* the cancellation was under way.  The row may be wrong in one way: the handler can
\* write 'cancelling' over the end.
EndedRefreshIsQuiet ==
    /\ op \in Terminal =>
          /\ coord = "over" /\ \A a \in Assets : worker[a] \notin InPool
          /\ op = "cancelled" => \A a \in Assets : child[a] # "active"
    /\ coord = "over" => op = outcome \/ overwritten
================================================================================

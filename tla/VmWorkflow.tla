------------------------------ MODULE VmWorkflow ------------------------------
(***************************************************************************)
(* VM workflows: a durable parent over child operations.  A workflow       *)
(* starts its children (one scan task, or one refresh scan per asset),     *)
(* waits for them, reconciles the remediation cases and ends.  It can be   *)
(* cancelled, retried, and resumed after a restart or when a session is    *)
(* connected.                                                              *)
(*                                                                         *)
(* A request whose idempotency key is known changes nothing and is left    *)
(* out; so is progress.  There is one campaign with one case per asset.  A *)
(* group verification is a campaign one whose campaign_id is never set.    *)
(***************************************************************************)
EXTENDS Integers, FiniteSets

CONSTANTS
    Workflows,   \* rows
    Assets,      \* assets of the campaign, or of the group
    Task,        \* the child of a scan workflow
    Existing,    \* the operation of a scan that was started before it was tracked
    Kinds,       \* the kinds of workflow that are requested, for each row
    Threads,     \* threads and waiting futures of the executor "vm-workflow"
    None,
    ConnectDuringRequest,   \* TRUE: a session may be connected while a request makes its row
    MaxCrashes,             \* bound on restarts
    MaxTroubles             \* bound on restarts and failing queries together

KindNames == {"scan", "tracked", "campaign", "group"}

ASSUME KindsKnown == Kinds \in [Workflows -> SUBSET KindNames]
ASSUME UnitsDistinct == Task # Existing /\ {Task, Existing} \cap Assets = {} /\ None \notin Workflows
ASSUME SetsFinite == IsFiniteSet(Workflows) /\ IsFiniteSet(Assets) /\ IsFiniteSet(Threads)
ASSUME WorkflowBounds == ConnectDuringRequest \in BOOLEAN /\ MaxCrashes \in Nat /\ MaxTroubles \in Nat

Units == Assets \cup {Task, Existing}
Children == Workflows \X Units

VARIABLES
    \* vm_workflow_runs and vm_workflow_steps
    status, cancel, kind, targets, campaign, retryOf, ops, errors, step,
    \* the child operations, and the cases of the campaign
    child, open, verdict, owner,
    \* the process
    scheduled, thread, req, stopping,
    killing,     \* operations that a cancellation has still to cancel
    \* bounds and history
    crashes, faults,
    launches,    \* how often MP VM was asked to start a child
    tooLate,     \* workflows cancelled after the last look at the flag before their end
    unlinked,    \* workflows run without the link to the scan that they were made to track
    cutOff       \* workflows whose process died, or failed, between their end and the record in the cases

rows == <<status, cancel, kind, targets, campaign, retryOf, ops, errors, step>>
cases == <<open, verdict, owner>>
process == <<scheduled, thread, req, stopping, killing>>
bounds == <<crashes, faults>>
history == <<tooLate, cutOff, unlinked>>
vars == <<rows, child, cases, process, bounds, launches, history>>

ACTIVE == {"queued", "running", "cancelling"}
TERMINAL == {"completed", "completed_with_errors", "failed", "cancelled"}
StepKeys == {"start", "postprocess", "reconcile"}
StepStatuses == {"pending", "running", "completed", "failed", "skipped", "cancelled"}
ChildActive == {"created", "running"}
Deciding == {"no_operations", "reading", "reconcile", "finalize", "complete"}
ThreadPoints == {"idle", "waiting", "begin", "start", "launch", "creating", "sending", "no_operations",
                 "monitor", "reading", "reconcile", "finalize", "complete", "cancelling", "tell_cancelled", "raised",
                 "tell_failed", "done"}
RequestPoints == {"none", "checked", "attach", "queue", "empty", "reuse", "link", "schedule", "monitor_only"}

IdleThread == [pc |-> "idle", w |-> None, camp |-> FALSE, token |-> FALSE, todo |-> {}, got |-> {},
               failed |-> {}, at |-> None]

TypeOK ==
    /\ status \in [Workflows -> ACTIVE \cup TERMINAL \cup {"absent"}]
    /\ cancel \in [Workflows -> BOOLEAN] /\ campaign \in [Workflows -> BOOLEAN]
    /\ kind \in [Workflows -> KindNames \cup {None}] /\ targets \in [Workflows -> SUBSET Units]
    /\ retryOf \in [Workflows -> Workflows \cup {None}]
    /\ ops \in [Workflows -> SUBSET Children] /\ errors \in [Workflows -> SUBSET Assets]
    /\ step \in [Workflows -> [StepKeys -> StepStatuses]]
    /\ child \in [Children -> {"none", "done", "failed", "cancelled"} \cup ChildActive]
    /\ open \in [Assets -> BOOLEAN] /\ verdict \in [Assets -> {"none", "queued", "running", "passed", "failed"}]
    /\ owner \in [Assets -> Workflows \cup {None}]
    /\ scheduled \subseteq Workflows /\ req \in [Workflows -> RequestPoints] /\ stopping \in BOOLEAN
    /\ killing \subseteq Children
    /\ thread \in [Threads -> [pc : ThreadPoints, w : Workflows \cup {None}, camp : BOOLEAN, token : BOOLEAN,
                               todo : SUBSET Units, got : SUBSET Children, failed : SUBSET Units,
                               at : Units \cup {None}]]
    /\ crashes \in 0..MaxTroubles /\ faults \in 0..MaxTroubles
    /\ launches \in [Children -> Nat] /\ tooLate \subseteq Workflows /\ cutOff \subseteq Workflows
    /\ unlinked \subseteq Workflows

Init ==
    /\ status = [w \in Workflows |-> "absent"] /\ cancel = [w \in Workflows |-> FALSE]
    /\ kind = [w \in Workflows |-> None] /\ targets = [w \in Workflows |-> {}]
    /\ campaign = [w \in Workflows |-> FALSE] /\ retryOf = [w \in Workflows |-> None]
    /\ ops = [w \in Workflows |-> {}] /\ errors = [w \in Workflows |-> {}]
    /\ step = [w \in Workflows |-> [k \in StepKeys |-> "pending"]]
    /\ child = [o \in Children |-> "none"] /\ launches = [o \in Children |-> 0]
    /\ open \in [Assets -> BOOLEAN] /\ verdict = [a \in Assets |-> "none"] /\ owner = [a \in Assets |-> None]
    /\ scheduled = {} /\ thread = [t \in Threads |-> IdleThread]
    /\ req = [w \in Workflows |-> "none"] /\ stopping = FALSE /\ killing = {}
    /\ crashes = 0 /\ faults = 0 /\ tooLate = {} /\ cutOff = {} /\ unlinked = {}

-----------------------------------------------------------------------------
(* The rows. *)

Active(w) == status[w] \in ACTIVE
CanRetry(w) == status[w] \in {"failed", "completed_with_errors", "cancelled"}

SetStatus(w, s) == status' = [status EXCEPT ![w] = s]
SetSteps(w, changed) == step' = [step EXCEPT ![w] = [k \in StepKeys |-> IF k \in DOMAIN changed THEN changed[k] ELSE @[k]]]

Create(w, k, units, source, pc) ==
    /\ status[w] = "absent"
    /\ SetStatus(w, "queued")
    /\ kind' = [kind EXCEPT ![w] = k] /\ targets' = [targets EXCEPT ![w] = units]
    /\ retryOf' = [retryOf EXCEPT ![w] = source]
    /\ req' = [req EXCEPT ![w] = pc]
    /\ UNCHANGED <<cancel, campaign, ops, errors, step>>

\* Every open case of the campaign now belongs to this workflow.
SetCampaignVerification(w, s) ==
    /\ verdict' = [a \in Assets |-> IF open[a] THEN s ELSE verdict[a]]
    /\ owner' = [a \in Assets |-> IF open[a] THEN w ELSE owner[a]]
    /\ UNCHANGED open

\* Mutant: only the cases that were resolved get a verdict.
FinalizeResolvedOnly(w, bad) ==
    /\ verdict' = [a \in Assets |-> IF owner[a] = w /\ ~open[a] THEN (IF a \in bad THEN "failed" ELSE "passed")
                                    ELSE verdict[a]]
    /\ UNCHANGED <<open, owner>>

\* The cases that still belong to this workflow, resolved or not.
FinalizeCampaignVerification(w, bad) ==
    /\ verdict' = [a \in Assets |->
                      IF owner[a] # w THEN verdict[a]
                      ELSE IF open[a] \/ a \in bad THEN "failed" ELSE "passed"]
    /\ UNCHANGED <<open, owner>>

\* Which idle thread takes a workflow makes no difference.
FreeThread ==
    LET idle == {t \in Threads : thread[t].pc = "idle"}
    IN  IF idle = {} THEN {} ELSE {CHOOSE t \in idle : TRUE}

Schedule(w) ==
    IF w \in scheduled THEN UNCHANGED <<thread, scheduled>>
    ELSE \E t \in FreeThread :
        /\ thread' = [thread EXCEPT ![t] = [IdleThread EXCEPT !.pc = "waiting", !.w = w]]
        /\ scheduled' = scheduled \cup {w}

-----------------------------------------------------------------------------
(* Requests.  Each one is a thread of its own that works on its new row. *)

Outside == <<child, killing, bounds, launches, history>>

\* The preflight only advises: conflicts block when the request says so.
StartScan(w) ==
    /\ "scan" \in Kinds[w] /\ ~stopping
    /\ Create(w, "scan", {Task}, None, "schedule")
    /\ UNCHANGED <<cases, scheduled, thread, stopping, Outside>>

\* The scan runs already when its workflow is created.
TrackScan(w) ==
    /\ "tracked" \in Kinds[w] /\ ~stopping
    /\ Create(w, "tracked", {Task}, None, "link")
    /\ child' = [child EXCEPT ![<<w, Existing>>] = "running"]
    /\ launches' = [launches EXCEPT ![<<w, Existing>>] = 1]
    /\ UNCHANGED <<cases, scheduled, thread, stopping, killing, bounds, history>>

StartGroup(w) ==
    /\ "group" \in Kinds[w] /\ ~stopping
    /\ Create(w, "group", Assets, None, "schedule")
    /\ UNCHANGED <<cases, scheduled, thread, stopping, Outside>>

\* The test for an active verification and the creation are two transactions.
CheckCampaign(w) ==
    /\ "campaign" \in Kinds[w] /\ ~stopping /\ status[w] = "absent" /\ req[w] = "none"
    /\ ~\E v \in Workflows : campaign[v] /\ Active(v)
    /\ req' = [req EXCEPT ![w] = "checked"]
    /\ targets' = [targets EXCEPT ![w] = {a \in Assets : open[a]}]
    /\ UNCHANGED <<status, cancel, kind, campaign, retryOf, ops, errors, step, cases, scheduled, thread, stopping, Outside>>

StartVerification(w) ==
    /\ req[w] = "checked"
    /\ Create(w, "campaign", targets[w], None, "attach")
    /\ UNCHANGED <<cases, scheduled, thread, stopping, Outside>>

\* Only the reconciliation of the source failed: its operations are used again.
Reusable(v) ==
    /\ step[v]["reconcile"] = "failed" /\ step[v]["start"] # "failed" /\ step[v]["postprocess"] # "failed"
    /\ ops[v] # {}

AfterAttach(w) ==
    IF retryOf[w] # None /\ Reusable(retryOf[w]) THEN "reuse" ELSE "schedule"

Retry(w, v) ==
    /\ ~stopping /\ req[w] = "none" /\ CanRetry(v)
    /\ Create(w, kind[v], targets[v], v,
              IF kind[v] = "campaign" THEN "attach" ELSE IF Reusable(v) THEN "reuse" ELSE "schedule")
    /\ UNCHANGED <<cases, scheduled, thread, stopping, Outside>>

Attach(w) ==
    /\ req[w] = "attach"
    /\ campaign' = [campaign EXCEPT ![w] = TRUE]
    /\ req' = [req EXCEPT ![w] = IF targets[w] = {} /\ retryOf[w] = None THEN "empty" ELSE "queue"]
    /\ UNCHANGED <<status, cancel, kind, targets, retryOf, ops, errors, step, cases, scheduled, thread, stopping, Outside>>

NothingToVerify(w) ==
    /\ req[w] = "empty"
    /\ SetStatus(w, "completed")
    /\ SetSteps(w, [start |-> "completed", postprocess |-> "skipped", reconcile |-> "completed"])
    /\ req' = [req EXCEPT ![w] = "none"]
    /\ UNCHANGED <<cancel, kind, targets, campaign, retryOf, ops, errors, cases, scheduled, thread, stopping, Outside>>

QueueCases(w) ==
    /\ req[w] = "queue"
    /\ SetCampaignVerification(w, "queued")
    /\ req' = [req EXCEPT ![w] = AfterAttach(w)]
    /\ UNCHANGED <<rows, scheduled, thread, stopping, Outside>>

\* The start errors of the source are not taken over.
ResumeReconciliation(w) ==
    /\ req[w] = "reuse"
    /\ SetStatus(w, "running")
    /\ ops' = [ops EXCEPT ![w] = ops[retryOf[w]]]
    /\ SetSteps(w, [start |-> "completed", postprocess |-> "completed"])
    /\ req' = [req EXCEPT ![w] = "monitor_only"]
    /\ UNCHANGED <<cancel, kind, targets, campaign, retryOf, errors, cases, scheduled, thread, stopping, Outside>>

LinkScan(w) ==
    /\ req[w] = "link"
    /\ SetStatus(w, "running")
    /\ ops' = [ops EXCEPT ![w] = {<<w, Existing>>}]
    /\ SetSteps(w, [start |-> "completed", postprocess |-> "running"])
    /\ req' = [req EXCEPT ![w] = "monitor_only"]
    /\ UNCHANGED <<cancel, kind, targets, campaign, retryOf, errors, cases, scheduled, thread, stopping, Outside>>

ScheduleRequest(w) ==
    /\ req[w] \in {"schedule", "monitor_only"}
    /\ Schedule(w)
    /\ req' = [req EXCEPT ![w] = "none"]
    /\ UNCHANGED <<rows, cases, stopping, Outside>>

NotedUnlinked(ws) == unlinked' = unlinked \cup {w \in ws : req[w] = "link"}

\* Mutant: a workflow that was still queued is forgotten.
ResumeRunning(w) ==
    /\ status[w] = "running" /\ ~stopping
    /\ req[w] = "none" \/ ConnectDuringRequest
    /\ Schedule(w) /\ NotedUnlinked({w})
    /\ UNCHANGED <<rows, cases, req, stopping, child, killing, bounds, launches, tooLate, cutOff>>

\* At startup, and whenever a session is connected.
Resume(w) ==
    /\ Active(w) /\ ~stopping
    /\ req[w] = "none" \/ ConnectDuringRequest
    /\ Schedule(w) /\ NotedUnlinked({w})
    /\ UNCHANGED <<rows, cases, req, stopping, child, killing, bounds, launches, tooLate, cutOff>>

\* The row, then the token of the thread, then the operations recorded by now; a
\* finished workflow's too.
Cancel(w) ==
    /\ ~stopping /\ status[w] # "absent"
    /\ IF Active(w)
       THEN /\ SetStatus(w, "cancelling") /\ cancel' = [cancel EXCEPT ![w] = TRUE]
            /\ tooLate' = IF \E t \in Threads : thread[t].w = w /\ thread[t].pc \in Deciding
                          THEN tooLate \cup {w} ELSE tooLate
       ELSE UNCHANGED <<status, cancel, tooLate>>
    /\ thread' = [t \in Threads |-> IF thread[t].w = w THEN [thread[t] EXCEPT !.token = TRUE] ELSE thread[t]]
    /\ killing' = killing \cup ops[w]
    /\ UNCHANGED <<kind, targets, campaign, retryOf, ops, errors, step, child, cases, scheduled, req, stopping,
                   bounds, launches, cutOff, unlinked>>

CancelChild(o) ==
    /\ o \in killing
    /\ killing' = killing \ {o}
    /\ child' = [child EXCEPT ![o] = IF @ \in ChildActive THEN "cancelled" ELSE @]
    /\ UNCHANGED <<rows, cases, scheduled, thread, req, stopping, bounds, launches, history>>

-----------------------------------------------------------------------------
(* A thread of the pool: _run. *)

Beside == <<scheduled, req, stopping, killing, bounds, history>>
Go(t, pc) == thread' = [thread EXCEPT ![t].pc = pc]

\* The token is new; the row is read once and the thread works on that copy.
Open(t) ==
    LET w == thread[t].w IN
    /\ thread[t].pc = "waiting"
    /\ thread' = [thread EXCEPT ![t] = [@ EXCEPT
                      !.token = FALSE, !.camp = campaign[w], !.got = ops[w],
                      !.pc = IF ~Active(w) THEN "done" ELSE IF cancel[w] THEN "cancelling" ELSE "begin"]]
    /\ UNCHANGED <<rows, child, cases, launches, Beside>>

\* Written without a condition, over 'cancelling' too.
Begin(t) ==
    /\ thread[t].pc = "begin"
    /\ SetStatus(thread[t].w, "running")
    /\ Go(t, IF thread[t].got = {} THEN "start" ELSE "monitor")
    /\ UNCHANGED <<cancel, kind, targets, campaign, retryOf, ops, errors, step, child, cases, launches, Beside>>

Start(t) ==
    LET w == thread[t].w IN
    /\ thread[t].pc = "start"
    /\ SetSteps(w, [start |-> "running"])
    /\ IF thread[t].camp THEN SetCampaignVerification(w, "running") ELSE UNCHANGED cases
    /\ thread' = [thread EXCEPT ![t].pc = "launch", ![t].todo = targets[w]]
    /\ UNCHANGED <<status, cancel, kind, targets, campaign, retryOf, ops, errors, child, launches, Beside>>

\* One child after the other, in the order of the request.
Upcoming(t, c) ==
    thread[t].pc = "launch" /\ thread[t].todo # {} /\ c = CHOOSE u \in thread[t].todo : TRUE

\* No cancellation is looked at between two children.
Settled(t, c, found, refused) ==
    LET h == thread[t] IN
    thread' = [thread EXCEPT ![t] = [h EXCEPT
        !.todo = @ \ {c}, !.at = None, !.got = @ \cup found, !.failed = @ \cup refused,
        !.pc = IF c = Task /\ refused # {} THEN "raised" ELSE "launch"]]

\* The key of the child is known: a former attempt has started it.
Known(o) == child[o] # "none"

Replay(t, c) ==
    /\ Upcoming(t, c) /\ Known(<<thread[t].w, c>>)
    /\ Settled(t, c, {<<thread[t].w, c>>}, {})
    /\ UNCHANGED <<rows, child, cases, launches, Beside>>

RefreshActive(c) == c \in Assets /\ \E v \in Workflows : child[<<v, c>>] \in ChildActive

CheckChild(t, c) ==
    /\ Upcoming(t, c) /\ ~Known(<<thread[t].w, c>>)
    /\ ~RefreshActive(c)
    /\ thread' = [thread EXCEPT ![t].pc = "creating", ![t].at = c]
    /\ UNCHANGED <<rows, child, cases, launches, Beside>>

\* An error before the row of the child exists, an active refresh of the asset among them.
RefuseChild(t, c) ==
    /\ Upcoming(t, c) /\ ~Known(<<thread[t].w, c>>)
    /\ Settled(t, c, {}, {c})
    /\ UNCHANGED <<rows, child, cases, launches, Beside>>

\* A refresh task that MP VM finds invalid: no operation and no error either.
DropChild(t, c) ==
    /\ Upcoming(t, c) /\ c \in Assets /\ ~Known(<<thread[t].w, c>>)
    /\ Settled(t, c, {}, {})
    /\ UNCHANGED <<rows, child, cases, launches, Beside>>

\* The row and its unique key come before the start in MP VM.
CreateChild(t) ==
    LET c == thread[t].at  o == <<thread[t].w, c>> IN
    /\ thread[t].pc = "creating"
    /\ IF child[o] = "none"
       THEN child' = [child EXCEPT ![o] = "created"] /\ Go(t, "sending")
       ELSE Settled(t, c, {}, {c}) /\ UNCHANGED child
    /\ UNCHANGED <<rows, cases, launches, Beside>>

SendChild(t) ==
    LET c == thread[t].at  o == <<thread[t].w, c>> IN
    /\ thread[t].pc = "sending"
    /\ child' = [child EXCEPT ![o] = "running"] /\ launches' = [launches EXCEPT ![o] = @ + 1]
    /\ Settled(t, c, {o}, {})
    /\ UNCHANGED <<rows, cases, Beside>>

\* Mutant: a failed start takes its row back, and the key with it.
SendFailsForgotten(t) ==
    LET c == thread[t].at  o == <<thread[t].w, c>> IN
    /\ thread[t].pc = "sending"
    /\ child' = [child EXCEPT ![o] = "none"]
    /\ launches' = [launches EXCEPT ![o] = @ + 1]
    /\ Settled(t, c, {}, {c})
    /\ UNCHANGED <<rows, cases, Beside>>

\* The call raises; MP VM may have started the scan all the same.
SendFails(t) ==
    LET c == thread[t].at  o == <<thread[t].w, c>> IN
    /\ thread[t].pc = "sending"
    /\ child' = [child EXCEPT ![o] = "failed"]
    /\ launches' = [launches EXCEPT ![o] = @ + 1]
    /\ Settled(t, c, {}, {c})
    /\ UNCHANGED <<rows, cases, Beside>>

Record(t) ==
    LET w == thread[t].w  got == thread[t].got  failed == thread[t].failed IN
    /\ thread[t].pc = "launch" /\ thread[t].todo = {}
    /\ ops' = [ops EXCEPT ![w] = got] /\ errors' = [errors EXCEPT ![w] = failed]
    /\ SetSteps(w, [start |-> IF got = {} THEN "failed" ELSE "completed",
                    postprocess |-> IF got = {} THEN "pending" ELSE "running"])
    /\ Go(t, IF got # {} THEN "monitor" ELSE IF failed # {} THEN "no_operations" ELSE "raised")
    /\ UNCHANGED <<status, cancel, kind, targets, campaign, retryOf, child, cases, launches, Beside>>

CompleteWithoutOperations(t) ==
    LET w == thread[t].w IN
    /\ thread[t].pc = "no_operations"
    /\ SetSteps(w, [postprocess |-> "skipped", reconcile |-> "skipped"])
    /\ IF campaign[w] THEN FinalizeCampaignVerification(w, errors[w]) ELSE UNCHANGED cases
    /\ Go(t, "complete")
    /\ UNCHANGED <<status, cancel, kind, targets, campaign, retryOf, ops, errors, child, launches, Beside>>

\* Mutant: the status is looked at, which 'running' has overwritten.
CancelSeenInStatus(t) == status[thread[t].w] = "cancelling"

CancelSeen(t) == thread[t].token \/ cancel[thread[t].w]

MonitorCancelled(t) ==
    /\ thread[t].pc = "monitor" /\ CancelSeen(t)
    /\ thread' = [thread EXCEPT ![t].pc = "cancelling", ![t].camp = campaign[thread[t].w]]
    /\ UNCHANGED <<rows, child, cases, launches, Beside>>

\* The row is read and the flag looked at; the children are read after that.
MonitorLooks(t) ==
    /\ thread[t].pc = "monitor" /\ ~CancelSeen(t)
    /\ thread' = [thread EXCEPT ![t].pc = "reading", ![t].camp = campaign[thread[t].w]]
    /\ UNCHANGED <<rows, child, cases, launches, Beside>>

\* A child still runs: the next round looks at the flag again.
MonitorWaits(t) ==
    /\ thread[t].pc = "reading" /\ \E o \in thread[t].got : child[o] \in ChildActive
    /\ Go(t, "monitor")
    /\ tooLate' = tooLate \ {thread[t].w}
    /\ UNCHANGED <<rows, child, cases, scheduled, req, stopping, killing, bounds, launches, cutOff, unlinked>>

Unsuccessful(got) == {o \in got : child[o] # "done"}

\* A child that has ended stays ended: reading one after the other makes no difference.
MonitorFinished(t) ==
    LET w == thread[t].w  bad == Unsuccessful(thread[t].got) IN
    /\ thread[t].pc = "reading" /\ \A o \in thread[t].got : child[o] \notin ChildActive
    /\ SetSteps(w, [postprocess |-> IF bad = {} THEN "completed" ELSE "failed", reconcile |-> "running"])
    /\ thread' = [thread EXCEPT ![t] = [@ EXCEPT
                      !.pc = "reconcile", !.failed = {o[2] : o \in bad} \cup errors[w]]]
    /\ UNCHANGED <<status, cancel, kind, targets, campaign, retryOf, ops, errors, child, cases, launches, Beside>>

\* An error in the reconciliation of an asset is logged and counts as no change.
Reconcile(t) ==
    LET w == thread[t].w IN
    /\ thread[t].pc = "reconcile"
    /\ SetSteps(w, [reconcile |-> IF kind[w] = "group" THEN "skipped" ELSE "completed"])
    /\ open' \in IF kind[w] = "group" THEN {open} ELSE {[a \in Assets |-> open[a] /\ a \notin R] : R \in SUBSET Assets}
    /\ Go(t, "finalize")
    /\ UNCHANGED <<status, cancel, kind, targets, campaign, retryOf, ops, errors, child, verdict, owner, launches, Beside>>

Finalize(t) ==
    /\ thread[t].pc = "finalize"
    /\ IF thread[t].camp THEN FinalizeCampaignVerification(thread[t].w, thread[t].failed) ELSE UNCHANGED cases
    /\ Go(t, "complete")
    /\ UNCHANGED <<rows, child, launches, Beside>>

\* Written without a condition, over 'cancelling' too.
Complete(t) ==
    /\ thread[t].pc = "complete"
    /\ SetStatus(thread[t].w, IF thread[t].failed = {} THEN "completed" ELSE "completed_with_errors")
    /\ Go(t, "done")
    /\ UNCHANGED <<cancel, kind, targets, campaign, retryOf, ops, errors, step, child, cases, launches, Beside>>

FinishCancelled(t) ==
    LET w == thread[t].w IN
    /\ thread[t].pc = "cancelling"
    /\ SetStatus(w, "cancelled")
    /\ SetSteps(w, [k \in {j \in StepKeys : step[w][j] \in {"pending", "running"}} |-> "cancelled"])
    /\ Go(t, "tell_cancelled")
    /\ UNCHANGED <<cancel, kind, targets, campaign, retryOf, ops, errors, child, cases, launches, Beside>>

\* The first running step, or else the first pending one, has failed.
FailedStep(w) ==
    LET First(s) == IF step[w]["start"] = s THEN "start" ELSE IF step[w]["postprocess"] = s THEN "postprocess" ELSE "reconcile" IN
    IF \E k \in StepKeys : step[w][k] = "running" THEN First("running")
    ELSE IF \E k \in StepKeys : step[w][k] = "pending" THEN First("pending") ELSE "start"

Fail(t) ==
    LET w == thread[t].w IN
    /\ thread[t].pc = "raised"
    /\ IF status[w] \in TERMINAL THEN Go(t, "done") /\ UNCHANGED <<status, step>>
       ELSE /\ SetStatus(w, "failed")
            /\ SetSteps(w, [k \in {FailedStep(w)} |-> "failed"])
            /\ thread' = [thread EXCEPT ![t].pc = "tell_failed", ![t].camp = campaign[w]]
    /\ UNCHANGED <<cancel, kind, targets, campaign, retryOf, ops, errors, child, cases, launches, Beside>>

Tell(t) ==
    /\ thread[t].pc \in {"tell_cancelled", "tell_failed"}
    /\ IF thread[t].camp THEN SetCampaignVerification(thread[t].w, "failed") ELSE UNCHANGED cases
    /\ Go(t, "done")
    /\ UNCHANGED <<rows, child, launches, Beside>>

\* The done callback runs after the thread has left _run.
Forget(t) ==
    /\ thread[t].pc = "done"
    /\ scheduled' = scheduled \ {thread[t].w}
    /\ thread' = [thread EXCEPT ![t] = IdleThread]
    /\ UNCHANGED <<rows, child, cases, req, stopping, killing, bounds, launches, history>>

Telling == {"tell_cancelled", "tell_failed"}

\* A query raises: _run fails the workflow, and gives up when that raises too.
DatabaseFails(t) ==
    /\ crashes + faults < MaxTroubles /\ faults' = faults + 1
    /\ thread[t].pc \notin {"idle", "launch", "creating", "sending", "done"}
    /\ Go(t, IF thread[t].pc \in {"raised", "tell_failed"} THEN "done" ELSE "raised")
    /\ cutOff' = IF thread[t].pc \in Telling THEN cutOff \cup {thread[t].w} ELSE cutOff
    /\ UNCHANGED <<rows, child, cases, scheduled, req, stopping, killing, crashes, launches, tooLate, unlinked>>

-----------------------------------------------------------------------------
(* The process and the world. *)

MayStop == crashes < MaxCrashes /\ crashes + faults < MaxTroubles

\* Registered tokens are set and waiting futures dropped; threads go on until the end.
Shutdown ==
    /\ ~stopping /\ MayStop /\ crashes' = crashes + 1
    /\ stopping' = TRUE
    /\ thread' = [t \in Threads |-> IF thread[t].pc = "waiting" THEN [thread[t] EXCEPT !.pc = "done"]
                                    ELSE IF thread[t].pc = "idle" THEN IdleThread ELSE [thread[t] EXCEPT !.token = TRUE]]
    /\ UNCHANGED <<rows, child, cases, scheduled, req, killing, faults, launches, history>>

Restart ==
    /\ scheduled' = {} /\ thread' = [t \in Threads |-> IdleThread] /\ killing' = {}
    /\ req' = [w \in Workflows |-> "none"] /\ stopping' = FALSE
    /\ cutOff' = cutOff \cup {thread[t].w : t \in {u \in Threads : thread[u].pc \in Telling}}
    /\ NotedUnlinked(Workflows)
    /\ UNCHANGED <<rows, child, cases, faults, launches, tooLate>>

Crash == ~stopping /\ MayStop /\ crashes' = crashes + 1 /\ Restart
Exit == stopping /\ UNCHANGED crashes /\ Restart

\* A child ends; "failed" is every end but success, also with errors or cancelled on its
\* own. One whose start was cut off ends as failed.
ChildEnds(o) ==
    /\ \/ child[o] = "running" /\ child' \in {[child EXCEPT ![o] = s] : s \in {"done", "failed"}}
       \/ /\ child[o] = "created" /\ ~\E t \in Threads : thread[t].pc = "sending" /\ <<thread[t].w, thread[t].at>> = o
          /\ child' = [child EXCEPT ![o] = "failed"]
    /\ UNCHANGED <<rows, cases, process, bounds, launches, history>>

\* Another reconciliation resolves the case.
CaseResolved(a) ==
    /\ open[a] /\ open' = [open EXCEPT ![a] = FALSE]
    /\ UNCHANGED <<rows, child, verdict, owner, process, bounds, launches, history>>

-----------------------------------------------------------------------------
Ask(w) ==
    \/ StartScan(w) \/ TrackScan(w) \/ StartGroup(w) \/ CheckCampaign(w) \/ Cancel(w)
    \/ \E v \in Workflows : Retry(w, v)
Request(w) ==
    \/ StartVerification(w) \/ Attach(w) \/ NothingToVerify(w) \/ QueueCases(w)
    \/ ResumeReconciliation(w) \/ LinkScan(w) \/ ScheduleRequest(w)
Launch(t) ==
    \/ \E c \in Units : Replay(t, c) \/ CheckChild(t, c) \/ RefuseChild(t, c) \/ DropChild(t, c)
    \/ CreateChild(t) \/ SendChild(t) \/ SendFails(t) \/ Record(t)
Run(t) ==
    \/ Open(t) \/ Begin(t) \/ Start(t) \/ Launch(t) \/ CompleteWithoutOperations(t)
    \/ MonitorCancelled(t) \/ MonitorLooks(t) \/ MonitorWaits(t) \/ MonitorFinished(t)
    \/ Reconcile(t) \/ Finalize(t) \/ Complete(t)
    \/ FinishCancelled(t) \/ Fail(t) \/ Tell(t) \/ Forget(t)

Next ==
    \/ \E w \in Workflows : Ask(w) \/ Request(w) \/ Resume(w)
    \/ \E t \in Threads : Run(t) \/ DatabaseFails(t)
    \/ \E o \in Children : ChildEnds(o) \/ CancelChild(o)
    \/ \E a \in Assets : CaseResolved(a)
    \/ Shutdown \/ Crash \/ Exit

Spec == Init /\ [][Next]_vars

\* Requests and threads run on, children end, a stopped process is started again and
\* resumes what it finds.
Fairness ==
    /\ WF_vars(\E w \in Workflows : Request(w)) /\ WF_vars(\E w \in Workflows : Resume(w))
    /\ \A t \in Threads : WF_vars(Run(t))
    /\ WF_vars(\E o \in Children : ChildEnds(o))
    /\ WF_vars(Exit)

FairSpec == Spec /\ Fairness

-----------------------------------------------------------------------------
(* Properties. *)

\* A child is started in MP VM at most once for its workflow, over crashes between its
\* row, its start and the record of it, and over every resume.
ChildLaunchedOnce == \A o \in Children : launches[o] <= 1

\* 'Deduplication of workers': no two threads work on one workflow.
OneThreadPerWorkflow == \A w \in Workflows : Cardinality({t \in Threads : thread[t].w = w}) <= 1

\* A workflow that tracks a scan starts no other one, as long as none of its threads ran
\* without the link: a restart, or a session that is connected, between the row of the
\* workflow and the link has the task started a second time.
TrackedScanNotRepeated ==
    \A w \in Workflows :
        launches[<<w, Existing>>] + launches[<<w, Task>>] <= 1 \/ w \in unlinked

\* Threads, crashes and resumes repeat neither a start nor a workflow, but for the tracked
\* scan that was not linked.
NothingRunsTwice == ChildLaunchedOnce /\ TrackedScanNotRepeated /\ OneThreadPerWorkflow

\* A case that waits for a verification has a workflow that will still tell it, however
\* verifications of the campaign overlap; or that one was cut off after its end.
WaitingCaseHasWorkflow ==
    \A a \in Assets : open[a] /\ verdict[a] \in {"queued", "running"} =>
        \/ Active(owner[a]) \/ owner[a] \in cutOff \/ req[owner[a]] # "none"
        \/ \E t \in Threads : thread[t].w = owner[a] /\ thread[t].pc \in Telling

\* A cancellation is not lost to 'running' or to a restart: the workflow does not end as
\* completed.  It comes too late from the last look at the flag on, that is, before the last
\* child is read; and nothing looks at it when no child could be started.
CancelBeforeEndWins ==
    \A w \in Workflows : cancel[w] /\ status[w] \in {"completed", "completed_with_errors"} =>
        w \in tooLate \/ ops[w] = {}

\* A workflow that ends as completed has no unsuccessful child and no start error.
CompletedHidesNoFailure ==
    \A w \in Workflows : status[w] = "completed" =>
        errors[w] = {} /\ \A o \in ops[w] : child[o] = "done"

\* What a workflow reports at its end is what happened.
EndIsTruthful == CancelBeforeEndWins /\ CompletedHidesNoFailure

\* Every workflow ends, over restarts, unless a query failed.
WorkflowEnds == \A w \in Workflows : (Active(w) /\ faults = 0) ~> (~Active(w) \/ faults > 0)
=============================================================================

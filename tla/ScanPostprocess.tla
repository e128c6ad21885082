--------------------------- MODULE ScanPostprocess ---------------------------
(***************************************************************************)
(* Post-processing of one scanner run: the run row and its lease, the      *)
(* worker that watches MP VM jobs and queues the assets they found, the    *)
(* threads that turn each asset into a local card and then have MP VM      *)
(* remove it, cancellation by the operator, and crashes.                   *)
(*                                                                         *)
(* An item is identified by the asset it was queued for (item_key).  The   *)
(* build job an item waits for is AssetCardJobs; here it saves a card,     *)
(* rebinds the item to the id the card was saved under, or fails.          *)
(***************************************************************************)
EXTENDS Naturals, FiniteSets

CONSTANTS
    Targets,              \* targets of the scanner jobs
    Assets,               \* MP VM object identifiers
    AssetsOf,             \* [Targets -> SUBSET Assets]: what a target resolves to
    HostOf,               \* the identity a saved card is matched by
    OldCards,             \* cards saved before the run, under ids MP VM no longer has
    RefreshSource,        \* options.refresh_asset_id, or NoAsset
    ProcessWorkers,       \* SCAN_ASSET_PROCESS_WORKERS
    NoAsset,
    RecoverBeforeServing, \* TRUE: the database answers when the process starts
    DatabaseFaults,       \* TRUE: the writes that queue an item or end the run may fail
    MaxCrashes            \* bound on crashes

Ids == Assets \cup OldCards

ASSUME AssetsOfType == AssetsOf \in [Targets -> SUBSET Assets]
\* A target names the hosts of its own job: an asset is found through one target.
ASSUME TargetsDisjoint ==
    \A t, u \in Targets : t # u => AssetsOf[t] \cap AssetsOf[u] = {}
ASSUME OldCardsGone == OldCards \cap Assets = {}
ASSUME NoAssetFresh == NoAsset \notin Ids
ASSUME RefreshSourceType == RefreshSource \in Ids \cup {NoAsset}
ASSUME WorkersPositive == ProcessWorkers \in Nat \ {0}
ASSUME FlagsBoolean == RecoverBeforeServing \in BOOLEAN /\ DatabaseFaults \in BOOLEAN
ASSUME MaxCrashesNat == MaxCrashes \in Nat

VARIABLES
    \* scan_postprocess_runs, scan_postprocess_items, asset_cards, asset_scan_evidence
    status, leased, cancelRequested,
    item,         \* item status for each asset, "absent" before the INSERT
    itemAsset,    \* column asset_id, which a rebind changes
    removalOp,    \* the asset whose removal operation the row records, or NoAsset
    failedTargets,
    cards, evidence,
    \* the process
    wpc,          \* program point of run_scan_postprocess
    doomed,       \* claimed.cancel_requested as the claim returned it
    cancelEvent,  \* is the event of the run in SCAN_POSTPROCESS_CANCEL_EVENTS set
    signalling,   \* a cancel handler is between the row and the event
    resolved,     \* resolved_job_targets
    pending,      \* pending_targets
    seen,         \* seen_asset_ids
    found,        \* pairs <<target, asset>> of this poll that are not yet looked at
    scheduled,    \* targets of this poll with a scheduled asset
    backlog,      \* items stored and not yet submitted
    wave,         \* asset_futures
    ipc,          \* program point of the thread of an item
    cur,          \* its local asset_id
    recovered,
    \* MP VM
    succeeded,    \* targets of successful jobs
    remote,       \* assets in MP VM
    \* bounds and history
    crashes,
    asked,        \* assets MP VM was asked to remove
    askedBy,      \* items whose thread asked
    collected,    \* assets whose build saved a card
    cut           \* items an acknowledged cancellation found before their removal

row == <<status, leased, cancelRequested>>
items == <<item, itemAsset, removalOp, failedTargets>>
local == <<cards, evidence>>
worker == <<wpc, doomed, resolved, pending, seen, found, scheduled, backlog, wave>>
thread == <<ipc, cur>>
flags == <<cancelEvent, signalling, recovered>>
mpvm == <<succeeded, remote>>
history == <<crashes, asked, askedBy, collected, cut>>
vars == <<row, items, local, worker, thread, flags, mpvm, history>>

ActiveStatuses == {"monitoring", "processing", "cancelling"}
FinalStatuses == {"completed", "completed_with_errors", "failed", "cancelled"}
FailedItem == {"build_failed", "removal_failed"}
ItemStatuses == {"absent", "queued", "preparing", "building", "card_saved", "deleting",
                 "completed", "cancelled"} \cup FailedItem
Looping == {"monitoring", "queueing", "polled"}
WorkerPoints == Looping \cup
                {"none", "claimed", "draining", "summarising", "evidenced",
                 "finalised", "cancelling", "failing"}
ThreadPoints == {"none", "submitted", "probing", "building", "built", "returned", "saved",
                 "removing", "recording", "waiting", "done", "raised"}

TypeOK ==
    /\ status \in ActiveStatuses \cup FinalStatuses
    /\ leased \in BOOLEAN /\ cancelRequested \in BOOLEAN
    /\ item \in [Assets -> ItemStatuses]
    /\ itemAsset \in [Assets -> Ids]
    /\ removalOp \in [Assets -> Ids \cup {NoAsset}]
    /\ failedTargets \subseteq Targets
    /\ cards \subseteq Ids /\ evidence \subseteq Ids
    /\ wpc \in WorkerPoints
    /\ doomed \in BOOLEAN /\ cancelEvent \in BOOLEAN /\ signalling \in BOOLEAN
    /\ recovered \in BOOLEAN
    /\ resolved \subseteq Targets /\ pending \subseteq Targets /\ scheduled \subseteq Targets
    /\ seen \subseteq Ids
    /\ found \subseteq Targets \X Assets
    /\ backlog \subseteq Assets /\ wave \subseteq Assets
    /\ ipc \in [Assets -> ThreadPoints]
    /\ cur \in [Assets -> Ids]
    /\ succeeded \subseteq Targets /\ remote \subseteq Assets
    /\ crashes \in 0..MaxCrashes
    /\ asked \subseteq Ids /\ collected \subseteq Ids
    /\ askedBy \subseteq Assets /\ cut \subseteq Assets

Init ==
    /\ status = "monitoring" /\ leased = FALSE /\ cancelRequested = FALSE
    /\ item = [a \in Assets |-> "absent"]
    /\ itemAsset = [a \in Assets |-> a]
    /\ removalOp = [a \in Assets |-> NoAsset]
    /\ failedTargets = {}
    /\ cards = OldCards /\ evidence = {}
    /\ wpc = "none" /\ doomed = FALSE
    /\ cancelEvent = FALSE /\ signalling = FALSE /\ recovered = RecoverBeforeServing
    /\ resolved = {} /\ pending = {} /\ seen = {} /\ found = {} /\ scheduled = {}
    /\ backlog = {} /\ wave = {}
    /\ ipc = [a \in Assets |-> "none"]
    /\ cur = [a \in Assets |-> a]
    /\ succeeded = {} /\ remote = Assets
    /\ crashes = 0 /\ asked = {} /\ askedBy = {} /\ collected = {} /\ cut = {}

-----------------------------------------------------------------------------
(* MP VM and the scan. *)

JobSucceeds(t) ==
    /\ t \notin succeeded
    /\ succeeded' = succeeded \cup {t}
    /\ UNCHANGED <<row, items, local, worker, thread, flags, remote, history>>

RemovalTakesEffect(a) ==
    /\ a \in asked \cap remote
    /\ remote' = remote \ {a}
    /\ UNCHANGED <<row, items, local, worker, thread, flags, succeeded, history>>

-----------------------------------------------------------------------------
(* The worker of the run. *)

ToResume ==
    {a \in Assets : item[a] \in {"queued", "preparing", "building", "card_saved", "deleting",
                                 "cancelled"}}

\* A future that is not done keeps schedule_scan_postprocess from making another,
\* so the process has at most one worker; the lease is taken by the claim.
Claim ==
    /\ wpc = "none"
    /\ status \in ActiveStatuses /\ ~leased
    /\ leased' = TRUE
    /\ wpc' = "claimed"
    /\ doomed' = cancelRequested
    /\ UNCHANGED <<status, cancelRequested, items, local, resolved, pending, seen, found,
                   scheduled, backlog, wave, thread, flags, mpvm, history>>

\* A run cancelled before its claim stops here; otherwise monitoring starts from
\* the items the database already has.
BeginMonitoring ==
    /\ wpc = "claimed"
    /\ IF doomed \/ cancelEvent
       THEN /\ wpc' = "cancelling"
            /\ UNCHANGED <<resolved, pending, seen, backlog>>
       ELSE /\ wpc' = "monitoring"
            /\ resolved' = {t \in Targets : \E a \in AssetsOf[t] : item[a] # "absent"}
            /\ pending' = {}
            /\ seen' = {itemAsset[a] : a \in {x \in Assets : item[x] # "absent"}}
            /\ backlog' = ToResume
    /\ doomed' = FALSE
    /\ UNCHANGED <<row, items, local, found, scheduled, wave, thread, flags, mpvm, history>>

\* submit_asset: a full wave is drained before the next item joins.
SubmitItem(a) ==
    /\ wpc \in Looping
    /\ a \in backlog /\ a = CHOOSE x \in backlog : TRUE
    /\ Cardinality(wave) < ProcessWorkers
    /\ backlog' = backlog \ {a}
    /\ wave' = wave \cup {a}
    /\ ipc' = [ipc EXCEPT ![a] = "submitted"]
    /\ cur' = [cur EXCEPT ![a] = itemAsset[a]]
    /\ UNCHANGED <<row, items, local, wpc, doomed, resolved, pending, seen, found, scheduled,
                   flags, mpvm, history>>

WaveDone == \A a \in wave : ipc[a] \in {"done", "raised"}
WaveRaised == \E a \in wave : ipc[a] = "raised"

\* A wave is drained before an item that would not fit, and after the last poll.
MustDrain ==
    IF wpc \in Looping THEN backlog # {} /\ Cardinality(wave) >= ProcessWorkers ELSE wpc = "draining"

\* The locals of the loop are dead once it is left.
LeaveLoop(to) ==
    /\ wpc' = to
    /\ resolved' = {} /\ pending' = {} /\ seen' = {} /\ found' = {} /\ scheduled' = {} /\ backlog' = {}

\* drain_asset_batch: the result of a cancelled item re-raises in the worker.
DrainWave ==
    /\ MustDrain /\ WaveDone
    /\ IF WaveRaised THEN LeaveLoop("cancelling") /\ UNCHANGED <<wave, thread>>
       ELSE /\ wpc' = IF wpc = "draining" THEN "summarising" ELSE wpc
            /\ wave' = {}
            /\ ipc' = [a \in Assets |-> IF a \in wave THEN "none" ELSE ipc[a]]
            /\ cur' = [a \in Assets |-> IF a \in wave THEN a ELSE cur[a]]
            /\ UNCHANGED <<resolved, pending, seen, found, scheduled, backlog>>
    /\ UNCHANGED <<row, items, local, doomed, flags, mpvm, history>>

\* The check at the top of the loop, and the wait at its end.
NoticeCancel ==
    /\ wpc \in {"monitoring", "polled"} /\ backlog = {} /\ cancelEvent
    /\ LeaveLoop("cancelling")
    /\ UNCHANGED <<row, items, local, doomed, wave, thread, flags, mpvm, history>>

\* One poll: targets of successful jobs become pending, and those of ts resolve.
Poll(ts) ==
    /\ wpc = "monitoring" /\ backlog = {} /\ ~cancelEvent
    /\ pending' = pending \cup (succeeded \ resolved)
    /\ ts \subseteq pending'
    /\ found' = {p \in ts \X Assets : p[2] \in AssetsOf[p[1]] \cap remote}
    /\ scheduled' = {}
    /\ wpc' = "queueing"
    /\ UNCHANGED <<row, items, local, doomed, resolved, seen, backlog, wave, thread, flags, mpvm,
                   history>>

\* The last asset of a target settles it, if some asset of the target was scheduled.
SettleTarget(t, rest, by) ==
    IF (\A x \in Assets : <<t, x>> \notin rest) /\ t \in by
    THEN resolved' = resolved \cup {t} /\ pending' = pending \ {t}
    ELSE UNCHANGED <<resolved, pending>>

\* One asset of one resolved target; submit_asset follows before the next one.
QueueAsset(t, a) ==
    /\ wpc = "queueing" /\ backlog = {} /\ <<t, a>> \in found /\ <<t, a>> = CHOOSE x \in found : TRUE
    /\ found' = found \ {<<t, a>>}
    /\ scheduled' = scheduled \cup {t}
    /\ IF a \in seen
       THEN UNCHANGED <<item, itemAsset, seen, backlog>>
       ELSE /\ item' = [item EXCEPT ![a] = IF @ = "absent" THEN "queued" ELSE @]
            /\ itemAsset' = [itemAsset EXCEPT ![a] = a]
            /\ seen' = seen \cup {a}
            /\ backlog' = {a}
    /\ SettleTarget(t, found', scheduled')
    /\ UNCHANGED <<row, removalOp, failedTargets, local, wpc, doomed, wave, thread, flags, mpvm,
                   history>>

\* The upsert raises: the asset is skipped, and its target stays pending only if
\* no other asset of the target was scheduled.
QueueAssetFails(t, a) ==
    /\ DatabaseFaults
    /\ wpc = "queueing" /\ backlog = {} /\ <<t, a>> \in found /\ <<t, a>> = (CHOOSE x \in found : TRUE) /\ a \notin seen
    /\ found' = found \ {<<t, a>>}
    /\ SettleTarget(t, found', scheduled)
    /\ UNCHANGED <<row, items, local, wpc, doomed, seen, scheduled, backlog, wave, thread, flags,
                   mpvm, history>>

\* The counters are persisted if they changed (job counts are not modelled); the
\* status is written with them, whatever it was.
PersistProgress(changed) ==
    /\ wpc = "queueing" /\ backlog = {} /\ found = {}
    /\ scheduled # {} => changed
    /\ status' = IF changed THEN (IF seen # {} THEN "processing" ELSE "monitoring") ELSE status
    /\ wpc' = "polled" /\ scheduled' = {}
    /\ UNCHANGED <<leased, cancelRequested, items, local, doomed, resolved, pending, seen, found,
                   backlog, wave, thread, flags, mpvm, history>>

PollAgain ==
    /\ wpc = "polled" /\ ~cancelEvent
    /\ wpc' = "monitoring"
    /\ UNCHANGED <<row, items, local, doomed, resolved, pending, seen, found, scheduled, backlog,
                   wave, thread, flags, mpvm, history>>

\* Mutant: the resolution deadline is not looked at.
EndMonitoringNoDeadline ==
    /\ wpc = "polled" /\ pending = {}
    /\ wpc' = "draining"
    /\ UNCHANGED <<row, items, local, doomed, resolved, pending, seen, found,
                   scheduled, backlog, wave, thread, flags, mpvm, history>>

\* The run is terminal or timed out, and nothing is pending or the resolution
\* deadline has passed: what is pending is recorded as failed.
EndMonitoring ==
    /\ wpc = "polled"
    /\ failedTargets' = failedTargets \cup pending
    /\ wpc' = "draining" /\ seen' = {}
    /\ UNCHANGED <<row, item, itemAsset, removalOp, local, doomed, resolved, pending, found,
                   scheduled, backlog, wave, thread, flags, mpvm, history>>

\* An MP VM or database error of the monitor or of the steps after it, or no scanner
\* run before the timeout.
MonitorFails ==
    /\ wpc \in Looping \cup {"summarising", "evidenced", "finalised"}
    /\ LeaveLoop("failing")
    /\ UNCHANGED <<row, items, local, doomed, wave, thread, flags, mpvm, history>>

Completed == {a \in Assets : item[a] = "completed"}
Failures == {a \in Assets : item[a] \in FailedItem} \cup failedTargets

RecordEvidence ==
    /\ wpc = "summarising" /\ pending \cup resolved # {}
    /\ evidence' = evidence \cup {itemAsset[a] : a \in Completed}
    /\ wpc' = "evidenced"
    /\ UNCHANGED <<row, items, cards, doomed, resolved, pending, seen, found, scheduled, backlog,
                   wave, thread, flags, mpvm, history>>

\* finalize_asset_card_refresh: the source card goes if exactly one other card replaces it.
FinalizeRefresh ==
    LET done == {itemAsset[a] : a \in Completed} \cap cards
    IN  /\ wpc = "evidenced"
        /\ cards' = IF RefreshSource # NoAsset /\ RefreshSource \notin done /\ Cardinality(done) = 1
                    THEN cards \ {RefreshSource} ELSE cards
        /\ wpc' = "finalised"
        /\ UNCHANGED <<row, items, evidence, doomed, resolved, pending, seen, found, scheduled,
                       backlog, wave, thread, flags, mpvm, history>>

\* finish_scan_postprocess_run, then the end of the worker; a thread that is still
\* running would go on.
FinishRun(outcome) ==
    /\ status' = outcome
    /\ leased' = FALSE
    /\ wpc' = "none" /\ doomed' = FALSE /\ cancelEvent' = FALSE
    /\ resolved' = {} /\ pending' = {} /\ seen' = {} /\ found' = {} /\ scheduled' = {}
    /\ backlog' = {} /\ wave' = {}
    /\ ipc' = [a \in Assets |-> IF ipc[a] \in {"done", "raised"} THEN "none" ELSE ipc[a]]
    /\ cur' = [a \in Assets |-> IF ipc'[a] = "none" THEN a ELSE cur[a]]
    /\ UNCHANGED <<cancelRequested, items, local, signalling, recovered, mpvm, history>>

\* A refresh that made its own scanner task also has to delete that task.
FinishProcessed(taskDeleted) ==
    /\ wpc = "finalised"
    /\ RefreshSource = NoAsset => taskDeleted
    /\ FinishRun(IF Failures # {} \/ ~taskDeleted THEN "completed_with_errors" ELSE "completed")

\* No job succeeded.
FinishEmpty ==
    /\ wpc = "summarising" /\ pending \cup resolved = {}
    /\ FinishRun("completed_with_errors")

\* Mutant: the executor is shut down without waiting for its threads.
FinishCancelledNoWait ==
    /\ wpc = "cancelling"
    /\ FinishRun("cancelled")

\* Leaving the executor's with block waits for every thread of the wave.
FinishCancelled ==
    /\ wpc = "cancelling"
    /\ WaveDone
    /\ FinishRun("cancelled")

FinishFailed ==
    /\ wpc = "failing"
    /\ WaveDone
    /\ FinishRun(IF failedTargets # {} \/ \E a \in Assets : item[a] # "absent"
                 THEN "completed_with_errors" ELSE "failed")

\* The write that ends the run raises inside the handler: the worker is gone and
\* the row keeps its active status and its lease.
FinishLost ==
    /\ DatabaseFaults
    /\ wpc \in {"cancelling", "failing"}
    /\ WaveDone
    /\ wpc' = "none" /\ doomed' = FALSE /\ cancelEvent' = FALSE
    /\ resolved' = {} /\ pending' = {} /\ seen' = {} /\ found' = {} /\ scheduled' = {}
    /\ backlog' = {} /\ wave' = {}
    /\ ipc' = [a \in Assets |-> "none"] /\ cur' = [a \in Assets |-> a]
    /\ UNCHANGED <<row, items, local, signalling, recovered, mpvm, history>>

-----------------------------------------------------------------------------
(* The thread of one item: process_scanned_asset_item. *)

Step(a, to) == ipc' = [ipc EXCEPT ![a] = to]
Mark(a, s) == item' = [item EXCEPT ![a] = s]

ItemFrame == UNCHANGED <<row, failedTargets, evidence, worker, flags, mpvm, crashes, cut>>

BeginItem(a) ==
    /\ ipc[a] = "submitted" /\ ~cancelEvent
    /\ Step(a, IF removalOp[a] # NoAsset THEN "waiting" ELSE "probing")
    /\ IF removalOp[a] # NoAsset THEN UNCHANGED item ELSE Mark(a, "preparing")
    /\ ItemFrame /\ UNCHANGED <<itemAsset, removalOp, cards, cur, asked, askedBy, collected>>

\* Docker probes, then a slot for the build job, each preceded by a cancel check.
BeginBuild(a) ==
    /\ ipc[a] = "probing" /\ ~cancelEvent
    /\ Step(a, "building") /\ Mark(a, "building")
    /\ ItemFrame /\ UNCHANGED <<itemAsset, removalOp, cards, cur, asked, askedBy, collected>>

Canonical(x) ==
    LET others == {c \in cards : c # x /\ HostOf[c] = HostOf[x]}
    IN  IF others = {} THEN {x} ELSE others

\* The build job saves the card: possible only while MP VM still has the object.
BuildSaves(a) ==
    /\ ipc[a] = "building" /\ cur[a] \in remote
    /\ \E c \in Canonical(cur[a]) : cards' = cards \cup {c}
    /\ collected' = collected \cup {cur[a]}
    /\ Step(a, "built")
    /\ ItemFrame /\ UNCHANGED <<item, itemAsset, removalOp, cur, asked, askedBy>>

\* ... and binds the item to the id of the card it wrote.
RebindItem(a) ==
    /\ ipc[a] = "built"
    /\ \E c \in cards : HostOf[c] = HostOf[cur[a]] /\ itemAsset' = [itemAsset EXCEPT ![a] = c]
    /\ Step(a, "returned")
    /\ ItemFrame /\ UNCHANGED <<item, removalOp, cards, cur, asked, askedBy, collected>>

\* Mutant: an older card of the host is taken for the result of a build that failed.
MarkSavedOldCard(a) ==
    /\ ipc[a] \in {"building", "returned"}
    /\ \E c \in cards : HostOf[c] = HostOf[cur[a]]
    /\ Step(a, "saved") /\ Mark(a, "card_saved")
    /\ ItemFrame /\ UNCHANGED <<itemAsset, removalOp, cards, cur, asked, askedBy, collected>>

MarkSaved(a) ==
    /\ ipc[a] = "returned" /\ itemAsset[a] \in cards
    /\ Step(a, "saved") /\ Mark(a, "card_saved")
    /\ ItemFrame /\ UNCHANGED <<itemAsset, removalOp, cards, cur, asked, askedBy, collected>>

\* The check between the saved card and the removal.
DecideRemoval(a) ==
    /\ ipc[a] = "saved" /\ ~cancelEvent
    /\ Step(a, "removing")
    /\ ItemFrame /\ UNCHANGED <<item, itemAsset, removalOp, cards, cur, asked, askedBy, collected>>

RemoveAsset(a) ==
    /\ ipc[a] = "removing"
    /\ asked' = asked \cup {cur[a]} /\ askedBy' = askedBy \cup {a}
    /\ Step(a, "recording")
    /\ ItemFrame /\ UNCHANGED <<item, itemAsset, removalOp, cards, cur, collected>>

RecordRemoval(a) ==
    /\ ipc[a] = "recording"
    /\ removalOp' = [removalOp EXCEPT ![a] = cur[a]]
    /\ Step(a, "waiting") /\ Mark(a, "deleting")
    /\ ItemFrame /\ UNCHANGED <<itemAsset, cards, cur, asked, askedBy, collected>>

\* Mutant: the accepted removal operation is not waited for.
CompleteItemAtOnce(a) ==
    /\ ipc[a] = "waiting" /\ ~cancelEvent
    /\ Step(a, "done") /\ Mark(a, "completed")
    /\ ItemFrame /\ UNCHANGED <<itemAsset, removalOp, cards, cur, asked, askedBy, collected>>

\* wait_for_asset_removal reports success, and the check after it passes.
CompleteItem(a) ==
    /\ ipc[a] = "waiting" /\ removalOp[a] \notin remote /\ ~cancelEvent
    /\ Step(a, "done") /\ Mark(a, "completed")
    /\ ItemFrame /\ UNCHANGED <<itemAsset, removalOp, cards, cur, asked, askedBy, collected>>

\* Any exception; the status depends on the local variable card_saved.
FailItem(a) ==
    /\ ipc[a] \in {"probing", "building", "built", "returned", "saved", "removing", "recording",
                   "waiting"}
    /\ Step(a, "done")
    /\ Mark(a, IF ipc[a] \in {"saved", "removing", "recording", "waiting"} \/ removalOp[a] # NoAsset
               THEN "removal_failed" ELSE "build_failed")
    /\ ItemFrame /\ UNCHANGED <<itemAsset, removalOp, cards, cur, asked, askedBy, collected>>

CancelItem(a) ==
    /\ cancelEvent
    /\ ipc[a] \in {"submitted", "probing", "saved", "waiting"}
    /\ Step(a, "raised") /\ Mark(a, "cancelled")
    /\ ItemFrame /\ UNCHANGED <<itemAsset, removalOp, cards, cur, asked, askedBy, collected>>

-----------------------------------------------------------------------------
(* Cancellation, crashes and recovery. *)

RequestCancel ==
    /\ status \in ActiveStatuses
    /\ cancelRequested' = TRUE /\ status' = "cancelling" /\ signalling' = TRUE
    /\ UNCHANGED <<leased, items, local, worker, thread, cancelEvent, recovered, mpvm, history>>

\* The event is made if the registry has none, so it is set whoever looks next.
SignalCancel ==
    /\ signalling
    /\ signalling' = FALSE
    /\ cancelEvent' = TRUE
    /\ cut' = cut \cup {a \in Assets \ askedBy : ipc[a] # "removing"}
    /\ UNCHANGED <<row, items, local, worker, thread, recovered, mpvm, crashes, asked, askedBy,
                   collected>>

\* release_scan_postprocess_leases.
ReleaseLeases ==
    /\ leased' = IF status \in ActiveStatuses THEN FALSE ELSE leased
    /\ item' = [a \in Assets |-> IF item[a] \in {"building", "card_saved"} THEN "queued" ELSE item[a]]

Crash ==
    /\ crashes < MaxCrashes
    /\ crashes' = crashes + 1
    /\ wpc' = "none" /\ doomed' = FALSE /\ cancelEvent' = FALSE /\ signalling' = FALSE
    /\ resolved' = {} /\ pending' = {} /\ seen' = {} /\ found' = {} /\ scheduled' = {}
    /\ backlog' = {} /\ wave' = {}
    /\ ipc' = [a \in Assets |-> "none"] /\ cur' = [a \in Assets |-> a]
    /\ recovered' = RecoverBeforeServing
    /\ IF RecoverBeforeServing THEN ReleaseLeases ELSE UNCHANGED <<leased, item>>
    /\ UNCHANGED <<status, cancelRequested, itemAsset, removalOp, failedTargets, local, mpvm,
                   asked, askedBy, collected, cut>>

\* The monitor thread releases the leases once the database is back.
LateRecovery ==
    /\ ~recovered
    /\ recovered' = TRUE
    /\ ReleaseLeases
    /\ UNCHANGED <<status, cancelRequested, itemAsset, removalOp, failedTargets, local, worker,
                   thread, cancelEvent, signalling, mpvm, history>>

Finished == status \in FinalStatuses /\ wpc = "none" /\ UNCHANGED vars

-----------------------------------------------------------------------------
Worker ==
    \/ Claim \/ BeginMonitoring \/ DrainWave \/ NoticeCancel
    \/ \E a \in Assets : SubmitItem(a)
    \/ \E ts \in SUBSET Targets : Poll(ts)
    \/ \E t \in Targets, a \in Assets : QueueAsset(t, a) \/ QueueAssetFails(t, a)
    \/ \E changed \in BOOLEAN : PersistProgress(changed)
    \/ PollAgain \/ EndMonitoring \/ MonitorFails
    \/ RecordEvidence \/ FinalizeRefresh
    \/ FinishEmpty \/ FinishCancelled \/ FinishFailed \/ FinishLost
    \/ \E taskDeleted \in BOOLEAN : FinishProcessed(taskDeleted)

ItemThread(a) ==
    \/ BeginItem(a) \/ BeginBuild(a) \/ BuildSaves(a) \/ RebindItem(a) \/ MarkSaved(a)
    \/ DecideRemoval(a) \/ RemoveAsset(a) \/ RecordRemoval(a) \/ CompleteItem(a)
    \/ FailItem(a) \/ CancelItem(a)

Next ==
    \/ Worker
    \/ \E a \in Assets : ItemThread(a)
    \/ \E t \in Targets : JobSucceeds(t)
    \/ \E a \in Assets : RemovalTakesEffect(a)
    \/ RequestCancel \/ SignalCancel \/ Crash \/ LateRecovery \/ Finished

Spec == Init /\ [][Next]_vars

\* The threads run; the deadlines of the monitor bound the number of polls, so a
\* loop that could stop again and again does; the monitor thread polls the database.
Fairness ==
    /\ WF_vars(Worker)
    /\ SF_vars(EndMonitoring)
    /\ \A a \in Assets : WF_vars(ItemThread(a))
    /\ WF_vars(LateRecovery)

FairSpec == Spec /\ Fairness

-----------------------------------------------------------------------------
(* Properties. *)

\* MP VM is asked to remove an asset only after a local card built from that
\* very object was saved, also by a worker that resumes after a crash.
RemovedOnlyAfterSave == asked \subseteq collected

\* A cancellation that is acknowledged stops every item that had not yet decided
\* to remove its asset, in this process and in the next one.
CancelStopsRemovals == cut \cap askedBy = {}

\* An asset is removed from MP VM only when its card is kept and nobody said no.
RemovalsAreSafe == RemovedOnlyAfterSave /\ CancelStopsRemovals

\* A run reported as finished has no thread left that could still save a card or
\* remove an asset.
FinishedRunIsQuiet ==
    status \in FinalStatuses => wpc = "none" /\ \A a \in Assets : ipc[a] = "none"

\* "completed" without errors: every item of the run is completed and no target
\* was given up.
CompletedMeansEveryItem ==
    status = "completed" => failedTargets = {} /\ \A a \in Assets : item[a] \in {"absent", "completed"}

\* A completed item means that MP VM no longer has the object the item was made for,
\* although a rebind gives the item the id of an older card of the host.
CompletedItemIsRemoved == \A a \in Completed : a \notin remote

\* A run reported as completed: nothing was given up, and what counts as removed is.
CompletionIsTrue == CompletedMeansEveryItem /\ CompletedItemIsRemoved

\* The row of a run whose last write failed: active, leased, and nobody works on it.
Orphaned == leased /\ wpc = "none" /\ recovered

\* A run that starts ends, whatever MP VM answers and whenever the process crashes,
\* or else the write that ends it was lost.
RunEnds == (status \in ActiveStatuses) ~> (status \in FinalStatuses \/ Orphaned)
=============================================================================

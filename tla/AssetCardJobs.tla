---------------------------- MODULE AssetCardJobs ----------------------------
(***************************************************************************)
(* Background asset-card build jobs: the table asset_card_build_jobs, the  *)
(* admission transaction, the in-process cancellation registry and slot    *)
(* semaphore, the build worker, and what a restart does to them.           *)
(*                                                                         *)
(* A job identifier is a uuid made by the handler that asks for the job,   *)
(* so one member of Jobs is one request: its database row (status, asset,  *)
(* ...), the thread that serves it (pc) and its cancellation token.        *)
(***************************************************************************)
EXTENDS Naturals, FiniteSets

CONSTANTS
    Jobs,                  \* job identifiers, each used by one request
    Assets,                \* MP VM object identifiers
    HostOf,                \* [Assets -> hosts]: the identity a saved card is matched by
    Limit,                 \* ASSET_CARD_BUILD_JOB_LIMIT = ASSET_CARD_BUILD_WORKERS
    NoAsset,               \* "nothing saved yet"
    RecoverBeforeServing,  \* TRUE: the database answers when the process starts
    DatabaseFaults,        \* TRUE: the write that ends a job may fail
    MaxRestarts            \* bound on crashes and restarts

ASSUME JobsFinite == IsFiniteSet(Jobs)
ASSUME LimitNat == Limit \in Nat
ASSUME NoAssetFresh == NoAsset \notin Assets
ASSUME HostOfType == DOMAIN HostOf = Assets
ASSUME FlagsBoolean == RecoverBeforeServing \in BOOLEAN /\ DatabaseFaults \in BOOLEAN
ASSUME MaxRestartsNat == MaxRestarts \in Nat

VARIABLES
    status,           \* row: job status, "absent" before the INSERT
    asset,            \* row: asset_id, which a rebind changes
    cancelRequested,  \* rows whose cancel_requested is TRUE
    requested,        \* request["asset_id"], never changed
    parent,           \* jobs whose request has a parent_operation_id (a scan run)
    pc,               \* where the thread that serves the job is
    event,            \* jobs whose cancellation token is set
    registered,       \* jobs whose token is in the CancellationRegistry
    slots,            \* holders of ASSET_CARD_BUILD_SEMAPHORE
    signalling,       \* cancel handlers between the row update and the token
    cards,            \* asset ids that have a saved card
    saved,            \* the id under which the job saved its card
    recovered,        \* has interrupt_active_asset_card_build_jobs run in this process
    stopping,         \* has the process begun its shutdown
    restarts,
    acknowledged      \* history: jobs whose cancellation was acknowledged before saving

row == <<status, asset, cancelRequested>>
thread == <<requested, parent, pc>>
tokens == <<event, registered, signalling>>
process == <<recovered, stopping, restarts>>
vars == <<row, thread, tokens, slots, cards, saved, process, acknowledged>>

ActiveStatuses == {"queued", "running", "cancelling"}
Terminal == {"completed", "failed", "cancelled", "interrupted"}
Active == {j \in Jobs : status[j] \in ActiveStatuses}

\* The program points of a build before its card is on its way to the database.
BeforeSaving == {"admitted", "waiting", "starting", "started", "building"}
PC == BeforeSaving \cup {"idle", "prechecked", "saving", "saved", "rebound",
                         "closing", "releasing", "done"}

TypeOK ==
    /\ status \in [Jobs -> ActiveStatuses \cup Terminal \cup {"absent"}]
    /\ asset \in [Jobs -> Assets \cup {NoAsset}]
    /\ cancelRequested \subseteq Jobs
    /\ requested \in [Jobs -> Assets \cup {NoAsset}]
    /\ parent \subseteq Jobs
    /\ pc \in [Jobs -> PC]
    /\ event \subseteq Jobs
    /\ registered \subseteq Jobs
    /\ slots \subseteq Jobs
    /\ signalling \subseteq Jobs
    /\ cards \subseteq Assets
    /\ saved \in [Jobs -> Assets \cup {NoAsset}]
    /\ recovered \in BOOLEAN
    /\ stopping \in BOOLEAN
    /\ restarts \in 0..MaxRestarts
    /\ acknowledged \subseteq Jobs

Init ==
    /\ status = [j \in Jobs |-> "absent"]
    /\ asset = [j \in Jobs |-> NoAsset]
    /\ cancelRequested = {}
    /\ requested = [j \in Jobs |-> NoAsset]
    /\ parent = {}
    /\ pc = [j \in Jobs |-> "idle"]
    /\ event = {}
    /\ registered = {}
    /\ slots = {}
    /\ signalling = {}
    /\ cards = {}
    /\ saved = [j \in Jobs |-> NoAsset]
    /\ recovered = RecoverBeforeServing
    /\ stopping = FALSE
    /\ restarts = 0
    /\ acknowledged = {}

-----------------------------------------------------------------------------
(* Admission. *)

\* The handler for one job, and the builder loop of a scan run, first read
\* whether any job is active; the read is not part of the admission transaction.
Precheck(j, a, fromScan) ==
    /\ pc[j] = "idle" /\ status[j] = "absent"
    /\ fromScan \/ ~stopping
    /\ Active = {}
    /\ pc' = [pc EXCEPT ![j] = "prechecked"]
    /\ requested' = [requested EXCEPT ![j] = a]
    /\ parent' = IF fromScan THEN parent \cup {j} ELSE parent
    /\ UNCHANGED <<row, tokens, slots, cards, saved, process, acknowledged>>

\* Mutant: the capacity query counts started jobs only.
AdmissibleCountsStarted(js, as) ==
    LET started == {i \in Active : status[i] # "queued"}
    IN  /\ \A i \in started : asset[i] \notin as
        /\ Cardinality(started) + Cardinality(js) <= Limit

\* Mutant: no look for an active job of the same asset.
AdmissibleDuplicate(js, as) ==
    Cardinality(Active) + Cardinality(js) <= Limit

\* The capacity query under pg_advisory_xact_lock.
Admissible(js, as) ==
    /\ \A i \in Active : asset[i] \notin as
    /\ Cardinality(Active) + Cardinality(js) <= Limit

InsertRows(js, assetOf) ==
    /\ status' = [j \in Jobs |-> IF j \in js THEN "queued" ELSE status[j]]
    /\ asset' = [j \in Jobs |-> IF j \in js THEN assetOf[j] ELSE asset[j]]
    /\ pc' = [j \in Jobs |-> IF j \in js THEN "admitted" ELSE pc[j]]
    /\ UNCHANGED cancelRequested

Admit(j) ==
    /\ pc[j] = "prechecked"
    /\ Admissible({j}, {requested[j]})
    /\ InsertRows({j}, requested)
    /\ UNCHANGED <<requested, parent, tokens, slots, cards, saved, process, acknowledged>>

\* 409 to the client; the loop of a scan run sleeps and starts over.
Refuse(j) ==
    /\ pc[j] = "prechecked"
    /\ ~Admissible({j}, {requested[j]})
    /\ pc' = [pc EXCEPT ![j] = "idle"]
    /\ requested' = [requested EXCEPT ![j] = NoAsset]
    /\ parent' = parent \ {j}
    /\ UNCHANGED <<row, tokens, slots, cards, saved, process, acknowledged>>

\* The batch handler has no precheck: one transaction admits all its jobs or none.
AdmitBatch(js, assetOf) ==
    /\ js # {}
    /\ \A j \in js : pc[j] = "idle" /\ status[j] = "absent"
    /\ ~stopping
    /\ \A i, j \in js : i # j => assetOf[i] # assetOf[j]
    /\ Admissible(js, {assetOf[j] : j \in js})
    /\ InsertRows(js, assetOf)
    /\ requested' = [j \in Jobs |-> IF j \in js THEN assetOf[j] ELSE requested[j]]
    /\ UNCHANGED <<parent, tokens, slots, cards, saved, process, acknowledged>>

\* The token is made after the transaction has committed.
Register(j) ==
    /\ pc[j] = "admitted"
    /\ registered' = registered \cup {j}
    /\ pc' = [pc EXCEPT ![j] = "waiting"]
    /\ UNCHANGED <<row, requested, parent, event, signalling, slots, cards, saved,
                   process, acknowledged>>

-----------------------------------------------------------------------------
(* The worker. *)

\* The token may be set while the thread is inside acquire(timeout=0.25), so a
\* slot can be taken by a job that is already cancelled.
AcquireSlot(j) ==
    /\ pc[j] = "waiting"
    /\ Cardinality(slots) < Limit
    /\ slots' = slots \cup {j}
    /\ pc' = [pc EXCEPT ![j] = "starting"]
    /\ UNCHANGED <<row, requested, parent, tokens, cards, saved, process, acknowledged>>

\* A job cancelled in the queue goes on without a slot.
LeaveQueue(j) ==
    /\ pc[j] = "waiting"
    /\ j \in event
    /\ pc' = [pc EXCEPT ![j] = "starting"]
    /\ UNCHANGED <<row, requested, parent, tokens, slots, cards, saved, process, acknowledged>>

\* Mutant: the UPDATE that starts the job has lost its condition on the status.
StartUnconditional(j) ==
    /\ pc[j] = "starting"
    /\ status' = [status EXCEPT ![j] = "running"]
    /\ pc' = [pc EXCEPT ![j] = "started"]
    /\ UNCHANGED <<asset, cancelRequested, requested, parent, tokens, slots, cards, saved,
                   process, acknowledged>>

Start(j) ==
    /\ pc[j] = "starting"
    /\ status[j] = "queued"
    /\ status' = [status EXCEPT ![j] = IF j \in cancelRequested THEN "cancelling" ELSE "running"]
    /\ pc' = [pc EXCEPT ![j] = "started"]
    /\ UNCHANGED <<asset, cancelRequested, requested, parent, tokens, slots, cards, saved,
                   process, acknowledged>>

\* The row is no longer queued: cancelled meanwhile, or taken from under the worker.
StartRefused(j) ==
    /\ pc[j] = "starting"
    /\ status[j] # "queued"
    /\ IF j \in cancelRequested
       THEN event' = event \cup {j} /\ pc' = [pc EXCEPT ![j] = "started"]
       ELSE event' = event /\ pc' = [pc EXCEPT ![j] = "closing"]
    /\ UNCHANGED <<row, requested, parent, registered, signalling, slots, cards, saved,
                   process, acknowledged>>

\* finish_asset_card_build_job: the UPDATE has no condition on the old status.
Finish(j, outcome) ==
    /\ status' = [status EXCEPT ![j] = outcome]
    /\ pc' = [pc EXCEPT ![j] = "closing"]
    /\ UNCHANGED <<asset, cancelRequested, requested, parent, tokens, slots, cards, saved,
                   process, acknowledged>>

CancelledBeforeStart(j) ==
    /\ pc[j] = "started"
    /\ j \in event
    /\ Finish(j, "cancelled")

BeginBuild(j) ==
    /\ pc[j] = "started"
    /\ j \notin event
    /\ pc' = [pc EXCEPT ![j] = "building"]
    /\ UNCHANGED <<row, requested, parent, tokens, slots, cards, saved, process, acknowledged>>

\* The request executor raises at the next request, or the check before saving does.
BuildCancelled(j) ==
    /\ pc[j] = "building"
    /\ j \in event
    /\ Finish(j, "cancelled")

\* The database refuses a write: an outage, or a pool closed by the shutdown.
WriteMayFail == DatabaseFaults \/ stopping

\* Any exception of the build, of the save, of the rebind or of the remediation
\* reconcile; before the build only a database error can raise.
Fail(j) ==
    /\ \/ pc[j] \in {"building", "saving", "saved", "rebound"}
       \/ WriteMayFail /\ pc[j] \in {"starting", "started"}
    /\ Finish(j, "failed")

BuildDone(j) ==
    /\ pc[j] = "building"
    /\ j \notin event
    /\ pc' = [pc EXCEPT ![j] = "saving"]
    /\ UNCHANGED <<row, requested, parent, tokens, slots, cards, saved, process, acknowledged>>

\* canonical_asset_card_id: another card of the same host wins over the remote id.
Canonical(a) ==
    LET others == {c \in cards : c # a /\ HostOf[c] = HostOf[a]}
    IN  IF others = {} THEN {a} ELSE others

Save(j) ==
    /\ pc[j] = "saving"
    /\ \E c \in Canonical(requested[j]) :
          /\ cards' = cards \cup {c}
          /\ saved' = [saved EXCEPT ![j] = c]
    /\ pc' = [pc EXCEPT ![j] = "saved"]
    /\ UNCHANGED <<row, requested, parent, tokens, slots, process, acknowledged>>

\* Mutant: the job's row keeps the remote id.
RebindSkipped(j) ==
    /\ pc[j] = "saved"
    /\ pc' = [pc EXCEPT ![j] = "rebound"]
    /\ UNCHANGED <<row, requested, parent, tokens, slots, cards, saved, process, acknowledged>>

\* rebind_scan_postprocess_asset, for the jobs of a scan run only.
Rebind(j) ==
    /\ pc[j] = "saved"
    /\ asset' = IF saved[j] # requested[j] /\ j \in parent
                THEN [asset EXCEPT ![j] = saved[j]] ELSE asset
    /\ pc' = [pc EXCEPT ![j] = "rebound"]
    /\ UNCHANGED <<status, cancelRequested, requested, parent, tokens, slots, cards, saved,
                   process, acknowledged>>

Complete(j) ==
    /\ pc[j] = "rebound"
    /\ Finish(j, "completed")

\* finish raises, in the body and again in the handler: the row stays as it is.
\* So does the row of a scan run's job when the write that announces the job on
\* its item raises: the job is admitted and never run.
FinishLost(j) ==
    /\ WriteMayFail
    /\ \/ pc[j] \in {"starting", "started", "building", "saving", "saved", "rebound"}
       \/ pc[j] = "admitted" /\ j \in parent
    /\ pc' = [pc EXCEPT ![j] = "closing"]
    /\ UNCHANGED <<row, requested, parent, tokens, slots, cards, saved, process, acknowledged>>

Unregister(j) ==
    /\ pc[j] = "closing"
    /\ registered' = registered \ {j}
    /\ pc' = [pc EXCEPT ![j] = "releasing"]
    /\ UNCHANGED <<row, requested, parent, event, signalling, slots, cards, saved,
                   process, acknowledged>>

\* Mutant: the finally block does not release the semaphore.
ReleaseSlotLeaked(j) ==
    /\ pc[j] = "releasing"
    /\ pc' = [pc EXCEPT ![j] = "done"]
    /\ UNCHANGED <<row, requested, parent, tokens, slots, cards, saved, process, acknowledged>>

ReleaseSlot(j) ==
    /\ pc[j] = "releasing"
    /\ slots' = slots \ {j}
    /\ pc' = [pc EXCEPT ![j] = "done"]
    /\ UNCHANGED <<row, requested, parent, tokens, cards, saved, process, acknowledged>>

-----------------------------------------------------------------------------
(* Cancellation, shutdown, restart and recovery. *)

\* First half of the cancel handler: the row. A job that is no longer active is returned
\* unchanged; if it ended after the handler's read, the update finds nothing and the
\* handler goes on. Of the jobs that ended, only one with a thread can still be told.
RequestCancel(j) ==
    /\ ~stopping
    /\ \/ /\ j \in Active
          /\ cancelRequested' = cancelRequested \cup {j}
          /\ status' = [status EXCEPT ![j] = "cancelling"]
       \/ /\ status[j] \in Terminal /\ pc[j] # "done"
          /\ UNCHANGED <<cancelRequested, status>>
    /\ signalling' = signalling \cup {j}
    /\ UNCHANGED <<asset, thread, event, registered, slots, cards, saved, process, acknowledged>>

\* Second half: the token, if it is registered, and the answer to the client.
SignalCancel(j) ==
    /\ j \in signalling
    /\ signalling' = signalling \ {j}
    /\ event' = IF j \in registered THEN event \cup {j} ELSE event
    /\ acknowledged' = IF pc[j] \in BeforeSaving THEN acknowledged \cup {j} ELSE acknowledged
    /\ UNCHANGED <<row, thread, registered, slots, cards, saved, process>>

\* OperationRunner.shutdown: cancel_all empties the registry and sets its tokens.
Shutdown ==
    /\ ~stopping
    /\ stopping' = TRUE
    /\ event' = event \cup registered
    /\ registered' = {}
    /\ UNCHANGED <<row, thread, signalling, slots, cards, saved, recovered, restarts, acknowledged>>

InterruptActive ==
    status' = [j \in Jobs |-> IF j \in Active THEN "interrupted" ELSE status[j]]

\* A crash, or the end of a shutdown, and the start of the next process. The
\* recovery step runs before the first request only if the database answers.
Restart ==
    /\ restarts < MaxRestarts
    /\ restarts' = restarts + 1
    /\ pc' = [j \in Jobs |-> IF pc[j] = "prechecked" THEN "idle"
                             ELSE IF pc[j] = "idle" THEN "idle" ELSE "done"]
    /\ requested' = [j \in Jobs |-> IF pc[j] = "prechecked" THEN NoAsset ELSE requested[j]]
    /\ parent' = {j \in parent : pc[j] # "prechecked"}
    /\ event' = {} /\ registered' = {} /\ signalling' = {} /\ slots' = {}
    /\ stopping' = FALSE
    /\ recovered' = RecoverBeforeServing
    /\ IF RecoverBeforeServing THEN InterruptActive ELSE status' = status
    /\ UNCHANGED <<asset, cancelRequested, cards, saved, acknowledged>>

\* The monitor thread runs the step once the database is back; the process has
\* been serving requests since.
LateRecovery ==
    /\ ~recovered
    /\ ~stopping
    /\ recovered' = TRUE
    /\ InterruptActive
    /\ UNCHANGED <<asset, cancelRequested, thread, tokens, slots, cards, saved,
                   stopping, restarts, acknowledged>>

\* The endpoint that builds a card within its request, with no job, row or slot: for these
\* tables it is the save, which matches like any other.
BuildDirectly(a) ==
    /\ \E c \in Canonical(a) : cards' = cards \cup {c}
    /\ UNCHANGED <<row, thread, tokens, slots, saved, process, acknowledged>>

\* The delete endpoint of the card list.
DeleteCard(c) ==
    /\ ~stopping
    /\ c \in cards
    /\ cards' = cards \ {c}
    /\ UNCHANGED <<row, thread, tokens, slots, saved, process, acknowledged>>

\* Nothing is under way: clients may send no further request.
Quiet ==
    /\ \A j \in Jobs : pc[j] \in {"idle", "done"}
    /\ UNCHANGED vars

-----------------------------------------------------------------------------
Request(j) ==
    \/ \E a \in Assets, fromScan \in BOOLEAN : Precheck(j, a, fromScan)
    \/ Admit(j)
    \/ Refuse(j)

Worker(j) ==
    \/ Register(j) \/ AcquireSlot(j) \/ LeaveQueue(j)
    \/ Start(j) \/ StartRefused(j)
    \/ CancelledBeforeStart(j) \/ BeginBuild(j)
    \/ BuildCancelled(j) \/ Fail(j) \/ BuildDone(j)
    \/ Save(j) \/ Rebind(j) \/ Complete(j) \/ FinishLost(j)
    \/ Unregister(j) \/ ReleaseSlot(j)

Next ==
    \/ \E j \in Jobs : Request(j) \/ Worker(j) \/ RequestCancel(j) \/ SignalCancel(j)
    \/ \E js \in SUBSET Jobs : \E assetOf \in [js -> Assets] : AdmitBatch(js, assetOf)
    \/ \E c \in Assets : BuildDirectly(c) \/ DeleteCard(c)
    \/ Shutdown
    \/ Restart
    \/ LateRecovery
    \/ Quiet

Spec == Init /\ [][Next]_vars

\* A worker thread that can take a step takes it; the monitor thread polls.
Fairness ==
    /\ \A j \in Jobs : WF_vars(Worker(j))
    /\ WF_vars(LateRecovery)

FairSpec == Spec /\ Fairness

-----------------------------------------------------------------------------
(* Properties. *)

\* Admission control: however prechecks, batches, rebinds, cancellations and
\* restarts interleave, no more than Limit rows are active at any time.
ActiveWithinLimit == Cardinality(Active) <= Limit

Collecting == {j \in Jobs : pc[j] \in {"building", "saving"}}

\* Two jobs never collect or save the card of the same MP VM object at the same
\* time (the duplicate_asset_count test of the admission transaction).  A direct
\* build passes no admission and may collect the object of a job: only the jobs
\* are kept apart.
OneBuilderPerAsset ==
    \A i, j \in Collecting : requested[i] = requested[j] => i = j

\* A cancellation answered while the build has not begun to save is final: the
\* job never saves its card, although the token may not have existed yet when
\* the cancel handler looked for it.
AcknowledgedCancelSavesNothing ==
    \A j \in acknowledged : saved[j] = NoAsset

\* One local card for each host, whichever of its MP VM objects are built and
\* in whichever order their saves commit.
OneCardPerHost ==
    \A c, d \in cards : HostOf[c] = HostOf[d] => c = d

\* The scan run that waits for its job looks the saved card up by the id in the
\* job's row: a completed job of a scan run names the card it really wrote.
CompletedNamesItsCard ==
    \A j \in parent : status[j] = "completed" => saved[j] # NoAsset /\ asset[j] = saved[j]

\* The card a scan run looks up exists once and under the name it looks for.
CardsAndNames == OneCardPerHost /\ CompletedNamesItsCard

\* An admitted job does not stay active for ever while the process lives: it
\* would hold its share of the limit and block every later single build.
EveryJobEnds ==
    \A j \in Jobs : (j \in Active) ~> (j \notin Active \/ stopping)
=============================================================================

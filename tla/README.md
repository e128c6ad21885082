# Verification of the MP VM client

TLA+ specifications of the stateful, concurrent and crash-prone parts of this
repository (the Python backend under `app/` and the command line script
`mp10_export_VM_info.py`), TLC configurations that check them on small instances,
and TLAPS proofs of the facts that matter most for every instance.

## 1. The system

One FastAPI process, one PostgreSQL database and one remote product, MP VM.
Everything the operator asks for that takes longer than a request becomes a row
(a run, a job, a workflow, an operation) and a thread of this process that works on
the row. Rows survive a restart, threads and cancellation tokens do not; MP VM goes
on whatever happens to the process. Beside the backend there is a script that scans
subnets on its own and keeps all its state in its locals and in MP VM.

| Component | State it keeps | Operations | What makes it correct |
|---|---|---|---|
| Asset card build jobs (`services/asset_card_build_jobs.py`, `api/asset_cards.py`, `db.py`) | table `asset_card_build_jobs`, `CancellationRegistry`, slot semaphore | admit one or a batch, start, build, save, rebind, finish, cancel, interrupt after a restart; build within a request, without a job | the limit on active jobs; no two jobs build one object; an acknowledged cancellation saves nothing; a completed job names the card it wrote; every job ends |
| Asset card identity (`db.canonical_asset_card_id`, `upsert_asset_card`) | table `asset_cards` | save an observed object, delete a card | one card per fqdn; a save never takes over the card of another host |
| Asset card builder (`services/asset_card_builder.py`) | metadata cache and the loads in flight, shared by all builds; the tree | read level by level, share metadata, load vulnerability groups, give up | a card without a warning lacks nothing; builders that wait for each other end |
| Search index and field queries (`db.py`, `services/asset_search_backfill.py`) | tables of indexed fields and software | rewrite with a save, backfill in batches, evaluate a query | search answers from the stored card; the backfill ends and lowers its flag |
| Asset groups (`services/asset_groups.py`, `db.py`) | definition, exceptions, members, parents | edit, evaluate in four transactions, archive, move | a ready group has the members its definition says; no group disappears from the tree |
| Remediation (`repositories/remediation.py`) | findings of the card, cases with a version, policy | save, reconcile in reads and writes, edit, expire | cases agree with the card; an edit meets the case the page showed; resolved means gone |
| Vulnerability passports (`services/passport_refresh.py`, `services/vulnerability_passport_jobs.py`, `repositories/vulnerabilities.py`) | passports, links of findings, two operations | query the catalogue, replace re-issued ids, relink, load details, refresh, cancel, delete | a finding has its best passport; cases follow theirs; an active row is worked on |
| Vulnerability snapshots and cache (`repositories/vulnerabilities.py`, `services/snapshot_cache.py`, migrations 0036 and 0037) | rollup tables kept by triggers, history of totals, cache entries | write findings, read either way, capture, prune, serve stale, refresh, invalidate | one answer with and without rollups; pruning is invisible; every thread is answered |
| Bulk asset refresh (`services/asset_card_refresh.py`) | one operation, its coordinator and pool, shared slots, children | select, submit, start a child, wait, cancel | after its end nothing runs; no child escapes a cancellation |
| Operations registry (`db.py`) | copy of the job tables | copy, sweep, list, clear, retry | no operation stays active for ever; an end is not lost |
| Scan post-processing (`services/scan_postprocess.py`) | tables `scan_postprocess_runs` (with a lease) and `scan_postprocess_items`, futures and cancel events | claim, poll, queue an item per asset, build, remove the asset from MP VM, evidence, finish, cancel, release leases, resume | nothing is removed from MP VM before its card is saved; a cancellation stops removals; a finished run is quiet; `completed` means everything; the run ends |
| Scanner task launch (`services/scanner_task_launch.py`) | `scan_tasks`, tasks of MP VM, idempotency keys, run rows | create, edit, validate, precheck, start by a key, retry false targets, delete, sweep prechecks | a key starts one scan; a started scan has its run row; every precheck task has a row |
| Docker dynamic groups (`services/docker_scan_groups.py`, `services/scanner_task_launch.py`) | `options.docker_dynamic_group` of a run, the group in MP VM | create, start the scan, hand over, schedule a cleanup, confirm the end of the scan, remove | the group outlives its use and the retention period and is removed in the end |
| VM workflows (`services/vm_workflows.py`, `repositories/vm_workflows.py`, `services/vm_workflow_calls.py`) | tables of workflows, steps and the verification columns of remediation cases, executor, tokens, set of scheduled ids | start a scan, track a scan, verify a campaign or a group, retry, cancel, monitor the children, reconcile, finalize, resume | a child is launched once; one thread per workflow; no cancellation is lost; `completed` hides no failure; no case waits for nobody; the workflow ends |
| Automations (`automations/`, `repositories/automations.py`) | tables of runs, steps and schedules, thread pool with its queue, scheduler job | start by an operator or by the cron schedule, execute step by step with retries, cancel, resume after a restart | no step whose outcome is unknown is repeated; a cancellation stops the run; one row per cron point; one execution per run; the run ends |
| Database recovery and lifecycle (`services/recovery.py`, `services/startup.py`, `main.py`, `core/`) | completed startup steps, check lock, monitor thread, scheduler | check, run a step, serve, shut down | each step once and in order; readiness is earned; a scheduler that ran stays stopped |
| Tokens (`services/mcp_tokens.py`) | users, tokens, sessions opened with them | issue, rotate, revoke, edit and delete the owner, open a session, answer | a limit on working tokens; what is revoked answers nothing |
| Subnet scanning script (`mp10_export_VM_info.py`) | the loop's locals, `failed_subnets`; tasks, jobs, removals in MP VM | check, audit, export, resolve, remove, time out | an asset is removed only after its own check and export and an audit without a failed job of it; status 0 means removed |

Components interact through rows and threads: a scan run admits build jobs and
waits for them; a build job rebinds the item of the scan run it belongs to; a saved
card rewrites its findings, its index and, by triggers, the rollups, and a
reconciliation turns the findings into cases; a workflow launches scan runs and
reconciles cases when they end; a step of an automation launches any of them; the
startup steps interrupt the jobs, release the leases and resume the runs the last
process left; connecting a session resumes scan runs, cleanups and workflows.

What is hard here: a handler that reads and then writes in two transactions; a
cancellation in two halves (row, token), and a status written over `cancelling`
so that only the flag carries it; crashes between a remote call and the record of
it; a recovery that comes while requests are already served; deadlines that race
with a remote scan; futures that wait for a thread while their row says something
else; threads that outlive the `join` that waits for them; threads that wait for
what another thread loads and gives up on; derived tables (index, links, rollups,
registry) that are brought up to date by somebody who read an older source.

`PROJECT.json` lists every hazard at its line with the properties that would catch
it, and a note where a property excepts a case the code really has.

## 2. Modules

| Module | Models | Proofs |
|---|---|---|
| `AssetCardJobs` | one job = its row, its thread (`pc`), its token; admission, worker, cancel, shutdown, restart, late recovery | `AssetCardJobsProofs` |
| `AssetCardIdentity` | the match of a saved object with the cards, and the overwrite that follows | `DerivedProofs` |
| `AssetBuilder` | builders of one MP VM address: levels of the tree, shared metadata, vulnerability groups, cancellation | `ServicesProofs` |
| `AssetQuery` | a field query: its normal form, the search's evaluation of it (`Selects`) and the documented meaning beside it (`Holds`) | |
| `AssetSearch` | cards, their index and inventory, the backfill thread (`bpc`) | `DerivedProofs` |
| `AssetGroups` | extends `AssetSearch`: definition, exceptions, evaluations in four transactions; the search it calls is a parameter (`Valid`, `Selects`, `Holds`) | `DerivedProofs` |
| `GroupTree` | edits of parents: the walk, one query per level, and the write | `DerivedProofs` |
| `Remediation` | a saved card, reconciliations by threads (`rec`), cases, edits with `expected_version`, policy, expiry | `DerivedProofs` |
| `Passports` | the catalogue, its refresh in steps (`rpc`), the detail job (`dpc`), links, cases that follow | `DerivedProofs` |
| `Rollup` | findings written statement by statement with their triggers, and the two ways to read them | `DerivedProofs` |
| `Trends` | captures in two steps, the prune, the trend that carries forward | `DerivedProofs` |
| `SnapshotCache` | entries by age, leading loads and waiters, background refreshes, eviction | |
| `BulkRefresh` | row, coordinator, workers, slots, children and the cancelling handler | `RecordProofs` |
| `Operations` | job tables, the registry, copies in a read and a write, the sweep | |
| `Access` | users, tokens, row locks, sessions | `RecordProofs` |
| `ScanPostprocess` | one run: row and lease, monitor worker (`wpc`), item threads (`ipc`), cancellation, crash | `ScanPostprocessProofs` |
| `KeyedLaunch` | the abstract promise of an idempotency key: claimed once, started once, every answer names the owner | |
| `ScannerTasks` | requests that launch, create, edit, retry, delete and sweep (`pc`), the task in both places, precheck tasks, crash; `Launch` is its refinement mapping to `KeyedLaunch` | `ScannerTasksProofs` |
| `DockerGroup` | one launch: start request (`lpc`), worker (`wpc`), cleanup (`cpc`), the lifecycle record, MP VM and time | `RecordProofs` |
| `VmWorkflow` | workflows of four kinds: rows, steps and children, cases of a campaign, executor threads (`thread`), requests (`req`), shutdown | `VmWorkflowProofs` |
| `Automation` | runs of one runbook: rows and steps, queue and workers (`exec`), requests in flight, scheduler (`spc`), resume plan (`boot`) | `AutomationProofs` |
| `DatabaseRecovery` | one process lifecycle: `check()` by startup, monitor and request threads, steps, shutdown, outages | `ServicesProofs` |
| `SubnetScan` | the script: point in `process_scan_subnet` (`pc`), stage, and what MP VM does meanwhile | `RecordProofs` |

Three modules hold components whose theorems share a proof module, each component with
variables of its own and with the constants its theorems quantify over. `Records`
extends `SubnetScan` and instantiates `AssetCardIdentity`, `Remediation`, `Passports`, `Access`,
`BulkRefresh` and `DockerGroup`; `Derived` extends `Records` by what is computed from other rows:
`AssetGroups` with its index, `GroupTree`, `Trends` and `Rollup`; `Services` extends
`DatabaseRecovery` by `AssetBuilder`. The theorems of the other proof modules are about the
module they extend.

`MC*` modules give the instances TLC checks. `MCRecords` (which extends `Derived`, and gives
the search of the groups the operators of `AssetQuery`) and `MCServices` (which extends
`Services`) hold several components each: the variable `focus` says which of them a
behaviour moves. A component that is not in focus stays where it starts, so its
property is checked without a guard; in `MCServices` the variables of the components
beyond `Services` are cells (`v01`, `v02`, ...) that the `INSTANCE ... WITH` of their modules
name. The components in one of these modules write no table in common, so a behaviour of
one together with another would add only shuffles of the two; where components do share a
table (cards with index and groups, passports with cases, findings with rollups) the
module of the component holds both sides. `DockerGroup`, `AssetSearch` and `SubnetScan` are
in both: `Records_safety` checks what they keep, `Services_live` that they end.

An action is one transaction, one remote call or one in-memory step between two
points at which another thread, the operator, MP VM or a crash can interfere; `map`
in `PROJECT.json` gives the lines of each definition. Operators marked *Mutant* are
plausible bugs of the definition that follows them: with the mutant in its place TLC
must refute the property listed for it.

How the state corresponds to the code:

* `status`, `leased`, `cancelRequested`, `item` ... are columns; a `*pc` variable
  is the program point of a thread; `event`, `cancelEvent` are `threading.Event`s.
* A card is known by its asset id; in `AssetCardJobs` and `ScanPostprocess` the
  match of `canonical_asset_card_id` is by `HostOf`, a stable identity, and
  `AssetCardIdentity` examines the match itself.
* A database error is a step of its own (`Fail`, `FinishLost`, `QueueAssetFails`,
  `StepFails`, `WriteRaises`, `SchedulerRaises`, `DatabaseFails`), bounded or switched
  by a constant where it changes what can be promised.
* A row lock (`Access.locked`, `Remediation.rec` at `"locked"`) is held from the
  statement that takes it to the end of the transaction; a writer that holds the
  passport write lock from its first statement on is one action.
* A child of a workflow is identified by its workflow and its unit (the task, an
  asset, or the operation that was tracked), which is what its idempotency key is
  made of; a child whose key is known is replayed, not started.
* Variables called history (`covered`, `loose`, `blind`, `overlapped`, ...)
  exist for the properties only; no guard reads them.
* Progress counters, messages and log lines are left out; so is the content of a card
  where it decides nothing.

## 3. Runs

| Run | Question | Result |
|---|---|---|
| `AssetCardJobs_safety` | one job per object, a cancellation that saves nothing, the name of the card; failing writes, a restart | holds |
| `AssetCardJobs_late` | the limit and termination when recovery comes late | holds |
| `ScanPostprocess_run` | removals, the quiet after the end, what `completed` means, and the end itself | holds |
| `Automation_runs` | repeated steps, cancellation, and the end of a run, with a startup step that is retried late | holds |
| `Automation_schedule` | the scheduler against operators, overlaps and cron points | holds |
| `VmWorkflow_live` | one workflow of any kind: launches, threads, cancellation, result, end | holds |
| `VmWorkflow_campaign` | overlapping verifications of one campaign, and retries | holds |
| `ScannerTasks_launch` | launches implement `KeyedLaunch`; runs and prechecks are accounted for | holds |
| `Records_safety` | eleven components of rows, one in focus at a time | holds |
| `Services_live` | seven components that work in the background and have to end | holds |
| `Remediation_gone` | a case is resolved only if the vulnerability is gone | refuted |
| `Operations_end` | the end of a job reaches the registry | refuted |

Bounds. The hazards are races between two requests or two threads and one crash
between two steps, so two of each reach them; what an instance has more of, it
has because a case needs it.

* Build jobs: 2 jobs; `_safety` with 2 objects of one host (so that every rebind and
  both orders of two saves happen), limit 2, 1 restart, failing writes; `_late` with one
  object, limit 1 and a database that comes back after requests are served.
* Post-processing: one target with 2 assets, one of them with an older card; one item
  thread, so that the second item waits for its turn; failing writes, late recovery, one
  crash.
* Automation: `_runs` one run of 2 steps, 2 workers, 1 retry, 1 crash, 1 failing write;
  `_schedule` 2 rows, 2 cron points, 1 crash, 1 failing write. Two ticks
  separate a fired, a missed and a repeated cron point.
* Workflows: `_live` one workflow, 2 assets (a child that succeeds beside one that fails),
  1 restart, 1 failing query; `_campaign` 2 workflows and one case, 1 failing query and no
  crash: what concerns the overlap needs two rows, what concerns a crash one.
* Scanner tasks: 2 starts under one key, a retry, a save, 2 deletions, a sweep, 1 crash,
  one target.
* `Records_safety`: identity, 3 objects of 2 hosts, 3 saves; passports, 3 listings in
  which an id is issued again, a passport loses its CVE and another changes its package,
  2 findings, 3 requests, 1 restart; remediation, 4 snapshots (complete, empty,
  truncated with a group that has no id, and failed), 2 threads, 2 saves, 2 requests,
  1 crash; rollup, 4 findings (one of every form of the selector, two of one selector) on
  2 assets, 3 writes; trends, 3 captures in 4 days, retention 2; access, 3 tokens,
  2 threads, limit 2, 1 session, 2 requests, 1 tick; groups, one card with 3 contents and
  3 queries that tell the two scopes apart, 2 evaluators, 2 edits, 1 save; tree, 3 groups,
  3 edits by 2 editors; bulk refresh, 2 cards, 2 workers, 2 slots; script, 2 subnets with 2
  hosts and 1, 7 combinations of options, one job per answer of MP VM, 2 files per export;
  dynamic group, retention 2 in 3 ticks (which separates "at once", "too early" and "in
  time"), a second run of the task, 1 crash.
* `Services_live`: recovery, 3 steps (a first, a middle and a last one), 3 threads,
  2 outages; group, as in `Records_safety`; builder, a Linux and a Windows host with a
  type in common, depth 1, one failed request per level, 4 ways the vulnerability requests
  end; registry, 2 jobs, 2 requests, 2 ticks, 1 crash; cache, 2 keys for one entry,
  2 threads; backfill, 2 cards, batches of 1, 2 saves, 1 fault; script, 1 subnet of 1 host.

Every bound is a constant with `Max` in its name, or the size of a set.

Symmetry is used in `AssetCardJobs_safety` (jobs, objects) and `VmWorkflow_campaign`
(rows), which check only invariants.

Deadlock is checked where the system can rest only in named states: a stuttering
action (`Quiet`, `Finished`, `Down`) says which. It is switched off in
`ScannerTasks_launch`, `Records_safety` and `Services_live`, where a behaviour ends when
every request was answered, the thread in focus has ended or the bounded number of saves,
edits or ticks is used up; that the threads of `Services_live` do not stop before is what
its liveness properties say. The two refuted runs need no deadlock check either.

Fairness. A thread that can take a step takes it (weak fairness, thread by thread, of `Worker`,
`ItemThread`, `Check`, `Launch`, `Cleanup`, `Run`, `Work`, `Backfill`, `Thread`,
`Working`), and so does a request that has begun; the deadlines of the monitor loop bound
the number of polls (strong fairness of `EndMonitoring`), those of the script are weakly
fair because nothing in MP VM takes them away; a cleanup or a recovery step that is retried
for ever succeeds in the end (strong fairness of `RemoveGroup`, `RecordRemoved`, `RunStep`);
the registry is listed again and again by an open page (strong fairness of a listing that
sweeps); scans and child operations end, the clock goes on, the database comes back, a
process that was stopped is started again and resumes, and an operator signs in again after
a restart. No fairness is assumed for new requests, cancellations, crashes or failures, nor
for MP VM in the script. In `Services_live` one condition is the disjunction of one of
each component: only the component in focus can take a step, so the condition is that
component's own.

## 4. What is proved

* `AssetCardJobsProofs`: `TypeOK`; `ActiveWithinLimit` for any number of jobs and
  any limit; `AcknowledgedCancelSavesNothing`; and, when recovery precedes
  serving, `OneBuilderPerAsset`; `CardsAndNames` (one card per host, and a completed job
  names its card). The limit is inductive with finiteness of the job set; the others need
  to know which program points go with which row status (a thread past its start has an
  active row with its own asset until it finishes) and that a token or the row carries
  every acknowledged cancellation. A direct build saves its card through the same match, so
  it keeps one card per host; it has no row, and `OneBuilderPerAsset` is about jobs.
* `ServicesProofs`, recovery: `TypeOK`, `StartupIsSound` (each step once and in order, no
  ready answer before all of them) with `CheckpointMeansDone`, and `SchedulerStaysStopped`,
  whether or not the join times out. The invariant: only the lock holder is inside a check,
  the completed steps are a prefix, each done once, and nothing else was done; after the
  join only the monitor can be inside a check, and what it has to do was `missed` by the join.
* `DerivedProofs`, card identity: `TypeOK` and `OneCardPerFqdn` for any objects and
  observations; the fqdn branch of the match is the first one, so a save either
  meets the one card with its fqdn or no card has it. `CardsStayWithHost`, from
  `HostsDistinct` (observations that share an object, an fqdn, an address or a name are of one
  host): every column of a card was reported of the host whose card it is, so whichever branch
  matches, the card found is of the observed host.
* `ServicesProofs`, builder: `UnwarnedIsWhole` for any tree, builders, widgets, answers and
  depth, from `NodesTyped` and `AnswersTyped` (every node has a type and refers to nodes, what was
  loaded is a number of items). What a card has to hold is stated by paths: the ends of
  at most `MaxDepth` steps from the root. The invariant of a builder without a warning (`Sound`): it has
  read what the paths of its depth lead to, and whatever is below a node that is not of the
  last level is read as well; the metadata it holds shows all that its host may have; and a
  type of that level which it does not know is claimed, asked for or awaited. A traversal that
  finds nothing new before its greatest depth has found all (`ClosedIsAll`: a path that leaves
  a closed set has a first node outside it).
* `RecordProofs`, bulk refresh: `EndedRefreshIsQuiet` for any cards, workers and slots. The
  invariant: a worker is in the pool only between the selection and the join; a child that
  runs was tracked, or its worker is about to track it and then sees the cancellation; and
  after the end only the cancelling handler writes, once.
* `RecordProofs`, tokens: `TokensHold` for any users, tokens, threads, times and limits
  (`AccessWellFormed` gives them their types). The invariant has three parts: who holds which
  row lock at which point of a request; a request that is about to insert has counted under
  the lock of the owner, and nobody else can add a token of this owner meanwhile; a token whose
  end was acknowledged stays revoked, or its row is gone for good.
* `DerivedProofs`, remediation: `CasesMatchCard` and `EditsSeeTheirCase` for any keys, snapshots,
  threads, saves, requests and crashes (`CasesWellFormed` gives the constants their types). The
  invariant: a pass that has read the card as it is stored now knows its findings, and
  locks rows that exist; a resolution has its event; what was reconciled is covered; and a
  case that differs from the page has a greater version.
* `DerivedProofs`, passports: `PassportsHold`, `CasesFollowPassport` and, with card identity,
  `RowsKeepTheirSubject`, for any passports, listings, findings, cases and number of requests
  and restarts, from `ListingsTyped` and `IdsOrdered` (no id is NULL, ids compare as strings).
  The query that links a finding has a winner because scores are bounded numbers, and only
  one because ids break ties; a write to some passports leaves the winner of every finding
  outside their scope as it was (`StillBest`), which is what the narrow relink relies on. On top
  of that an upsert, whose replacements are passports of the same vulnerability, relinks
  whatever it changed, and an active row has its thread.
* `DerivedProofs`, groups: `GroupsHold` for any cards, contents, queries, groups, evaluators,
  edits and moves. Three invariants. Of the tree (`TreeInv`), unless two edits overlapped: every
  set of live groups has one whose parent is outside, and a walk has seen a chain of parents
  from the new parent up to its candidate, which does not hold the group that moves; the
  groups that are not shown would be a set with all their parents in it. Of the index
  (`IndexInv`): what the backfill carries from its read to its write is the card as it is
  stored, unless a save overtook it. Of the groups (`GroupInv`): an evaluation that nothing
  overtook knows the definition as it is now and the cards that the search finds for it. The
  result about members is relative to `SearchMeans`: of one card the search selects exactly
  what the query says. TLC checks the property with `AssetQuery` in that place, where
  `SearchMeans` holds.
* `DerivedProofs`, trends: `TrendIsHistory` for any retention and any order of the captures. The
  invariant (`HistoryInv`): ids count the snapshots, and what was pruned is older than the
  retention before another snapshot. So the last snapshot up to a day is kept once the
  retention holds one up to that day (`LatestIsKept`), and what is kept is never newer than
  what the history has (`KeptIsNeverNewer`).
* `DerivedProofs`, rollups: `TotalsAreTrue` (with `TrendIsHistory`) for any finite set of assets and
  detections, from `DetectionsTyped` (a rank is 1 to 5). The invariant (`RollupInv`): each rollup
  is what its source view gives for the rows beside it, after every statement of a transaction
  and committed alike, because what a trigger refreshes is all that the statement changed. That the
  two forms of the summary agree is then a fact about sums, which are the sizes of sets of
  numbered units: adding up the counts of the hosts counts disjoint sets (`SumOfSizes`).
* `ScannerTasksProofs`: `LaunchesKeyed`, the refinement, for any tasks, requests, keys and
  crashes: every step of a request maps to a `Claim`, a `Start`, a `Reply` or a stutter.
  The invariant `KeyInv` says which points a request can be at given what is recorded of
  its key: before the acceptance it owns nothing and has no scan, between acceptance and
  answer it owns the key. `StartedScanIsTracked` follows from a second invariant about the
  run rows, which are written with the key. `TypeOK`, and relative to it `PrechecksAccounted`
  for any number of requests that fail or are cut between MP VM and the row. Its invariant
  `VisibleInv` says that a request has no row before its second write, that a cleanup visits
  only tasks with a row and writes the row of one that MP VM no longer has, and that the
  deletion which dropped the rows is past its removals for good.
* `ScanPostprocessProofs`: `RemovalsAreSafe` and `FinishedRunIsQuiet` for any targets,
  assets, wave size and number of crashes, recovered early or late. The invariant: a thread
  that is not idle is in the worker's wave, and the wave is empty wherever the worker reads
  what the run has done; a thread between its save and its removal works on an object whose
  card was saved; an acknowledged cancellation is remembered by the event as long as a thread
  lives, and by `cancel_requested`, which the claim copies, for every later worker. `CompletionIsTrue` for any number of
  crashes, when no two assets of MP VM are taken for one host (`HostsDistinct`, section 5).
  One invariant (`Accounted`) follows an item that a resumed worker owes: it is in the backlog
  or in the wave wherever the worker reads what is left, and nothing is owed any more at the
  summary. The other (`OwnAsset`) says that the id an item carries, rebound or not, the object
  its thread reads and the removal it waits for are of the item's own asset or of a card that
  MP VM no longer has.
* `RecordProofs`, Docker groups: `GroupStays` for any retention, any number of crashes and a task that
  is started again, from `GroupWellFormed` (a retention in seconds, and no session connected during
  the launch). The invariant: the start request has the run for itself, so the cleanup goes
  past its loop only for a run that has ended and whose scan is not running; only a creation
  whose wait did not end well can be under way; and without a crash the deadline is reckoned
  from the end of the scan, because the worker writes it first, after the end, or the
  cleanup that confirms the end writes it anew.
* `RecordProofs`, script: `RemovalsHold` for any list of subnets, hosts and options, from
  `WellFormed` (no subnet twice, one subnet per host, which `parse_subnets` and the address
  ranges give). The invariant: a subnet that is processed does not come again, what the script
  holds in `targets`, `found` and `ids` is of the current subnet, the run of the check cannot
  begin any more once its hosts are known, the audit run has ended before the export, so its jobs
  stay as `wait_for_task_success` read them, and every asset asked for is settled before the
  next subnet.  Nothing is assumed of the jobs of a run: there may be none.
* `VmWorkflowProofs`: `TypeOK` and `NothingRunsTwice` for any workflows, assets, threads, requests
  and crashes, sessions connected in the middle of a request included; `EndIsTruthful` and
  `WaitingCaseHasWorkflow` from `ConnectDuringRequest = FALSE` (section 5). Three invariants, each
  on top of the one before. `Base`: a thread has its workflow in `scheduled` from the schedule
  to the callback and no other thread has it; a child has its row before it is started, and
  the thread that is about to start it is the first to. On it rests `Scans`: unless a thread
  was scheduled without the link (`unlinked`), a workflow that tracks a scan has its link before
  any thread looks for it, and no start of the task. `Truth`: a request works on an active
  workflow without operations until it has given it some; a thread works on an active workflow,
  knows its operations from the start on, and of every failed one from the end of the
  monitoring on; wherever it decides the end, which it does from the last look at the flag on,
  a cancellation that it has not seen came too late. `Care`: a case is owned by a workflow that was attached to the campaign; as long as the
  case waits, that workflow is active, in its request or has a thread on its way to tell it,
  and a thread that gives up leaves a workflow that is still active or has told its cases.
* `AutomationProofs`: `StepsNotRepeated` and `CancelStopsRun` for any number of runs, threads,
  steps, keys, crashes and failing writes; `EveryRunOnce` and `ScheduledRunsNeverOverlap` from
  `LateResume = FALSE`. The invariant: every way to submit a run (a request, the scheduler
  between start and submit, the resume plan) starts from a run that has no future and no
  thread, and hands it over to exactly one; a run that a crash cut in a step is in none of
  these places; a thread's remaining steps are not completed; a cancelled run has at most one
  late step, the one its thread stands at; and of the scheduled runs at most one is active
  that was not cancelled in the queue. All but the rows and the cut-off runs is claimed only
  until the startup step that resumes has failed (`retried`), after which a run may have two
  threads: section 5.

Only model-checked:

* Everything about liveness and fairness (`RunEnds`, `EveryJobEnds`, `WorkflowEnds` and the other
  temporal properties), which the prover cannot express.
* What the recursive evaluation of a query selects (`SearchMeans`), induction over data; TLC
  checks it through `GroupsHold`.
* That the components composed in `MCRecords` and `MCServices` do not disturb each other: the
  theorems are about a component's own specification.

## 5. What the checks found

Two statements of the repository are refuted:

* `ResolvedOnlyIfGone` (run `Remediation_gone`): README.md:32 promises that `resolved`
  is set only after a full and fresh refresh in which the finding is no longer present. A
  vulnerability group whose request failed is not stored and leaves no `truncated` flag, so
  its findings count as gone.
* `EndIsNotLost` (run `Operations_end`): the docstring at `app/db.py:1142` says the legacy
  tables remain authoritative. A request that reads a job as active and writes what it read
  after the job has ended leaves it active in the registry when the end carries the same
  second: no later listing finds it newer. One request is enough; with two, an older copy may
  also be written over a newer one, which `RegistryCloses` (liveness, by the sweep) covers.

What TLC shows when a restriction below is lifted. The restriction is in the property or
in a constant, because the code gives no more:

* Post-processing: a crash between two items of one target loses the others
  (`scan_postprocess.py:486` takes a target for resolved when one of its items exists,
  against `docs/system-architecture.md:94`), so no property says that every asset has an
  item. `CompletionIsTrue` needs assets of different hosts: when MP VM knows one host under
  two object ids, the item of one is rebound to the card of the other; after a crash the
  resumed item builds and removes the other object, and it ends as completed while its own
  object is still in MP VM.
* Workflows: `track_scan` commits the row of the workflow before the operation it tracks; a
  crash in between leaves a queued workflow without an operation, and the resumed workflow
  launches the task again (`vm_workflows.py:380`, against `docs/ARCHITECTURE.md:39`), and so
  does a session that is connected in between. `NothingRunsTwice` excepts a workflow that a
  thread ran without its link (`unlinked`). The monitor looks at the flag and then reads its
  children one by one (lines 473-496): a cancellation in between is lost when they have all
  ended, and the workflow ends as completed (`tooLate`).
  `WaitingCaseHasWorkflow` excepts a process that dies between the final status of a
  workflow and the record of it in the cases (`cutOff`). It and `EndIsTruthful`
  need `ConnectDuringRequest = FALSE`: a session connected between the row of a request and
  the rest of it resumes the workflow half made.
* Docker groups: `GroupOutlivesItsUse` needs `ConnectDuringLaunch = FALSE` (a session
  connected during a launch resumes the provisional run, whose cleanup works with an old
  snapshot of the group). `GroupIsRemoved` excepts a start that was lost in a crash, a
  later run of the same task, and a group that MP VM creates after the wait for it ended
  and the cleanup found nothing (`CreationUnseen`).
* Recovery: a check that outlives the join (`recovery.py:102`) and has not done the last step
  starts the scheduler after shutdown stopped it, and nothing stops it again;
  `SchedulerStaysStopped` excepts that check (`missed`) and says that there is no other.
* Trends: pruning removes the snapshot that the first days of a range would carry forward, when
  it is older than the retention: those days have no row, or an older one after a capture that
  committed late. From the first snapshot in the retention on every row is the history's.
* Cards: `CardsAndNames` holds where every observation carries the same identity; two
  objects that report different parts of it keep two cards, so `AssetCardIdentity`
  promises one card per fqdn only.
* Automations: `EveryRunOnce` needs `LateResume = FALSE`: the startup step that resumes
  automations, when it is retried while requests are served, submits runs of this process
  again. `CancelStopsRun` and `CompletedStepsStay` except runs after such a retry.
* Builder: a builder that is given the metadata of a load that failed or was cancelled, or
  metadata that another kind of host had filtered, misses parts without a warning (`blind`).
* Groups: two edits of parents that overlap can make a cycle, which the page does not show
  (`overlapped`); an evaluation overtaken by an edit or a save leaves a group `ready` with
  the old members (`doubtful`); a card saved between the backfill's read and its write keeps
  the older index (`overtaken`). The stored evidence of a text condition with `equals` or
  `not_equals` is dropped (`db.py:7041`), so a condition over one entity is evaluated by
  scope and rule, not by evidence.
* Passports: findings touched by a deletion, an unfinished detail job or the trends of a
  whole refresh keep an older link until the next relink (`loose`); a cancellation can be
  written over the end of a refresh (`raced`), as in the bulk refresh (`overwritten`); and a
  refresh that is cancelled or fails after it has created the row of its detail job, and before
  it submits the job (`passport_refresh.py:57-62`), leaves a queued row nobody works on, which
  blocks later refreshes until the next start (`abandoned`).
* Cache: a value loaded before an invalidation is stored after it.
* Script: the timeout of a connection check drops the hosts it had already found, while its
  own run-time limit keeps them; an audit that failed, an invalid task and a check nobody
  answered only skip the subnet and leave the exit status 0; an audit that was stopped or
  suspended counts as finished, and `wait_for_task_success` takes a finished run whose list of
  jobs is empty or lacks hosts for a success (lines 1339-1359), so the assets of hosts whose
  jobs are still open, or that have none, are exported and removed, as an older scan left
  them; an asset that another scan writes between the export and the resolution of the ids is
  removed without having been exported. `RemovalsHold` is stated about the host accordingly.
* `RunEnds`, `WorkflowEnds` and `EveryJobEnds` are promised as long as no write and
  no query is lost, and so is `ActiveMeansWorked` as long as the write of an end succeeds; a row whose last write failed
  waits for the next restart.

## 6. Left out

* `ScanPostprocess`: overlapping targets of one run, the retry delays of target
  resolution, counters, a failing write inside the error handler of an item.
* `Automation`: editing and publishing runbooks and schedules, deletion of a runbook, the
  deliveries of webhooks, and what a step does in MP VM.
* `VmWorkflow`: requests replayed by their idempotency key, progress, preflight, lists and
  the overview. That every target gets a child is not promised (`DropChild`), nor that
  a graceful shutdown leaves workflows to be resumed (they end as cancelled), nor that a case
  resolved by somebody else leaves the state `running`, nor that a retry keeps the start
  errors of the workflow it retries.
* Snapshots: filters, sorting, pages and the catalogue of the analytics queries.
* Authentication: passwords, roles, LDAP and the limits on logins.
* Team tasks and presets: rows with an author, a status and a due date, edited one request at
  a time; planned.
* Compliance and risk: queries and scoring over stored rows, without concurrency or a state
  of their own.
* MP VM client: HTTP requests and the parsing of their answers; its effects appear as
  external actions of the other modules.
* Reports and exports: formatting of query results. Diagnostics: logging and tracing; no
  other component reads its state.

## 7. Plan

1. Model: team tasks and presets; webhook deliveries beside `Automation`; logins and their
   limits beside `Access`; the composition of `AssetCardJobs` with `ScanPostprocess`, which
   now stand for each other by an external action.
2. Prove: every invariant a run checks is the subject of a theorem by now. What is left are
   steps towards the liveness properties that are safety (a measure that no action but a new
   request raises, for `WorkflowEnds` and `BuildEnds`), `KeyedLaunch` by a second detailed
   specification, and what is modelled next.

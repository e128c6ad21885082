----------------------------- MODULE DockerGroup -----------------------------
(***************************************************************************)
(* The dynamic MP VM asset group that one scanner run owns: it is created  *)
(* before the remote scan starts, kept for the scan, the Docker queries    *)
(* and a retention period, and removed by a background cleanup.            *)
(*                                                                         *)
(* One launch is modelled.  Its row (scan_postprocess_runs, with the group *)
(* in options.docker_dynamic_group) survives a crash; the thread of the    *)
(* start request (lpc), the post-processing worker (wpc) and the cleanup   *)
(* (cpc) do not.  MP VM is the group, the scan, and a later run of the     *)
(* same scanner task that somebody else starts.                            *)
(***************************************************************************)
EXTENDS Integers

CONSTANTS
    Retention,            \* DOCKER_DYNAMIC_GROUP_RETENTION_SECONDS
    None,                 \* a field of the group that is not set
    ConnectDuringLaunch,  \* TRUE: a session may be connected while the launch is under way
    TaskRunsAgain,        \* TRUE: the scanner task may be started once more
    MaxTime,              \* time passes freely up to here, later only for a waiting cleanup
    MaxCrashes            \* bound on crashes

VARIABLES
    \* the row of the run
    run,            \* "absent", "active" or "final"
    knownRun,       \* mp_run_id: the remote run the worker has seen
    state, requested, confirmed, finishedAt, cleanupAfter, removed,
    \* the process
    lpc, wpc, cpc,
    deadline,       \* cleanup_after as the cleanup read it
    \* MP VM
    group, scan, scanEnd, rerun, rerunEnd,
    now, crashes,
    gone            \* history: when the group was removed

row == <<run, knownRun>>
lifecycle == <<state, requested, confirmed, finishedAt, cleanupAfter, removed>>
threads == <<lpc, wpc, cpc, deadline>>
mpvm == <<group, scan, scanEnd, rerun, rerunEnd>>
world == <<now, crashes, gone>>
vars == <<row, lifecycle, threads, mpvm, world>>

Time == Nat \cup {None}
RemoteStates == {"none", "running", "finished"}

TypeOK ==
    /\ run \in {"absent", "active", "final"} /\ knownRun \in {"none", "scan", "rerun"}
    /\ state \in {"planned", "creating", "create_failed", "ready", "starting", "active", "start_failed"}
    /\ requested \in BOOLEAN /\ confirmed \in BOOLEAN /\ removed \in BOOLEAN
    /\ finishedAt \in Time /\ cleanupAfter \in Time
    /\ lpc \in {"idle", "created", "creating", "settling", "ready", "starting", "launched",
                "started", "failing", "closing", "done"}
    /\ wpc \in {"none", "monitoring", "terminal", "closing"}
    /\ cpc \in {"none", "loop", "waiting", "recording"}
    /\ deadline \in Time
    /\ group \in {"absent", "pending", "present"}
    /\ scan \in RemoteStates /\ rerun \in RemoteStates
    /\ scanEnd \in Time /\ rerunEnd \in Time
    /\ now \in Nat /\ crashes \in 0..MaxCrashes /\ gone \in Time

Init ==
    /\ run = "absent" /\ knownRun = "none"
    /\ state = "planned" /\ requested = FALSE /\ confirmed = FALSE /\ removed = FALSE
    /\ finishedAt = None /\ cleanupAfter = None
    /\ lpc = "idle" /\ wpc = "none" /\ cpc = "none" /\ deadline = None
    /\ group = "absent"
    /\ scan = "none" /\ scanEnd = None /\ rerun = "none" /\ rerunEnd = None
    /\ now = 0 /\ crashes = 0 /\ gone = None

-----------------------------------------------------------------------------
(* Scheduling a cleanup. *)

\* schedule_scan_docker_group_cleanup: what the row already has is kept, and a
\* cleanup that is still running is not started twice.
ScheduleCleanup(at) ==
    IF removed THEN UNCHANGED <<finishedAt, cleanupAfter, cpc>>
    ELSE /\ finishedAt' = IF finishedAt = None THEN at ELSE finishedAt
         /\ cleanupAfter' = IF cleanupAfter = None THEN finishedAt' + Retention ELSE cleanupAfter
         /\ cpc' = IF cpc = "none" THEN "loop" ELSE cpc

-----------------------------------------------------------------------------
(* The start request. *)

Launching(from, to) == lpc = from /\ lpc' = to /\ UNCHANGED <<wpc, deadline>>

\* ensure_postprocess_run: the row exists before anything remote happens.
CreateRun ==
    /\ Launching("idle", "created")
    /\ run' = "active"
    /\ UNCHANGED <<knownRun, lifecycle, cpc, mpvm, world>>

\* The group's name holds the run id, so MP VM never has the group already.
BeginCreate ==
    /\ Launching("created", "creating")
    /\ state' = "creating"
    /\ UNCHANGED <<row, requested, confirmed, finishedAt, cleanupAfter, removed, cpc, mpvm, world>>

\* MP VM answers with an operation that creates the group.
CreateAccepted ==
    /\ Launching("creating", "settling")
    /\ group' = "pending"
    /\ UNCHANGED <<row, lifecycle, cpc, scan, scanEnd, rerun, rerunEnd, world>>

\* wait_for_asset_group_creation finds it, and the settling time passes.
CreateDone ==
    /\ Launching("settling", "ready") /\ group = "present"
    /\ state' = "ready"
    /\ UNCHANGED <<row, requested, confirmed, finishedAt, cleanupAfter, removed, cpc, mpvm, world>>

\* The hierarchy or the creation raises, or the wait for it times out: the group may
\* exist, or come into existence later.
CreateFails ==
    /\ \E from \in {"creating", "settling"} : Launching(from, "failing")
    /\ state' = "create_failed"
    /\ cleanupAfter' = now
    /\ UNCHANGED <<row, requested, confirmed, finishedAt, removed, cpc, mpvm, world>>

RequestStart ==
    /\ Launching("ready", "starting")
    /\ state' = "starting" /\ requested' = TRUE
    /\ UNCHANGED <<row, confirmed, finishedAt, cleanupAfter, removed, cpc, mpvm, world>>

StartAccepted ==
    /\ Launching("starting", "launched")
    /\ scan' = "running"
    /\ UNCHANGED <<row, lifecycle, cpc, group, scanEnd, rerun, rerunEnd, world>>

\* The call raises, whether or not MP VM started the scan.
StartFails(accepted) ==
    /\ Launching("starting", "failing")
    /\ state' = "start_failed"
    /\ scan' = IF accepted THEN "running" ELSE scan
    /\ UNCHANGED <<row, requested, confirmed, finishedAt, cleanupAfter, removed, cpc,
                   group, scanEnd, rerun, rerunEnd, world>>

RecordStarted ==
    /\ Launching("launched", "started")
    /\ state' = "active"
    /\ UNCHANGED <<row, requested, confirmed, finishedAt, cleanupAfter, removed, cpc, mpvm, world>>

\* finish_provisional_scan_start_failure, in its two writes.
ProvisionalFailure ==
    /\ lpc = "failing" /\ UNCHANGED <<wpc, deadline>>
    /\ IF run = "active" THEN ScheduleCleanup(now) /\ lpc' = "closing"
       ELSE UNCHANGED <<finishedAt, cleanupAfter, cpc>> /\ lpc' = "done"
    /\ UNCHANGED <<row, state, requested, confirmed, removed, mpvm, world>>

FinishProvisional ==
    /\ Launching("closing", "done")
    /\ run' = "final"
    /\ UNCHANGED <<knownRun, lifecycle, cpc, mpvm, world>>

\* The worker is scheduled; the claim fails if the run has ended meanwhile.
HandOver ==
    /\ lpc = "started" /\ lpc' = "done"
    /\ wpc' = IF run = "active" /\ wpc = "none" THEN "monitoring" ELSE wpc
    /\ UNCHANGED <<row, lifecycle, cpc, deadline, mpvm, world>>

-----------------------------------------------------------------------------
(* The post-processing worker, as far as the group is concerned. *)

\* What get_task_runs(time_from = started_from, limit = 1) returns.
LatestRun == IF rerun # "none" THEN "rerun" ELSE IF scan # "none" THEN "scan" ELSE "none"
StateOf(r) == IF r = "rerun" THEN rerun ELSE scan
EndOf(r) == IF r = "rerun" THEN rerunEnd ELSE scanEnd

SeeRun ==
    /\ wpc = "monitoring" /\ LatestRun # "none"
    /\ knownRun' = LatestRun
    /\ UNCHANGED <<run, lifecycle, threads, mpvm, world>>

\* remember_docker_scan_finished_at(confirmed=True)
SeeTerminal ==
    /\ wpc = "monitoring" /\ LatestRun # "none" /\ StateOf(LatestRun) = "finished"
    /\ knownRun' = LatestRun
    /\ finishedAt' = EndOf(LatestRun) /\ confirmed' = TRUE
    /\ wpc' = "terminal"
    /\ UNCHANGED <<run, state, requested, cleanupAfter, removed, lpc, cpc, deadline, mpvm, world>>

\* The scan times out: remember_docker_scan_finished_at(confirmed=False)
GiveUp ==
    /\ wpc = "monitoring" /\ LatestRun # "none"
    /\ knownRun' = LatestRun
    /\ finishedAt' = now /\ confirmed' = FALSE
    /\ wpc' = "terminal"
    /\ UNCHANGED <<run, state, requested, cleanupAfter, removed, lpc, cpc, deadline, mpvm, world>>

\* Every way out of run_scan_postprocess: processed, empty, cancelled or failed.
CloseRun ==
    /\ wpc \in {"monitoring", "terminal"} /\ wpc' = "closing"
    /\ ScheduleCleanup(now)
    /\ UNCHANGED <<row, state, requested, confirmed, removed, lpc, deadline, mpvm, world>>

FinishRun ==
    /\ wpc = "closing" /\ wpc' = "none"
    /\ run' = "final"
    /\ UNCHANGED <<knownRun, lifecycle, lpc, cpc, deadline, mpvm, world>>

-----------------------------------------------------------------------------
(* The cleanup. *)

\* Mutant: a failed start that left no run is waited for like any other.
TerminalConfirmedOnly == ~requested \/ confirmed

\* Nothing to ask MP VM for, or a failed start that left no run until the deadline.
TerminalConfirmed ==
    \/ ~requested \/ confirmed
    \/ LatestRun = "none" /\ state = "start_failed" /\ cleanupAfter # None /\ cleanupAfter <= now

CleanupReady ==
    /\ cpc = "loop" /\ run = "final" /\ ~removed
    /\ TerminalConfirmed
    /\ deadline' = cleanupAfter /\ cpc' = "waiting"
    /\ UNCHANGED <<row, lifecycle, lpc, wpc, mpvm, world>>

\* Mutant: the state of the remote run is not looked at.
CleanupConfirmsUnfinished ==
    /\ cpc = "loop" /\ run = "final" /\ ~removed
    /\ ~TerminalConfirmed
    /\ LatestRun # "none"
    /\ finishedAt' = now /\ confirmed' = TRUE /\ cleanupAfter' = now + Retention
    /\ deadline' = cleanupAfter' /\ cpc' = "waiting"
    /\ UNCHANGED <<row, state, requested, removed, lpc, wpc, mpvm, world>>

\* confirm_docker_scan_terminal_for_cleanup
CleanupConfirms ==
    /\ cpc = "loop" /\ run = "final" /\ ~removed
    /\ ~TerminalConfirmed
    /\ LatestRun # "none" /\ knownRun \in {"none", LatestRun} /\ StateOf(LatestRun) = "finished"
    /\ finishedAt' = EndOf(LatestRun) /\ confirmed' = TRUE
    /\ cleanupAfter' = EndOf(LatestRun) + Retention
    /\ deadline' = cleanupAfter' /\ cpc' = "waiting"
    /\ UNCHANGED <<row, state, requested, removed, lpc, wpc, mpvm, world>>

\* In every other case the loop sleeps and looks again: the run is active, its
\* remote scan is not finished, is not there, or is not the latest one of the task.
CleanupWaits ==
    /\ cpc = "loop"
    /\ ~(run = "final" /\ TerminalConfirmed)
    /\ ~(run = "final" /\ LatestRun # "none" /\ knownRun \in {"none", LatestRun}
         /\ StateOf(LatestRun) = "finished")
    /\ UNCHANGED vars

\* Removes the group if MP VM has it, and waits until the hierarchy lacks it; a
\* creation still under way is not looked for.
RemoveGroup ==
    /\ cpc = "waiting" /\ now >= deadline
    /\ group' = IF group = "present" THEN "absent" ELSE group
    /\ gone' = IF group = "present" THEN now ELSE gone
    /\ cpc' = "recording"
    /\ UNCHANGED <<row, lifecycle, lpc, wpc, deadline, scan, scanEnd, rerun, rerunEnd, now, crashes>>

RecordRemoved ==
    /\ cpc = "recording"
    /\ removed' = TRUE
    /\ cpc' = "none"
    /\ UNCHANGED <<row, state, requested, confirmed, finishedAt, cleanupAfter, lpc, wpc, deadline,
                   mpvm, world>>

\* MP VM or the database raises: the loop starts over.
CleanupRetries ==
    /\ \/ cpc = "waiting" /\ now >= deadline
       \/ cpc = "recording"
    /\ cpc' = "loop"
    /\ UNCHANGED <<row, lifecycle, lpc, wpc, deadline, mpvm, world>>

-----------------------------------------------------------------------------
(* Restart, MP VM and time. *)

\* resume_scan_postprocess_runs, at startup or when an operator connects a session:
\* runs without a worker are resumed, pending cleanups of ended runs are scheduled.
Connect ==
    /\ lpc \in {"idle", "done"} \/ ConnectDuringLaunch
    /\ \/ /\ run = "active" /\ wpc = "none"
          /\ wpc' = "monitoring"
          /\ UNCHANGED <<finishedAt, cleanupAfter, cpc>>
       \/ /\ run = "final" /\ cleanupAfter # None /\ ~removed /\ cpc = "none"
          /\ ScheduleCleanup(now)
          /\ UNCHANGED wpc
    /\ UNCHANGED <<row, state, requested, confirmed, removed, lpc, deadline, mpvm, world>>

Crash ==
    /\ crashes < MaxCrashes /\ lpc # "idle"
    /\ crashes' = crashes + 1
    /\ lpc' = "done" /\ wpc' = "none" /\ cpc' = "none" /\ deadline' = None
    /\ UNCHANGED <<row, lifecycle, mpvm, now, gone>>

GroupAppears ==
    /\ group = "pending" /\ group' = "present"
    /\ UNCHANGED <<row, lifecycle, threads, scan, scanEnd, rerun, rerunEnd, world>>

ScanEnds ==
    /\ scan = "running"
    /\ scan' = "finished" /\ scanEnd' = now
    /\ UNCHANGED <<row, lifecycle, threads, group, rerun, rerunEnd, world>>

\* MP VM runs a scanner task once at a time.
TaskStartedAgain ==
    /\ TaskRunsAgain
    /\ scan = "finished" /\ rerun = "none"
    /\ rerun' = "running"
    /\ UNCHANGED <<row, lifecycle, threads, group, scan, scanEnd, rerunEnd, world>>

RerunEnds ==
    /\ rerun = "running"
    /\ rerun' = "finished" /\ rerunEnd' = now
    /\ UNCHANGED <<row, lifecycle, threads, group, scan, scanEnd, world>>

Tick ==
    /\ \/ now < MaxTime
       \/ cpc = "waiting" /\ now < deadline
       \/ cpc = "loop" /\ state = "start_failed" /\ now < cleanupAfter
    /\ now' = now + 1
    /\ UNCHANGED <<row, lifecycle, threads, mpvm, crashes, gone>>

Finished == run = "final" /\ removed /\ UNCHANGED vars

-----------------------------------------------------------------------------
Launch ==
    \/ CreateRun \/ BeginCreate \/ CreateAccepted \/ CreateDone \/ CreateFails
    \/ RequestStart \/ StartAccepted \/ RecordStarted
    \/ \E accepted \in BOOLEAN : StartFails(accepted)
    \/ ProvisionalFailure \/ FinishProvisional \/ HandOver

Worker == SeeRun \/ SeeTerminal \/ GiveUp \/ CloseRun \/ FinishRun
Cleanup == CleanupReady \/ CleanupConfirms \/ RemoveGroup \/ RecordRemoved \/ CleanupRetries \/ CleanupWaits
MpVm == GroupAppears \/ ScanEnds \/ TaskStartedAgain \/ RerunEnds

Next == Launch \/ Worker \/ Cleanup \/ Connect \/ Crash \/ MpVm \/ Tick \/ Finished

Spec == Init /\ [][Next]_vars

\* Threads run and the clock goes on; creations and scans end; the worker has its timeouts; a
\* removal that is retried for ever succeeds in the end; an operator signs in
\* again after a restart.
Fairness ==
    /\ WF_vars(Launch)
    /\ WF_vars(CloseRun) /\ WF_vars(FinishRun)
    /\ WF_vars(Cleanup) /\ SF_vars(RemoveGroup) /\ SF_vars(RecordRemoved)
    /\ WF_vars(Connect)
    /\ WF_vars(GroupAppears) /\ WF_vars(ScanEnds) /\ WF_vars(RerunEnds)
    /\ WF_vars(Tick)

FairSpec == Spec /\ Fairness

-----------------------------------------------------------------------------
(* Properties. *)

\* The group stays for the whole remote scan and for as long as the run may still
\* query Docker data or build cards, whichever way the run ends.
GroupOutlivesItsUse ==
    gone # None => scan # "running" /\ run = "final"

\* The group is not removed earlier than Retention after the remote scan ended, as
\* long as the process does not crash: a crash between the schedule of the cleanup
\* and the end of the run leaves a deadline that the end of the scan does not move.
RetentionRespected ==
    crashes = 0 /\ gone # None /\ scan = "finished" => gone >= scanEnd + Retention

\* The wait for the creation failed, by its deadline or with the process, so that the
\* cleanup may have looked for the group before MP VM created it.
CreationUnseen == state \in {"creating", "create_failed"}

\* What is recorded as removed is not in MP VM, and will not be: only a creation whose
\* wait timed out can still bring a group that nobody removes.
RemovalIsTrue == removed /\ group # "absent" => CreationUnseen

\* The group is there for as long as anybody counts on it, and no longer.
GroupStays == GroupOutlivesItsUse /\ RetentionRespected /\ RemovalIsTrue

\* The intent to start is recorded and MP VM never got the call.
StartLost == state = "starting" /\ scan = "none"

\* Nothing removes the group of this run: the start was lost, the latest run of the task
\* is not the one of this launch, or the creation took effect after the cleanup.
Unremovable == StartLost \/ rerun # "none" \/ (removed /\ CreationUnseen)

\* A group of a run that has ended is removed, over failures and restarts.
GroupIsRemoved ==
    (run = "final" /\ group = "present") ~> (group = "absent" \/ Unremovable)
=============================================================================

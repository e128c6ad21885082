------------------------------ MODULE Automation ------------------------------
(***************************************************************************)
(* The runs of one published runbook: started by the operator or by its    *)
(* cron schedule, executed step by step in a pool of threads, cancelled,   *)
(* and resumed after a restart.                                            *)
(*                                                                         *)
(* Rows (automation_runs, automation_run_steps, automation_schedules)      *)
(* survive a crash; the futures of the pool, its threads, the requests and *)
(* the scheduler thread do not.  What a step does in MP VM is external: it *)
(* succeeds, raises, or ends as cancelled.  The order of the futures that  *)
(* wait for a thread is not kept.                                          *)
(***************************************************************************)
EXTENDS Integers, FiniteSets

CONSTANTS
    MaxRuns,       \* bound on the rows
    Workers,       \* threads of the executor "automation-run"
    StepCount,     \* steps of the published definition
    Continue,      \* the steps with on_error = "continue"
    MaxRetries,    \* max_retries of a step
    Keys,          \* idempotency keys operators send
    None,          \* no key, no run
    MissedAfter,   \* two poll intervals of the scheduler
    LateResume,    \* TRUE: the startup step that resumes may fail, and requests come before it
    MaxTime, MaxCrashes, MaxFaults

ASSUME RunsNat == MaxRuns \in Nat \ {0}
ASSUME StepsNat == StepCount \in Nat \ {0} /\ Continue \subseteq 1..StepCount /\ MaxRetries \in Nat
ASSUME KeysDistinct == None \notin Keys \cup Int /\ Keys \cap Int = {}
ASSUME WorkersFinite == IsFiniteSet(Workers)
ASSUME AutomationFlag == LateResume \in BOOLEAN
ASSUME AutomationBounds == MissedAfter \in Nat /\ MaxTime \in Nat /\ MaxCrashes \in Nat /\ MaxFaults \in Nat

Runs == 1..MaxRuns
Steps == 1..StepCount

VARIABLES
    \* the rows
    status, cancel, origin, step, next,
    \* the process
    pending,      \* futures of a run that wait for a thread
    exec,         \* the threads of the pool
    requests,     \* runs an operator's request created and did not submit yet
    spc, slot, after,   \* the scheduler thread and its local variables
    boot, open, plan,   \* the startup step, whether requests are served
    \* the world
    now, crashes, faults,
    \* history
    interrupted,  \* steps of a run that were running when a process died
    late,         \* steps of a run that began after its cancellation was acknowledged
    early,        \* runs that were cancelled before they left the queue
    fired,        \* cron points the schedule has passed
    retried       \* the startup step that resumes has failed once

rows == <<status, cancel, origin, step>>
scheduler == <<spc, slot, after>>
startup == <<boot, open, plan>>
world == <<now, crashes, faults>>
history == <<interrupted, late, early, fired, retried>>
vars == <<rows, next, pending, exec, requests, scheduler, startup, world, history>>

ActiveStatuses == {"queued", "running", "cancelling"}
Terminal == {"completed", "completed_with_warnings", "failed", "cancelled", "skipped", "needs_attention"}
StepStatuses == {"pending", "running", "completed", "failed", "warning", "skipped", "cancelled"}
Thread == [pc : {"idle", "opening", "check", "attempt", "executing", "finishing"},
           run : Runs \cup {None}, at : Steps, tries : 0..(MaxRetries + 1),
           done : SUBSET Steps, warned : BOOLEAN, outcome : Terminal \cup {None}]
IdleThread == [pc |-> "idle", run |-> None, at |-> 1, tries |-> 0, done |-> {}, warned |-> FALSE, outcome |-> None]

TypeOK ==
    /\ status \in [Runs -> ActiveStatuses \cup Terminal \cup {"absent"}]
    /\ cancel \in [Runs -> BOOLEAN]
    /\ origin \in [Runs -> Keys \cup Nat \cup {None}]
    /\ step \in [Runs -> [Steps -> StepStatuses]]
    /\ next \in Nat
    /\ pending \in [Runs -> Nat] /\ exec \in [Workers -> Thread] /\ requests \subseteq Runs
    /\ spc \in {"off", "idle", "start", "submit", "skip", "advance"}
    /\ slot \in Nat /\ after \in Nat
    /\ boot \in {"pending", "resuming", "done"} /\ open \in BOOLEAN
    /\ plan \in [Runs -> {"none", "cancel", "ambiguous", "submit"}]
    /\ now \in 0..MaxTime /\ crashes \in 0..MaxCrashes /\ faults \in 0..MaxFaults
    /\ interrupted \in [Runs -> SUBSET Steps] /\ late \in [Runs -> SUBSET Steps]
    /\ early \subseteq Runs /\ fired \subseteq Nat /\ retried \in BOOLEAN

Init ==
    /\ status = [r \in Runs |-> "absent"] /\ cancel = [r \in Runs |-> FALSE]
    /\ origin = [r \in Runs |-> None] /\ step = [r \in Runs |-> [i \in Steps |-> "pending"]]
    /\ next = 1
    /\ pending = [r \in Runs |-> 0] /\ exec = [w \in Workers |-> IdleThread] /\ requests = {}
    /\ spc = "off" /\ slot = 0 /\ after = 0
    /\ boot = "pending" /\ open = FALSE /\ plan = [r \in Runs |-> "none"]
    /\ now = 0 /\ crashes = 0 /\ faults = 0
    /\ interrupted = [r \in Runs |-> {}] /\ late = [r \in Runs |-> {}] /\ early = {} /\ fired = {} /\ retried = FALSE

-----------------------------------------------------------------------------
(* Rows. *)

Active(r) == status[r] \in ActiveStatuses
HasActiveRun == \E r \in Runs : Active(r)
Exists(key) == key # None /\ \E r \in Runs : status[r] # "absent" /\ origin[r] = key

\* Rows are created in order; the bound ends when there is no row left.
IsNewRow(r) == status[r] = "absent" /\ \A q \in Runs : q < r => status[q] # "absent"

CreateRun(r, key, s) ==
    /\ IsNewRow(r)
    /\ status' = [status EXCEPT ![r] = s]
    /\ origin' = [origin EXCEPT ![r] = key]
    /\ UNCHANGED <<cancel, step>>

Submit(r) == pending' = [pending EXCEPT ![r] = @ + 1]

-----------------------------------------------------------------------------
(* Operators. *)

\* A key that is known, or that another request inserts first, creates nothing.
RequestRun(r, key) ==
    /\ open /\ ~Exists(key)
    /\ CreateRun(r, key, "queued")
    /\ requests' = requests \cup {r}
    /\ UNCHANGED <<next, pending, exec, scheduler, startup, world, history>>

SubmitRequest(r) ==
    /\ r \in requests
    /\ requests' = requests \ {r}
    /\ Submit(r)
    /\ UNCHANGED <<rows, next, exec, scheduler, startup, world, history>>

\* The registry of operations cannot be written: the request fails with its row in the queue.
RequestFails(r) ==
    /\ r \in requests /\ faults < MaxFaults
    /\ requests' = requests \ {r} /\ faults' = faults + 1
    /\ UNCHANGED <<rows, next, pending, exec, scheduler, startup, now, crashes, history>>

RequestCancel(r) ==
    /\ open /\ Active(r)
    /\ cancel' = [cancel EXCEPT ![r] = TRUE]
    /\ status' = [status EXCEPT ![r] = IF @ = "queued" THEN "cancelled" ELSE "cancelling"]
    /\ early' = IF status[r] = "queued" THEN early \cup {r} ELSE early
    /\ UNCHANGED <<origin, step, next, pending, exec, requests, scheduler, startup, world, interrupted, late, fired, retried>>

-----------------------------------------------------------------------------
(* A thread of the pool: execute_run. *)

Rest == <<next, requests, scheduler, startup, world, interrupted, early, fired, retried>>

\* Threads are alike: the first idle one takes the next future.
FreeWorker(w) == exec[w].pc = "idle" /\ w = CHOOSE v \in Workers : exec[v].pc = "idle"

\* The first read: which steps a former process completed.
Take(w, r) ==
    /\ FreeWorker(w) /\ pending[r] > 0
    /\ pending' = [pending EXCEPT ![r] = @ - 1]
    /\ exec' = [exec EXCEPT ![w] = [IdleThread EXCEPT
                    !.pc = "opening", !.run = r, !.done = {i \in Steps : step[r][i] = "completed"}]]
    /\ UNCHANGED <<rows, late, Rest>>

\* The locals of the loop are dead once it is left.
Finishing(t, s) == [IdleThread EXCEPT !.pc = "finishing", !.run = t.run, !.outcome = s]

Remaining(t, i) == {j \in Steps : j >= i /\ j \notin t.done}

\* The thread goes on with the first step from i on that is not completed yet.
GoOn(t, i) ==
    IF Remaining(t, i) = {}
    THEN Finishing(t, IF t.warned THEN "completed_with_warnings" ELSE "completed")
    ELSE [t EXCEPT !.pc = "check", !.tries = 0,
                   !.at = CHOOSE j \in Remaining(t, i) : \A k \in Remaining(t, i) : j <= k]

\* The status is written without a condition, over 'cancelled' too.
Begin(w) ==
    /\ exec[w].pc = "opening"
    /\ status' = [status EXCEPT ![exec[w].run] = "running"]
    /\ exec' = [exec EXCEPT ![w] = GoOn(@, 1)]
    /\ UNCHANGED <<cancel, origin, step, pending, late, Rest>>

SetStep(w, s) == step' = [step EXCEPT ![exec[w].run] = [@ EXCEPT ![exec[w].at] = s]]

\* Mutant: only the status is looked at, which 'running' has overwritten.
CancelSeenInStatus(w) == status[exec[w].run] = "cancelling"

CancelSeen(w) == cancel[exec[w].run]

CheckCancelled(w) ==
    /\ exec[w].pc = "check" /\ CancelSeen(w)
    /\ SetStep(w, "cancelled")
    /\ exec' = [exec EXCEPT ![w] = Finishing(@, "cancelled")]
    /\ UNCHANGED <<status, cancel, origin, pending, late, Rest>>

\* The condition is about the output of earlier steps.
CheckPassed(w) ==
    /\ exec[w].pc = "check" /\ ~CancelSeen(w)
    /\ \/ /\ SetStep(w, "skipped")
          /\ exec' = [exec EXCEPT ![w] = GoOn(@, exec[w].at + 1)]
       \/ /\ exec' = [exec EXCEPT ![w].pc = "attempt"]
          /\ UNCHANGED step
    /\ UNCHANGED <<status, cancel, origin, pending, late, Rest>>

Attempt(w) ==
    LET r == exec[w].run IN
    /\ exec[w].pc = "attempt"
    /\ status' = [status EXCEPT ![r] = "running"]
    /\ SetStep(w, "running")
    /\ exec' = [exec EXCEPT ![w].pc = "executing", ![w].tries = @ + 1]
    /\ late' = IF cancel[r] THEN [late EXCEPT ![r] = @ \cup {exec[w].at}] ELSE late
    /\ UNCHANGED <<cancel, origin, pending, Rest>>

StepSucceeds(w) ==
    /\ exec[w].pc = "executing"
    /\ SetStep(w, "completed")
    /\ exec' = [exec EXCEPT ![w] = GoOn(@, exec[w].at + 1)]
    /\ UNCHANGED <<status, cancel, origin, pending, late, Rest>>

\* The handler raises, or it succeeded and the record of that raises: both are
\* caught in one place and the step is tried again.
StepRetried(w) ==
    /\ exec[w].pc = "executing" /\ exec[w].tries <= MaxRetries
    /\ exec' = [exec EXCEPT ![w].pc = "attempt"]
    /\ UNCHANGED <<rows, pending, late, Rest>>

StepFails(w) ==
    /\ exec[w].pc = "executing" /\ exec[w].tries > MaxRetries
    /\ IF exec[w].at \in Continue
       THEN /\ SetStep(w, "warning")
            /\ exec' = [exec EXCEPT ![w] = GoOn([@ EXCEPT !.warned = TRUE], exec[w].at + 1)]
       ELSE /\ SetStep(w, "failed")
            /\ exec' = [exec EXCEPT ![w] = Finishing(@, "failed")]
    /\ UNCHANGED <<status, cancel, origin, pending, late, Rest>>

\* The last attempt raised without a message: the step stays as it is and the run goes on.
StepRaisesEmpty(w) ==
    /\ exec[w].pc = "executing" /\ exec[w].tries > MaxRetries
    /\ exec' = [exec EXCEPT ![w] = GoOn(@, exec[w].at + 1)]
    /\ UNCHANGED <<rows, pending, late, Rest>>

\* The wait sees the flag of the run, or the child operation was cancelled.
StepCancelled(w) ==
    /\ exec[w].pc = "executing"
    /\ SetStep(w, "cancelled")
    /\ exec' = [exec EXCEPT ![w] = Finishing(@, "cancelled")]
    /\ UNCHANGED <<status, cancel, origin, pending, late, Rest>>

FinishRun(w) ==
    /\ exec[w].pc = "finishing"
    /\ status' = [status EXCEPT ![exec[w].run] = exec[w].outcome]
    /\ exec' = [exec EXCEPT ![w] = IdleThread]
    /\ UNCHANGED <<cancel, origin, step, pending, late, Rest>>

\* A write raises.  Before the loop nothing catches it; in the loop the run needs
\* attention; when that write raises too, the row stays as it is.
WriteRaises(w) ==
    /\ faults < MaxFaults /\ faults' = faults + 1
    /\ exec[w].pc # "idle"
    /\ exec' = [exec EXCEPT ![w] =
                   IF exec[w].pc = "opening" \/ exec[w].outcome = "needs_attention"
                   THEN IdleThread ELSE Finishing(@, "needs_attention")]
    /\ \/ UNCHANGED status
       \/ exec[w].pc = "finishing" /\ status' = [status EXCEPT ![exec[w].run] = exec[w].outcome]
    /\ UNCHANGED <<cancel, origin, step, next, pending, requests, scheduler, startup, now, crashes, history>>

-----------------------------------------------------------------------------
(* The scheduler thread: scheduler_tick for one enabled schedule whose cron
   points are the natural numbers. *)

Missed == next + MissedAfter < now

\* Mutant: only runs that a thread executes count.
OverlapQueueIgnored == \E r \in Runs : status[r] = "running"

Overlap == HasActiveRun

SchedulerDue ==
    /\ spc = "idle" /\ next <= now
    /\ slot' = next /\ after' = now + 1
    /\ spc' \in IF Missed \/ Overlap THEN {"skip"} ELSE {"start", "skip"}
    /\ UNCHANGED <<rows, next, pending, exec, requests, startup, world, history>>

ScheduledStart ==
    /\ spc = "start"
    /\ IF Exists(slot)
       THEN spc' = "advance" /\ UNCHANGED rows
       ELSE \E r \in Runs : CreateRun(r, slot, "queued") /\ spc' = "submit"
    /\ UNCHANGED <<next, pending, exec, requests, slot, after, startup, world, history>>

ScheduledSubmit ==
    /\ spc = "submit"
    /\ \E r \in Runs : origin[r] = slot /\ Submit(r)
    /\ spc' = "advance"
    /\ UNCHANGED <<rows, next, exec, requests, slot, after, startup, world, history>>

ScheduledSkip ==
    /\ spc = "skip"
    /\ IF Exists(slot) THEN UNCHANGED rows ELSE \E r \in Runs : CreateRun(r, slot, "skipped")
    /\ spc' = "advance"
    /\ UNCHANGED <<next, pending, exec, requests, slot, after, startup, world, history>>

Advance ==
    /\ spc = "advance"
    /\ next' = after /\ fired' = fired \cup {slot}
    /\ spc' = "idle" /\ slot' = 0 /\ after' = 0
    /\ UNCHANGED <<rows, pending, exec, requests, startup, world, interrupted, late, early, retried>>

\* The loop goes on after an exception; the schedule is still due.
SchedulerRaises ==
    /\ spc \in {"start", "submit", "skip", "advance"} /\ faults < MaxFaults
    /\ faults' = faults + 1
    /\ spc' = "idle" /\ slot' = 0 /\ after' = 0
    /\ UNCHANGED <<rows, next, pending, exec, requests, startup, now, crashes, history>>

-----------------------------------------------------------------------------
(* Crash, and the startup step that resumes. *)

Crash ==
    /\ crashes < MaxCrashes /\ crashes' = crashes + 1
    /\ pending' = [r \in Runs |-> 0] /\ exec' = [w \in Workers |-> IdleThread] /\ requests' = {}
    /\ spc' = "off" /\ slot' = 0 /\ after' = 0
    /\ boot' = "pending" /\ open' = FALSE /\ plan' = [r \in Runs |-> "none"]
    /\ interrupted' = [r \in Runs |-> interrupted[r] \cup
                          {i \in Steps : Active(r) /\ step[r][i] = "running"}]
    /\ UNCHANGED <<rows, next, now, faults, late, early, fired, retried>>

\* Mutant: a run that was cut off is executed again.
DecisionSubmit(r) == IF cancel[r] THEN "cancel" ELSE "submit"

Decision(r) ==
    IF cancel[r] THEN "cancel"
    ELSE IF \E i \in Steps : step[r][i] = "running" THEN "ambiguous"
    ELSE "submit"

\* Mutant: runs that still waited for a thread are forgotten.
BeginResumeStarted ==
    /\ boot = "pending"
    /\ boot' = "resuming"
    /\ plan' = [r \in Runs |-> IF status[r] = "running" THEN Decision(r) ELSE "none"]
    /\ UNCHANGED <<rows, next, pending, exec, requests, scheduler, open, world, history>>

BeginResume ==
    /\ boot = "pending"
    /\ boot' = "resuming"
    /\ plan' = [r \in Runs |-> IF Active(r) THEN Decision(r) ELSE "none"]
    /\ UNCHANGED <<rows, next, pending, exec, requests, scheduler, open, world, history>>

ResumeRun(r) ==
    /\ boot = "resuming" /\ plan[r] # "none"
    /\ \A q \in Runs : q < r => plan[q] = "none"
    /\ plan' = [plan EXCEPT ![r] = "none"]
    /\ IF plan[r] = "submit"
       THEN Submit(r) /\ UNCHANGED status
       ELSE /\ status' = [status EXCEPT ![r] = IF plan[r] = "cancel" THEN "cancelled" ELSE "needs_attention"]
            /\ UNCHANGED pending
    /\ UNCHANGED <<cancel, origin, step, next, exec, requests, scheduler, boot, open, world, history>>

\* Mutant: the step is not recorded as done, so the next check repeats it.
FinishResumeUnrecorded ==
    /\ boot = "resuming" /\ \A r \in Runs : plan[r] = "none"
    /\ boot' = "pending" /\ open' = TRUE
    /\ UNCHANGED <<rows, next, pending, exec, requests, scheduler, plan, world, history>>

\* The scheduler is the last startup step; requests are served after the first check.
FinishResume ==
    /\ boot = "resuming" /\ \A r \in Runs : plan[r] = "none"
    /\ boot' = "done" /\ open' = TRUE /\ spc' = "idle"
    /\ UNCHANGED <<rows, next, pending, exec, requests, slot, after, plan, world, history>>

\* The check ends without this step; it is repeated while the process serves requests.
ResumeRaises ==
    /\ LateResume /\ boot # "done" /\ faults < MaxFaults
    /\ faults' = faults + 1
    /\ boot' = "pending" /\ open' = TRUE /\ plan' = [r \in Runs |-> "none"] /\ retried' = TRUE
    /\ UNCHANGED <<rows, next, pending, exec, requests, scheduler, now, crashes, interrupted, late, early, fired>>

Tick ==
    /\ now < MaxTime /\ now' = now + 1
    /\ UNCHANGED <<rows, next, pending, exec, requests, scheduler, startup, crashes, faults, history>>

\* Nothing is left to do until somebody asks for something.
Quiet ==
    /\ boot = "done" /\ requests = {}
    /\ \A w \in Workers : exec[w].pc = "idle"
    /\ \A r \in Runs : pending[r] = 0
    /\ UNCHANGED vars

-----------------------------------------------------------------------------
Operator ==
    \E r \in Runs : \/ \E key \in Keys \cup {None} : RequestRun(r, key)
                    \/ RequestCancel(r)
Request == \E r \in Runs : SubmitRequest(r) \/ RequestFails(r)
Worker(w) ==
    \/ \E r \in Runs : Take(w, r)
    \/ Begin(w) \/ CheckCancelled(w) \/ CheckPassed(w) \/ Attempt(w)
    \/ StepSucceeds(w) \/ StepRetried(w) \/ StepFails(w) \/ StepRaisesEmpty(w) \/ StepCancelled(w)
    \/ FinishRun(w) \/ WriteRaises(w)
Scheduler == SchedulerDue \/ ScheduledStart \/ ScheduledSubmit \/ ScheduledSkip \/ Advance \/ SchedulerRaises
Resume == BeginResume \/ FinishResume \/ \E r \in Runs : ResumeRun(r)

Next ==
    \/ Operator \/ Request \/ Scheduler \/ Resume
    \/ \E w \in Workers : Worker(w)
    \/ ResumeRaises \/ Crash \/ Tick \/ Quiet

Spec == Init /\ [][Next]_vars

\* Threads run, a step ends by its own timeout, and startup is retried.
Fairness ==
    /\ WF_vars(Request) /\ WF_vars(Resume) /\ WF_vars(Scheduler)
    /\ \A w \in Workers : WF_vars(Worker(w))

FairSpec == Spec /\ Fairness

-----------------------------------------------------------------------------
(* Properties. *)

Places(r) == pending[r] + Cardinality({w \in Workers : exec[w].run = r})

\* A run has one execution: execute_run is never submitted for a run that waits or
\* is being executed.
OneExecutionPerRun == \A r \in Runs : Places(r) <= 1

\* A step that was running when a process died is never executed again: its outcome
\* in MP VM is not known.
AmbiguousNotRepeated ==
    \A w \in Workers : exec[w].pc = "executing" => exec[w].at \notin interrupted[exec[w].run]

\* What a step of the system may do to a step of a run that is completed, unless the
\* startup step that resumes was repeated and gave the run a second thread.
CompletedStepsStay ==
    ~retried => \A r \in Runs, i \in Steps : step[r][i] = "completed" => step'[r][i] = "completed"

\* No step is repeated that is known to be done (a completed one stays completed, over
\* retries and restarts) or may be done.
StepsNotRepeated == [][AmbiguousNotRepeated' /\ CompletedStepsStay]_vars

\* After an acknowledged cancellation at most the step whose check came first still
\* begins, and none in a run that was cancelled in the queue;
\* unless the startup step that resumes was repeated.
CancelStopsRun ==
    ~retried => \A r \in Runs : Cardinality(late[r]) <= IF r \in early THEN 0 ELSE 1

\* Every cron point the schedule has passed has exactly one row, started or skipped,
\* over crashes between the start and the advance of the schedule.
FiredPointsRecorded ==
    \A t \in fired : Cardinality({r \in Runs : origin[r] = t}) = 1

\* Every row of a schedule is there once and is executed once.
EveryRunOnce == OneExecutionPerRun /\ FiredPointsRecorded

\* 'The scheduler does not run one runbook in parallel': no two scheduled runs
\* execute a step at the same time.
ScheduledRunsNeverOverlap ==
    \A v, w \in Workers :
        /\ v # w /\ exec[v].pc = "executing" /\ exec[w].pc = "executing"
        /\ origin[exec[v].run] \in Nat /\ origin[exec[w].run] \in Nat
        => exec[v].run = exec[w].run

\* An active run ends, over a restart, unless a write was lost.
RunEnds == \A r \in Runs : (Active(r) /\ faults = 0) ~> (~Active(r) \/ faults > 0)
=============================================================================

-------------------------- MODULE DatabaseRecovery --------------------------
(***************************************************************************)
(* DatabaseRecovery: the startup steps that need the database, run once in *)
(* order under a process-wide lock by whichever thread checks first: the   *)
(* startup itself, the monitor thread or a readiness request.              *)
(*                                                                         *)
(* One lifecycle of the process is modelled, from startup to shutdown.     *)
(* The database comes and goes; a step is the work of one entry of         *)
(* database_startup_steps, and the last one starts the scheduler.          *)
(***************************************************************************)
EXTENDS Naturals, FiniteSets

CONSTANTS
    StepCount,    \* the number of startup steps
    Requests,     \* threads that serve readiness and status requests
    NoThread,
    MaxOutages    \* bound on the number of times the database goes away

ASSUME StepCountPositive == StepCount \in Nat \ {0}
ASSUME RequestsFinite == IsFiniteSet(Requests)
ASSUME ThreadsDistinct ==
    /\ NoThread \notin Requests \cup {"startup", "monitor"}
    /\ "startup" \notin Requests /\ "monitor" \notin Requests
ASSUME MaxOutagesNat == MaxOutages \in Nat

Steps == 1..StepCount
Scheduler == StepCount
Threads == Requests \cup {"startup", "monitor"}

VARIABLES
    stage,       \* lifecycle of the process
    monitoring,  \* the monitor thread exists and _stop is not set
    lock,        \* the holder of _lock
    completed,   \* _completed
    last,        \* _last: "none", "ready" or "not_ready"
    pc,          \* where each thread is inside check()
    working,     \* the step it is working on
    answer,      \* what its last check() returned
    connected, outages, schemaCurrent,   \* PostgreSQL
    scheduler,   \* the scheduler loop is running
    done,        \* history: how often each step was done
    missed       \* history: the steps to do when the join gave up on a check

database == <<connected, outages, schemaCurrent>>
vars == <<stage, monitoring, lock, completed, last, pc, working, answer, database, scheduler,
          done, missed>>

Stages == {"startup", "serving", "monitor_stopping", "monitor_stopped", "scheduler_stopped", "down"}

TypeOK ==
    /\ stage \in Stages
    /\ monitoring \in BOOLEAN
    /\ lock \in Threads \cup {NoThread}
    /\ completed \subseteq Steps
    /\ last \in {"none", "ready", "not_ready"}
    /\ pc \in [Threads -> {"idle", "probing", "stepping", "running", "finishing"}]
    /\ working \in [Threads -> Steps]
    /\ answer \in [Threads -> {"none", "ready", "not_ready"}]
    /\ connected \in BOOLEAN /\ schemaCurrent \in BOOLEAN /\ outages \in 0..MaxOutages
    /\ scheduler \in BOOLEAN
    /\ done \in [Steps -> Nat]
    /\ missed \subseteq Steps

Init ==
    /\ stage = "startup" /\ monitoring = FALSE
    /\ lock = NoThread /\ completed = {} /\ last = "none"
    /\ pc = [t \in Threads |-> "idle"]
    /\ working = [t \in Threads |-> 1]
    /\ answer = [t \in Threads |-> "none"]
    /\ connected \in BOOLEAN /\ schemaCurrent \in BOOLEAN /\ outages = 0
    /\ scheduler = FALSE
    /\ done = [s \in Steps |-> 0] /\ missed = {}

-----------------------------------------------------------------------------
(* check() *)

\* Who calls check(): the startup once, then the monitor every few seconds and
\* any request.
MayCheck(t) ==
    \/ t = "startup" /\ stage = "startup" /\ answer["startup"] = "none"
    \/ t = "monitor" /\ monitoring
    \/ t \in Requests /\ stage = "serving"

\* Mutant: the lock is not taken.
AcquireUnlocked(t) ==
    /\ pc[t] = "idle" /\ MayCheck(t)
    /\ lock' = t
    /\ pc' = [pc EXCEPT ![t] = "probing"]
    /\ UNCHANGED <<stage, monitoring, completed, last, answer, database, scheduler, working, done, missed>>

Acquire(t) ==
    /\ pc[t] = "idle" /\ MayCheck(t)
    /\ lock = NoThread
    /\ lock' = t
    /\ pc' = [pc EXCEPT ![t] = "probing"]
    /\ UNCHANGED <<stage, monitoring, completed, last, answer, database, scheduler, working, done, missed>>

\* Another check is running: the last finished result, or recovery_in_progress.
AnswerBusy(t) ==
    /\ pc[t] = "idle" /\ MayCheck(t)
    /\ lock # NoThread
    /\ answer' = [answer EXCEPT ![t] = IF last = "none" THEN "not_ready" ELSE last]
    /\ UNCHANGED <<stage, monitoring, lock, completed, last, pc, database, scheduler, working, done, missed>>

Return(t, result) ==
    /\ last' = result
    /\ answer' = [answer EXCEPT ![t] = result]
    /\ lock' = NoThread
    /\ pc' = [pc EXCEPT ![t] = "idle"]

\* The first probe only needs a connection.
Probe(t) ==
    /\ pc[t] = "probing"
    /\ IF connected THEN pc' = [pc EXCEPT ![t] = "stepping"] /\ UNCHANGED <<lock, last, answer>>
       ELSE Return(t, "not_ready")
    /\ UNCHANGED <<stage, monitoring, completed, database, scheduler, working, done, missed>>

\* The first step, in order, that is not a checkpoint yet.
Pending == Steps \ completed
IsNext(s) == s \in Pending /\ \A u \in Pending : s <= u

BeginStep(t) ==
    /\ pc[t] = "stepping"
    /\ \E s \in Steps : IsNext(s) /\ working' = [working EXCEPT ![t] = s]
    /\ pc' = [pc EXCEPT ![t] = "running"]
    /\ UNCHANGED <<stage, monitoring, lock, completed, last, answer, database, scheduler, done, missed>>

\* Step 1 is the migration.  The runner accepts work again after its shutdown, so
\* the scheduler can be started at any time.
RunStep(t) ==
    LET s == working[t]
    IN  /\ pc[t] = "running" /\ connected
        /\ completed' = completed \cup {s}
        /\ done' = [done EXCEPT ![s] = @ + 1]
        /\ scheduler' = (scheduler \/ s = Scheduler)
        /\ schemaCurrent' = (schemaCurrent \/ s = 1)
        /\ pc' = [pc EXCEPT ![t] = "stepping"]
        /\ UNCHANGED <<stage, monitoring, lock, last, working, answer, connected, outages, missed>>

\* A step raises: the check ends, the steps before it stay checkpoints.
StepFails(t) ==
    /\ pc[t] = "running"
    /\ Return(t, "not_ready")
    /\ UNCHANGED <<stage, monitoring, completed, working, database, scheduler, done, missed>>

StepsDone(t) ==
    /\ pc[t] = "stepping" /\ Pending = {}
    /\ pc' = [pc EXCEPT ![t] = "finishing"]
    /\ UNCHANGED <<stage, monitoring, lock, completed, last, answer, database, scheduler,
                   working, done, missed>>

\* The second probe decides: connected, and at the current schema.
FinalProbe(t) ==
    /\ pc[t] = "finishing"
    /\ Return(t, IF connected /\ schemaCurrent THEN "ready" ELSE "not_ready")
    /\ UNCHANGED <<stage, monitoring, completed, database, scheduler, working, done, missed>>

-----------------------------------------------------------------------------
(* Lifecycle and database. *)

\* Mutant: no monitor after a failed startup check.
ServeUnmonitored ==
    /\ stage = "startup" /\ answer["startup"] # "none" /\ pc["startup"] = "idle"
    /\ stage' = "serving" /\ monitoring' = (answer["startup"] = "ready")
    /\ UNCHANGED <<lock, completed, last, pc, working, answer, database, scheduler, done, missed>>

\* startup() goes on after its check, whatever the result, and starts the monitor.
Serve ==
    /\ stage = "startup" /\ answer["startup"] # "none" /\ pc["startup"] = "idle"
    /\ stage' = "serving" /\ monitoring' = TRUE
    /\ UNCHANGED <<lock, completed, last, pc, answer, database, scheduler, working, done, missed>>

\* Mutant: the monitor is not told to stop.
BeginShutdownUntold ==
    /\ stage = "serving" /\ \A t \in Requests : pc[t] = "idle"
    /\ stage' = "monitor_stopping"
    /\ UNCHANGED <<monitoring, lock, completed, last, pc, working, answer, database, scheduler,
                   done, missed>>

\* shutdown(): no request is being served any more.
BeginShutdown ==
    /\ stage = "serving" /\ \A t \in Requests : pc[t] = "idle"
    /\ stage' = "monitor_stopping" /\ monitoring' = FALSE
    /\ UNCHANGED <<lock, completed, last, pc, answer, database, scheduler, working, done, missed>>

\* join(timeout=15): the monitor has ended, or it is in a check that takes longer.
MonitorJoined ==
    /\ stage = "monitor_stopping"
    /\ stage' = "monitor_stopped"
    /\ missed' = IF pc["monitor"] = "idle" THEN {} ELSE Pending
    /\ UNCHANGED <<monitoring, lock, completed, last, pc, answer, database, scheduler, working, done>>

StopScheduler ==
    /\ stage = "monitor_stopped"
    /\ stage' = "scheduler_stopped" /\ scheduler' = FALSE
    /\ UNCHANGED <<monitoring, lock, completed, last, pc, answer, database, working, done, missed>>

\* stop() is called once more; its second join changes nothing that is modelled.
ShutdownRunner ==
    /\ stage = "scheduler_stopped"
    /\ stage' = "down"
    /\ UNCHANGED <<monitoring, lock, completed, last, pc, answer, database, scheduler, working, done, missed>>

Outage ==
    /\ connected /\ outages < MaxOutages
    /\ connected' = FALSE /\ outages' = outages + 1
    /\ UNCHANGED <<stage, monitoring, lock, completed, last, pc, answer, schemaCurrent, scheduler,
                   working, done, missed>>

DatabaseBack ==
    /\ ~connected
    /\ connected' = TRUE
    /\ UNCHANGED <<stage, monitoring, lock, completed, last, pc, answer, outages, schemaCurrent,
                   scheduler, working, done, missed>>

Down == stage = "down" /\ UNCHANGED vars

-----------------------------------------------------------------------------
Check(t) ==
    \/ Acquire(t) \/ AnswerBusy(t) \/ Probe(t)
    \/ BeginStep(t) \/ RunStep(t) \/ StepFails(t) \/ StepsDone(t) \/ FinalProbe(t)

Next ==
    \/ \E t \in Threads : Check(t)
    \/ Serve \/ BeginShutdown \/ MonitorJoined \/ StopScheduler \/ ShutdownRunner
    \/ Outage \/ DatabaseBack \/ Down

Spec == Init /\ [][Next]_vars

\* A check that has begun goes on, the startup and the monitor begin theirs, the
\* monitor gets its turn among the requests, the database comes back, and a step
\* that is tried again and again succeeds in the end.  Nobody has to ask.
Fairness ==
    /\ \A t \in Threads : WF_vars(pc[t] # "idle" /\ Check(t))
    /\ SF_vars(\E t \in Threads : RunStep(t))
    /\ WF_vars(Acquire("startup")) /\ SF_vars(Acquire("monitor"))
    /\ WF_vars(Serve) /\ WF_vars(DatabaseBack)

FairSpec == Spec /\ Fairness

-----------------------------------------------------------------------------
(* Properties. *)

\* Each step is done at most once in a lifecycle and only after all the steps
\* before it, however checks, outages and failures interleave.
StepsOnceInOrder ==
    \A s \in Steps : done[s] <= 1 /\ (done[s] = 1 => \A u \in 1..s : done[u] = 1)

\* No check reports the process ready before every step was done.
ReadyMeansRecovered ==
    \A t \in Threads : answer[t] = "ready" => \A s \in Steps : done[s] = 1

\* The startup does each step once and in order, and reports nothing that is not done.
StartupIsSound == StepsOnceInOrder /\ ReadyMeansRecovered

\* A checkpointed step was really done: a failure inside it is not a success.
CheckpointMeansDone == \A s \in completed : done[s] = 1

\* Shutdown stops the monitor before the scheduler, although the join of the monitor may
\* time out: the scheduler runs after its stop only if the join gave up on a check that
\* still had to start it.  One that ran before the shutdown stays stopped.
SchedulerStaysStopped ==
    stage \in {"scheduler_stopped", "down"} /\ scheduler => Scheduler \in missed

\* A process that stays up gets recovered, without any request asking for it.
EventuallyRecovered == <>(completed = Steps \/ stage \notin {"startup", "serving"})
=============================================================================

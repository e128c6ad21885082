---------------------------- MODULE ScannerTasks ----------------------------
(***************************************************************************)
(* One scanner task, kept twice: as a row of this program (scan_tasks) and *)
(* as a task of MP VM.  Requests launch it (with a connection precheck in  *)
(* a task of its own), edit it, retry the unreachable targets of a         *)
(* precheck and delete it; a finished scan sweeps the precheck tasks.      *)
(* Every step is one database transaction or one call of MP VM, so the     *)
(* two copies differ in between (services/scanner_task_launch.py).         *)
(***************************************************************************)
EXTENDS FiniteSets, Naturals

CONSTANTS
    Targets,        \* hosts the task may include
    Starts,         \* launch requests
    Retries,        \* retry-false requests
    Saves,          \* edits of the task
    Deletes,        \* deletions of the task
    Sweeps,         \* completed scans that clean up the precheck tasks
    Keys, KeyOf,    \* idempotency key of each launch and deletion
    Mode,           \* deletion mode of each deletion
    None, Failed,
    MaxCrashes      \* bound on restarts of the process

Creators == Starts \cup Retries
Requests == Starts \cup Retries \cup Saves \cup Deletes \cup Sweeps
Keyed == Starts \cup Deletes

ASSUME TasksAssumption ==
    /\ IsFiniteSet(Requests)
    /\ KeyOf \in [Keyed -> Keys]
    /\ Mode \in [Deletes -> {"auto", "local_only", "delete_v3"}]
    /\ Starts \cap (Retries \cup Saves \cup Deletes \cup Sweeps) = {}
    /\ Deletes \cap (Retries \cup Saves \cup Sweeps) = {}
    /\ Retries \cap (Saves \cup Sweeps) = {} /\ Saves \cap Sweeps = {}
    /\ None \notin Keyed /\ Failed \notin Keyed /\ None # Failed
    /\ MaxCrashes \in Nat

VARIABLES
    local,      \* the scan_tasks row of the audit task
    remote,     \* the audit task in MP VM
    pre,        \* the precheck task of each creator: in MP VM, its row, its misses
    claim,      \* the operation row that holds each key
    runs,       \* launches whose post-processing run row exists
    scans,      \* launches whose scan MP VM accepted
    pc, cfg,    \* step and payload in hand of every request
    todo,       \* precheck tasks a cleanup still has to visit
    reply,      \* answer of every keyed request
    crashes

vars == <<local, remote, pre, claim, runs, scans, pc, cfg, todo, reply, crashes>>
taskVars == <<local, remote>>
keyVars == <<claim, runs, scans, reply>>

Goto(r, l) == pc' = [pc EXCEPT ![r] = l]
Answer(r, a) == Goto(r, "answered") /\ reply' = [reply EXCEPT ![r] = a]
Refuse(r) ==
    /\ Goto(r, "answered")
    /\ reply' = IF r \in Keyed THEN [reply EXCEPT ![r] = Failed] ELSE reply

Init ==
    /\ local = [row |-> TRUE, targets |-> Targets]
    /\ remote = [exists |-> TRUE, targets |-> Targets]
    /\ pre = [p \in Creators |-> [remote |-> FALSE, row |-> "none", missed |-> {}]]
    /\ claim = [k \in Keys |-> None]
    /\ runs = {} /\ scans = {}
    /\ pc = [r \in Requests |-> "idle"]
    /\ cfg = [r \in Requests |-> {}]
    /\ todo = [r \in Requests |-> {}]
    /\ reply = [r \in Keyed |-> None]
    /\ crashes = 0

-----------------------------------------------------------------------------
(* A key that already belongs to a launch replays that launch; a deletion  *)
(* with a launch's key is refused, a launch with a deletion's key goes on  *)
(* and fails at the insertion.                                             *)
HolderIn(r, kinds) == claim[KeyOf[r]] \in kinds

ReplayLaunch(r) ==
    /\ pc[r] = "idle" /\ HolderIn(r, Starts)
    /\ Answer(r, claim[KeyOf[r]])
    /\ UNCHANGED <<taskVars, pre, claim, runs, scans, cfg, todo, crashes>>

(* The saved row is authoritative: read it, write it to MP VM, record it.  *)
BeginLaunch(r) ==
    /\ pc[r] = "idle" /\ ~HolderIn(r, Starts)
    /\ IF local.row
         THEN Goto(r, "sync_remote") /\ cfg' = [cfg EXCEPT ![r] = local.targets] /\ UNCHANGED reply
         ELSE Refuse(r) /\ UNCHANGED cfg
    /\ UNCHANGED <<taskVars, pre, claim, runs, scans, todo, crashes>>

(* PUT of the payload in hand; an answer that is an error ends the request.*)
WriteRemote(r, at, next) ==
    /\ pc[r] = at
    /\ \/ /\ remote.exists
          /\ remote' = [remote EXCEPT !.targets = cfg[r]]
          /\ Goto(r, next) /\ UNCHANGED reply
       \/ Refuse(r) /\ UNCHANGED remote
    /\ UNCHANGED <<local, pre, claim, runs, scans, cfg, todo, crashes>>

(* record_scan_task inserts the row again when a deletion removed it.      *)
RecordTask(r, at, next) ==
    /\ pc[r] = at
    /\ local' = [row |-> TRUE, targets |-> cfg[r]]
    /\ Goto(r, next)
    /\ UNCHANGED <<remote, pre, keyVars, cfg, todo, crashes>>

Validate(r) ==
    /\ pc[r] = "validate"
    /\ \/ remote.exists /\ Goto(r, "precheck") /\ UNCHANGED reply
       \/ Refuse(r)
    /\ UNCHANGED <<taskVars, pre, claim, runs, scans, cfg, todo, crashes>>

-----------------------------------------------------------------------------
(* The connection precheck runs in a task of its own.  Nothing reads the   *)
(* new task before its row exists, so reading the row and creating the     *)
(* task is one step.                                                       *)
CreateTask(r, targets) ==
    \/ /\ pre' = [pre EXCEPT ![r].remote = TRUE]
       /\ cfg' = [cfg EXCEPT ![r] = targets]
       /\ Goto(r, "record") /\ UNCHANGED reply
    \/ Refuse(r) /\ UNCHANGED <<pre, cfg>>

(* Mutant: the scan is started before its run is recorded.                 *)
SkipPrecheckUnrecorded(r) ==
    /\ pc[r] = "precheck"
    /\ Goto(r, "start")
    /\ UNCHANGED <<taskVars, pre, keyVars, cfg, todo, crashes>>

CreatePrecheck(r) ==
    /\ pc[r] = "precheck"
    /\ IF local.row THEN CreateTask(r, local.targets)
                    ELSE Refuse(r) /\ UNCHANGED <<pre, cfg>>
    /\ UNCHANGED <<taskVars, claim, runs, scans, todo, crashes>>

SkipPrecheck(r) ==
    /\ pc[r] = "precheck"
    /\ Goto(r, "accept")
    /\ UNCHANGED <<taskVars, pre, keyVars, cfg, todo, crashes>>

(* A retry scans the misses of an earlier precheck, hidden or not.         *)
BeginRetry(r) ==
    /\ pc[r] = "idle"
    /\ \E p \in Creators :
         /\ pre[p].row \in {"live", "hidden"} /\ pre[p].missed # {}
         /\ CreateTask(r, pre[p].missed)
    /\ UNCHANGED <<taskVars, claim, runs, scans, todo, crashes>>

RecordPrecheck(r) ==
    /\ pc[r] = "record"
    /\ \/ pre' = [pre EXCEPT ![r].row = "live"] /\ Goto(r, "checking") /\ UNCHANGED reply
       \/ /\ Goto(r, "unrecorded") /\ UNCHANGED pre
          /\ reply' = IF r \in Keyed THEN [reply EXCEPT ![r] = Failed] ELSE reply
    /\ UNCHANGED <<taskVars, claim, runs, scans, cfg, todo, crashes>>

(* The wait polls until the check finishes, is stopped or times out, and   *)
(* keeps the targets that answered so far.                                 *)
Reachable(r) == SUBSET cfg[r]

(* Validation, start and wait.  The task may be gone meanwhile, which is   *)
(* an error of the calls.                                                  *)
PrecheckEnds(r) ==
    /\ pc[r] = "checking"
    /\ \/ /\ pre[r].remote
          /\ \E reached \in Reachable(r) :
               /\ pre' = [pre EXCEPT ![r].missed = IF @ = {} THEN cfg[r] \ reached ELSE @]
               /\ IF reached # {} /\ r \in Starts
                    THEN Goto(r, "narrow_remote") /\ cfg' = [cfg EXCEPT ![r] = reached] /\ UNCHANGED reply
                    ELSE Refuse(r) /\ UNCHANGED cfg
       \/ Refuse(r) /\ UNCHANGED <<pre, cfg>>
    /\ UNCHANGED <<taskVars, claim, runs, scans, todo, crashes>>

-----------------------------------------------------------------------------
(* Mutant: no unique key on the operation.                                 *)
AcceptUnkeyed(r) ==
    /\ pc[r] = "accept"
    /\ claim' = [claim EXCEPT ![KeyOf[r]] = r]
    /\ runs' = runs \cup {r}
    /\ Goto(r, "start")
    /\ UNCHANGED <<taskVars, pre, scans, cfg, todo, reply, crashes>>

(* The run and the operation that holds the key are one transaction, made  *)
(* before the scan is started; the unique key refuses a second one.        *)
Accept(r) ==
    /\ pc[r] = "accept"
    /\ IF claim[KeyOf[r]] = None
         THEN /\ claim' = [claim EXCEPT ![KeyOf[r]] = r]
              /\ runs' = runs \cup {r}
              /\ Goto(r, "start") /\ UNCHANGED reply
         ELSE Refuse(r) /\ UNCHANGED <<claim, runs>>
    /\ UNCHANGED <<taskVars, pre, scans, cfg, todo, crashes>>

(* The retry repeats only an answer "task not found"; a lost answer of an  *)
(* accepted start is a failure.                                            *)
StartScan(r) ==
    /\ pc[r] = "start"
    /\ \/ /\ remote.exists
          /\ scans' = scans \cup {r}
          /\ \E l \in {"started", "start_failed"} : Goto(r, l)
       \/ Goto(r, "start_failed") /\ UNCHANGED scans
    /\ UNCHANGED <<taskVars, pre, claim, runs, cfg, todo, reply, crashes>>

FinishLaunch(r) ==
    /\ \/ pc[r] = "started" /\ Answer(r, claim[KeyOf[r]])
       \/ pc[r] = "start_failed" /\ Refuse(r)
    /\ UNCHANGED <<taskVars, pre, claim, runs, scans, cfg, todo, crashes>>

-----------------------------------------------------------------------------
(* A payload names at least one target.                                    *)
Payloads == (SUBSET Targets) \ {{}}

(* An edit writes MP VM first and the row afterwards.                      *)
BeginSave(r) ==
    /\ pc[r] = "idle"
    /\ \E targets \in Payloads : cfg' = [cfg EXCEPT ![r] = targets]
    /\ Goto(r, "save_remote")
    /\ UNCHANGED <<taskVars, pre, keyVars, todo, crashes>>

-----------------------------------------------------------------------------
(* Deletion: look for the key, register the operation, delete.             *)
BeginDelete(r) ==
    /\ pc[r] = "idle"
    /\ IF HolderIn(r, {None}) THEN Goto(r, "register") /\ UNCHANGED reply
       ELSE IF HolderIn(r, Deletes) THEN Answer(r, claim[KeyOf[r]])
       ELSE Refuse(r)
    /\ UNCHANGED <<taskVars, pre, claim, runs, scans, cfg, todo, crashes>>

RegisterDelete(r) ==
    /\ pc[r] = "register"
    /\ IF claim[KeyOf[r]] = None
         THEN /\ claim' = [claim EXCEPT ![KeyOf[r]] = r]
              /\ Goto(r, IF Mode[r] = "local_only" THEN "drop_children" ELSE "delete_remote")
              /\ UNCHANGED reply
         ELSE Refuse(r) /\ UNCHANGED claim
    /\ UNCHANGED <<taskVars, pre, runs, scans, cfg, todo, crashes>>

(* "auto" pages through the remote tasks by offset and may miss one that   *)
(* moves to an earlier page meanwhile: then nothing is deleted remotely.   *)
MayMiss(r) == Mode[r] = "auto"

DeleteRemote(r) ==
    /\ pc[r] = "delete_remote"
    /\ \/ /\ remote' = [remote EXCEPT !.exists = FALSE]
          /\ Goto(r, "list") /\ UNCHANGED reply
       \/ /\ MayMiss(r)
          /\ Goto(r, "list") /\ UNCHANGED <<remote, reply>>
       \/ Refuse(r) /\ UNCHANGED remote
    /\ UNCHANGED <<local, pre, claim, runs, scans, cfg, todo, crashes>>

(* The sweep of a completed scan and a deletion visit the live rows one by *)
(* one; a task that MP VM does not delete is skipped.                      *)
ListChildren(r) ==
    /\ \/ pc[r] = "list"
       \/ pc[r] = "idle" /\ r \in Sweeps /\ scans # {}
    /\ todo' = [todo EXCEPT ![r] = {p \in Creators : pre[p].row = "live"}]
    /\ Goto(r, "clean")
    /\ UNCHANGED <<taskVars, pre, keyVars, cfg, crashes>>

NextChild(r) == CHOOSE p \in todo[r] : TRUE

(* Mutant: a failed removal is treated like a successful one.              *)
CleanRemoteUnchecked(r) ==
    /\ pc[r] = "clean" /\ todo[r] # {}
    /\ \E gone \in BOOLEAN : pre' = [pre EXCEPT ![NextChild(r)].remote = @ /\ ~gone]
    /\ Goto(r, "clean_row")
    /\ UNCHANGED <<taskVars, keyVars, cfg, todo, crashes>>

CleanRemote(r) ==
    /\ pc[r] = "clean" /\ todo[r] # {}
    /\ \/ /\ pre' = [pre EXCEPT ![NextChild(r)].remote = FALSE]
          /\ Goto(r, "clean_row") /\ UNCHANGED todo
       \/ /\ todo' = [todo EXCEPT ![r] = @ \ {NextChild(r)}]
          /\ UNCHANGED <<pre, pc>>
    /\ UNCHANGED <<taskVars, keyVars, cfg, crashes>>

(* A sweep hides the row, whose misses a retry still reads; a deletion     *)
(* removes it.                                                             *)
CleanRow(r) ==
    /\ pc[r] = "clean_row"
    /\ pre' = [pre EXCEPT ![NextChild(r)].row =
                   IF r \in Deletes THEN "dropped" ELSE IF @ = "live" THEN "hidden" ELSE @]
    /\ todo' = [todo EXCEPT ![r] = @ \ {NextChild(r)}]
    /\ Goto(r, "clean")
    /\ UNCHANGED <<taskVars, keyVars, cfg, crashes>>

Cleaned(r) ==
    /\ pc[r] = "clean" /\ todo[r] = {}
    /\ Goto(r, IF r \in Deletes THEN "drop_children" ELSE "answered")
    /\ UNCHANGED <<taskVars, pre, keyVars, cfg, todo, crashes>>

(* Every row of the task's prechecks goes, that of a failed removal too.   *)
DropChildren(r) ==
    /\ pc[r] = "drop_children"
    /\ pre' = [p \in Creators |->
                  IF pre[p].row \in {"live", "hidden"} THEN [pre[p] EXCEPT !.row = "dropped"] ELSE pre[p]]
    /\ Goto(r, "drop_task")
    /\ UNCHANGED <<taskVars, keyVars, cfg, todo, crashes>>

DropTask(r) ==
    /\ pc[r] = "drop_task"
    /\ local' = [row |-> FALSE, targets |-> {}]
    /\ Answer(r, r)
    /\ UNCHANGED <<remote, pre, claim, runs, scans, cfg, todo, crashes>>

-----------------------------------------------------------------------------
(* The process stops: requests end without an answer, rows stay.           *)
Crash ==
    /\ crashes < MaxCrashes
    /\ crashes' = crashes + 1
    /\ pc' = [r \in Requests |-> CASE pc[r] \in {"idle", "answered", "unrecorded"} -> pc[r]
                                   [] pc[r] = "record" -> "unrecorded"
                                   [] OTHER -> "lost"]
    /\ UNCHANGED <<taskVars, pre, keyVars, cfg, todo>>

LaunchStep(r) ==
    \/ ReplayLaunch(r) \/ BeginLaunch(r)
    \/ WriteRemote(r, "sync_remote", "sync_local") \/ RecordTask(r, "sync_local", "validate")
    \/ Validate(r) \/ CreatePrecheck(r) \/ SkipPrecheck(r)
    \/ WriteRemote(r, "narrow_remote", "narrow_local") \/ RecordTask(r, "narrow_local", "accept")
    \/ Accept(r) \/ StartScan(r) \/ FinishLaunch(r)

DeleteStep(r) ==
    BeginDelete(r) \/ RegisterDelete(r) \/ DeleteRemote(r) \/ DropChildren(r) \/ DropTask(r)

CleanStep(r) == ListChildren(r) \/ CleanRemote(r) \/ CleanRow(r) \/ Cleaned(r)

SaveStep(r) ==
    BeginSave(r) \/ WriteRemote(r, "save_remote", "save_local") \/ RecordTask(r, "save_local", "answered")

Progress(r) ==
    \/ r \in Starts /\ LaunchStep(r)
    \/ r \in Retries /\ BeginRetry(r)
    \/ r \in Creators /\ (RecordPrecheck(r) \/ PrecheckEnds(r))
    \/ r \in Saves /\ SaveStep(r)
    \/ r \in Deletes /\ DeleteStep(r)
    \/ r \in Deletes \cup Sweeps /\ CleanStep(r)

Next == Crash \/ \E r \in Requests : Progress(r)

Spec == Init /\ [][Next]_vars
-----------------------------------------------------------------------------
Steps == {"idle", "sync_remote", "sync_local", "validate", "precheck", "record", "checking",
          "narrow_remote", "narrow_local", "accept", "start", "started", "start_failed",
          "save_remote", "save_local", "register", "delete_remote", "list", "clean",
          "clean_row", "drop_children", "drop_task", "answered", "unrecorded", "lost"}

TypeOK ==
    /\ local \in [row : BOOLEAN, targets : SUBSET Targets]
    /\ remote \in [exists : BOOLEAN, targets : SUBSET Targets]
    /\ pre \in [Creators -> [remote : BOOLEAN, row : {"none", "live", "hidden", "dropped"},
                             missed : SUBSET Targets]]
    /\ claim \in [Keys -> Keyed \cup {None}]
    /\ runs \in SUBSET Starts /\ scans \in SUBSET Starts
    /\ pc \in [Requests -> Steps]
    /\ cfg \in [Requests -> SUBSET Targets]
    /\ todo \in [Requests -> SUBSET Creators]
    /\ reply \in [Keyed -> Keyed \cup {None, Failed}]
    /\ crashes \in 0 .. MaxCrashes

(* Starting and answering obey the idempotency key, whatever edits,        *)
(* deletions, retries and crashes happen in between: the run row and the   *)
(* key are written before the scan is started, and a second request with   *)
(* the key replays the first or fails.                                     *)
Launch == INSTANCE KeyedLaunch WITH
    Requests <- Keyed, owner <- claim
LaunchesKeyed == Launch!Spec

(* A precheck task that exists in MP VM has a visible row, by which the    *)
(* next sweep or deletion removes it.  The exceptions are its own request  *)
(* between the two writes or stopped there, and a deletion of the audit    *)
(* task that has already dropped every row.                                *)
PrechecksAccounted ==
    \A p \in Creators : pre[p].remote =>
        \/ pre[p].row = "live"
        \/ pre[p].row = "none" /\ pc[p] \in {"record", "unrecorded"}
        \/ pre[p].row = "dropped" /\ \E d \in Deletes : pc[d] \in {"drop_task", "answered", "lost"}

(* A scan is watched from before it starts: its run row exists, and a      *)
(* launch that answers success has one.                                    *)
StartedScanIsTracked ==
    /\ scans \subseteq runs
    /\ \A r \in Starts : reply[r] \in Starts => reply[r] \in runs
=============================================================================

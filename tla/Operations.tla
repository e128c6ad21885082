------------------------------ MODULE Operations ------------------------------
(***************************************************************************)
(* The operations registry: one row per background job of any kind, copied *)
(* from the jobs' own tables whenever somebody looks.  A request that      *)
(* lists, counts, clears or retries first copies the sources it finds      *)
(* newer than their row, reading them in one transaction and writing each  *)
(* row in another; a listing also closes rows that are silent for hours.   *)
(***************************************************************************)
EXTENDS Integers, FiniteSets

CONSTANTS
  Jobs,
  Threads,       \* request threads
  None,
  Stale,         \* STALE_OPERATION_HOURS, in units of the clock
  Unowned,       \* jobs of the kinds no recovery step closes (imports, removals)
  Submitted,     \* bound: the jobs a user submits; the others start as retries
  MaxTime,       \* bound on the clock
  MaxRequests,   \* bound on the requests
  MaxCrashes     \* bound on the restarts

VARIABLES
  now,           \* now_utc(): timestamps have a resolution, several events share one
  source,        \* job |-> row of its own table [status, at], or None
  worker,        \* jobs whose worker is alive
  registry,      \* job |-> row of operations [status, at, cleared, retry], or None
  pending,       \* thread |-> rows read from the sources and not yet registered
  phase,         \* thread |-> what its request does
  child,         \* thread |-> the job its retry started
  requests, crashes

vars == <<now, source, worker, registry, pending, phase, child, requests, crashes>>
sourceVars == <<source, worker>>
requestVars == <<pending, phase, child, requests>>

ActiveStatuses == {"queued", "running", "cancelling", "recovering"}
ClearableStatuses == {"completed", "failed", "cancelled", "interrupted"}

Init ==
  /\ now = 0
  /\ source = [j \in Jobs |-> None]
  /\ worker = {}
  /\ registry = [j \in Jobs |-> None]
  /\ pending = [t \in Threads |-> {}]
  /\ phase = [t \in Threads |-> "idle"]
  /\ child = [t \in Threads |-> None]
  /\ requests = 0
  /\ crashes = 0

\* Bounds: nothing is stamped so late that the clock ends before it is stale.
MayWork == now + Stale < MaxTime

Tick ==
  /\ now < MaxTime
  /\ \A t \in Threads : phase[t] = "retry" => now + 1 + Stale < MaxTime
  /\ now' = now + 1
  /\ UNCHANGED <<sourceVars, registry, requestVars, crashes>>

--------------------------------------------------------------------------------
(* The jobs and their own tables. *)

Submit(j) ==
  /\ j \in Submitted /\ source[j] = None /\ MayWork
  /\ source' = [source EXCEPT ![j] = [status |-> "queued", at |-> now]]
  /\ worker' = worker \cup {j}
  /\ UNCHANGED <<now, registry, requestVars, crashes>>

Progress(j) ==
  /\ j \in worker /\ MayWork
  /\ source' = [source EXCEPT ![j] = [status |-> "running", at |-> now]]
  /\ UNCHANGED <<now, worker, registry, requestVars, crashes>>

Finish(j) ==
  /\ j \in worker
  /\ \E status \in {"completed", "failed"} :
       source' = [source EXCEPT ![j] = [status |-> status, at |-> now]]
  /\ worker' = worker \ {j}
  /\ UNCHANGED <<now, registry, requestVars, crashes>>

--------------------------------------------------------------------------------
(* The registry. *)

\* INSERT ... ON CONFLICT(kind, source_id) DO UPDATE
Registered(old, row) ==
  [status  |-> row.status, at |-> row.at,
   cleared |-> old # None /\ old.cleared /\ row.status \notin ActiveStatuses,
   retry   |-> old # None /\ old.retry]

\* Rows whose source is newer than the registry, as one transaction reads them.
Outdated ==
  {j \in Jobs : source[j] # None /\ (registry[j] = None \/ source[j].at > registry[j].at)}

IsStaleRunning(row) == row # None /\ row.status = "running" /\ row.at < now - Stale

IsStale(row) == row # None /\ row.status \in ActiveStatuses /\ row.at < now - Stale

\* interrupt_stale_operations: the row is stamped with the current time.
Swept(rows) ==
  [j \in Jobs |-> IF IsStale(rows[j])
                  THEN [rows[j] EXCEPT !.status = "interrupted", !.at = now]
                  ELSE rows[j]]

Begin(t, next, job) ==
  /\ phase[t] = "idle"
  /\ requests < MaxRequests \/ next = "list"
  /\ requests' = IF requests < MaxRequests THEN requests + 1 ELSE requests
  /\ phase' = [phase EXCEPT ![t] = next]
  /\ child' = [child EXCEPT ![t] = job]
  /\ pending' = [pending EXCEPT ![t] = {}]

\* list and summary sweep first; the interval between sweeps is far shorter
\* than Stale and may have passed or not.
BeginList(t) ==
  /\ Begin(t, "list", None)
  /\ registry' \in {registry, Swept(registry)}
  /\ UNCHANGED <<now, sourceVars, crashes>>

BeginClear(t) == Begin(t, "clear", None) /\ UNCHANGED <<now, sourceVars, registry, crashes>>

\* A failed job is started again as another job.
BeginRetry(t) ==
  /\ \E j, k \in Jobs :
       /\ registry[j] # None /\ registry[j].status \in {"failed", "interrupted"}
       /\ source[k] = None /\ MayWork
       /\ source' = [source EXCEPT ![k] = [status |-> "queued", at |-> now]]
       /\ worker' = worker \cup {k}
       /\ Begin(t, "retry", k)
  /\ UNCHANGED <<now, registry, crashes>>

\* sync_operations_from_sources, its reading half.
ReadSources(t) ==
  /\ phase[t] \in {"list", "clear", "retry"} /\ pending[t] = {}
  /\ pending' = [pending EXCEPT ![t] = {<<j, source[j]>> : j \in Outdated} \cup {None}]
  /\ UNCHANGED <<now, sourceVars, registry, phase, child, requests, crashes>>

\* Its writing half, a transaction per row.
RegisterRow(t) ==
  /\ \E p \in pending[t] \ {None} :
       /\ registry' = [registry EXCEPT ![p[1]] = Registered(registry[p[1]], p[2])]
       /\ pending' = [pending EXCEPT ![t] = @ \ {p}]
  /\ UNCHANGED <<now, sourceVars, phase, child, requests, crashes>>

Synced(t) == pending[t] = {None}

Done(t) ==
  /\ phase' = [phase EXCEPT ![t] = "idle"]
  /\ pending' = [pending EXCEPT ![t] = {}]
  /\ child' = [child EXCEPT ![t] = None]
  /\ UNCHANGED <<now, sourceVars, requests, crashes>>

List(t) == phase[t] = "list" /\ Synced(t) /\ Done(t) /\ UNCHANGED registry

\* clear_history hides finished rows.
Clear(t) ==
  /\ phase[t] = "clear" /\ Synced(t)
  /\ registry' = [j \in Jobs |->
       IF registry[j] # None /\ registry[j].status \in ClearableStatuses
       THEN [registry[j] EXCEPT !.cleared = TRUE] ELSE registry[j]]
  /\ Done(t)

\* set_operation_retry stamps the new row with the current time.
SetRetry(t) ==
  /\ phase[t] = "retry" /\ Synced(t)
  /\ registry' = [registry EXCEPT ![child[t]] = [@ EXCEPT !.retry = TRUE, !.at = now]]
  /\ Done(t)

\* A restart kills workers and requests; the recovery steps interrupt the rows
\* of the owned kinds, copy every source that is newer, then close stale rows.
Restart ==
  /\ crashes < MaxCrashes
  /\ crashes' = crashes + 1
  /\ worker' = {}
  /\ source' = [j \in Jobs |->
       IF source[j] # None /\ source[j].status \in ActiveStatuses /\ j \notin Unowned
       THEN [status |-> "interrupted", at |-> now] ELSE source[j]]
  /\ registry' = Swept([j \in Jobs |->
       IF source'[j] # None /\ (registry[j] = None \/ source'[j].at > registry[j].at)
       THEN Registered(registry[j], source'[j]) ELSE registry[j]])
  /\ pending' = [t \in Threads |-> {}]
  /\ phase' = [t \in Threads |-> "idle"]
  /\ child' = [t \in Threads |-> None]
  /\ UNCHANGED <<now, requests>>

--------------------------------------------------------------------------------
Look(t) == BeginList(t) \/ ReadSources(t) \/ RegisterRow(t) \/ List(t) \/ Clear(t)
             \/ SetRetry(t)

Next ==
  \/ Tick \/ Restart
  \/ \E j \in Jobs : Submit(j) \/ Progress(j) \/ Finish(j)
  \/ \E t \in Threads : Look(t) \/ BeginClear(t) \/ BeginRetry(t)

Spec == Init /\ [][Next]_vars

\* Live workers end their jobs, the clock runs, and somebody keeps looking, now
\* and then after the sweep interval.
Fairness ==
  /\ WF_vars(Tick)
  /\ \A j \in Jobs : WF_vars(Finish(j))
  /\ \A t \in Threads : WF_vars(Look(t))
  /\ SF_vars(\E t \in Threads : BeginList(t) /\ registry' = Swept(registry))

FairSpec == Spec /\ Fairness

TypeOK ==
  /\ now \in 0..MaxTime /\ worker \subseteq Jobs
  /\ \A j \in Jobs : registry[j] # None => registry[j].at <= now

Active(j) == registry[j] # None /\ registry[j].status \in ActiveStatuses

\* No operation stays active for ever: its job ends, a recovery step closes it,
\* or the sweep does, whatever older copies overlapping syncs write over it.
RegistryCloses == (\E j \in Jobs : Active(j)) ~> (\A j \in Jobs : ~Active(j))

\* The registry is a copy and "old endpoints remain authoritative": when a job
\* has ended, its row says how, or the next listing still has to copy the end.
EndIsNotLost ==
  \A j \in Jobs :
    (source[j] # None /\ source[j].status \notin ActiveStatuses /\ registry[j] # None)
      => registry[j].status = source[j].status \/ source[j].at > registry[j].at
================================================================================

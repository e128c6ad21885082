------------------------- MODULE AssetCardJobsProofs -------------------------
(***************************************************************************)
(* Proofs that the build-job module keeps its type, its admission limit,   *)
(* one builder per asset and its promise about acknowledged cancellations, *)
(* for every set of jobs and assets, every limit and every fault setting.  *)
(***************************************************************************)
EXTENDS AssetCardJobs, FiniteSetTheorems, TLAPS

-----------------------------------------------------------------------------
(* The inductive invariant. *)

\* Program points at which the job has an admitted row and no saved card.
Unsaved == BeforeSaving \cup {"saving"}

\* What a row and a request look like at each program point.
RowInv ==
    \A j \in Jobs :
        /\ pc[j] \in {"idle", "prechecked"} => status[j] = "absent"
        /\ pc[j] # "idle" => requested[j] \in Assets
        /\ pc[j] \in Unsaved \cup {"idle", "prechecked"} => saved[j] = NoAsset
        /\ pc[j] \in {"saved", "rebound"} => saved[j] \in Assets
        /\ pc[j] \in Unsaved \cup {"saved"} => asset[j] = requested[j]
        /\ pc[j] = "idle" => j \notin parent
        /\ pc[j] = "rebound" /\ j \in parent => asset[j] = saved[j]
        /\ status[j] = "completed" => pc[j] \in {"closing", "releasing", "done"}

\* A live build can be reached by its token, or its token is already set.
TokenInv ==
    /\ \A j \in Jobs :
        /\ pc[j] \in {"waiting", "starting", "started", "building"} => j \in registered \cup event
        /\ j \in cancelRequested \cup signalling => status[j] \notin {"absent", "queued"}

\* What has to be true of an acknowledged cancellation until the thread is gone.
AckInv ==
    \A j \in acknowledged :
        /\ status[j] \notin {"absent", "queued"}
        /\ saved[j] = NoAsset
        /\ pc[j] \in {"admitted", "waiting", "starting", "started", "building",
                      "closing", "releasing", "done"}
        /\ pc[j] \in {"started", "building"} => j \in event

\* If recovery precedes every request, an unsaved build owns an active row.
BuilderInv ==
    RecoverBeforeServing =>
        /\ recovered
        /\ \A j \in Jobs : pc[j] \in Unsaved => j \in Active
        /\ \A i, j \in Jobs :
              pc[i] \in Unsaved /\ pc[j] \in Unsaved /\ requested[i] = requested[j] => i = j

IInv ==
    /\ TypeOK
    /\ RowInv
    /\ TokenInv
    /\ AckInv
    /\ BuilderInv
    /\ OneCardPerHost
    /\ CompletedNamesItsCard

USE DEF row, thread, tokens, process

-----------------------------------------------------------------------------
(* The invariant holds initially and each action keeps it. *)

\* Every initial state satisfies the inductive invariant.
LEMMA InitIInv == Init => IInv
<1> SUFFICES ASSUME Init PROVE IInv
    OBVIOUS
<1> USE DEF Init
<1>1. recovered \in BOOLEAN /\ stopping \in BOOLEAN
    BY FlagsBoolean, Zenon
<1>2. TypeOK
    BY <1>1, MaxRestartsNat DEF TypeOK, ActiveStatuses, Terminal, PC, BeforeSaving
<1>3. RowInv /\ TokenInv /\ AckInv /\ OneCardPerHost /\ CompletedNamesItsCard
    BY DEF RowInv, TokenInv, AckInv, OneCardPerHost, CompletedNamesItsCard, Unsaved, BeforeSaving
<1>4. \A j \in Jobs : pc[j] \notin Unsaved
    BY DEF Unsaved, BeforeSaving
<1>5. BuilderInv
    BY <1>4, Zenon DEF BuilderInv
<1>6. QED
    BY <1>2, <1>3, <1>5 DEF IInv

\* The handlers that ask for a job keep the invariant.
LEMMA RequestStep ==
    ASSUME IInv, NEW j \in Jobs, Request(j) PROVE IInv'
<1> USE MaxRestartsNat, FlagsBoolean, NoAssetFresh
    DEF IInv, TypeOK, RowInv, TokenInv, AckInv, BuilderInv, OneCardPerHost,
        CompletedNamesItsCard, ActiveStatuses, Terminal, PC, BeforeSaving, Unsaved, Active
<1>1. ASSUME NEW a \in Assets, NEW fromScan \in BOOLEAN, Precheck(j, a, fromScan) PROVE IInv'
    BY <1>1 DEF Precheck
<1>2. CASE Admit(j)
    BY <1>2 DEF Admit, InsertRows, Admissible
<1>3. CASE Refuse(j)
    BY <1>3 DEF Refuse
<1>4. QED
    BY <1>1, <1>2, <1>3 DEF Request

\* The batch handler keeps the invariant.
LEMMA BatchStep ==
    ASSUME IInv, NEW js \in SUBSET Jobs, NEW assetOf \in [js -> Assets],
           AdmitBatch(js, assetOf)
    PROVE  IInv'
BY MaxRestartsNat, FlagsBoolean, NoAssetFresh
DEF AdmitBatch, InsertRows, Admissible, IInv, TypeOK, RowInv, TokenInv, AckInv, BuilderInv,
    OneCardPerHost, CompletedNamesItsCard, ActiveStatuses, Terminal, PC, BeforeSaving,
    Unsaved, Active

\* The thread that runs a job keeps the invariant.
LEMMA WorkerStep ==
    ASSUME IInv, NEW j \in Jobs, Worker(j) PROVE IInv'
<1> USE MaxRestartsNat, FlagsBoolean, NoAssetFresh
    DEF IInv, TypeOK, RowInv, TokenInv, AckInv, BuilderInv, OneCardPerHost,
        CompletedNamesItsCard, ActiveStatuses, Terminal, PC, BeforeSaving, Unsaved, Active
<1>1. CASE Register(j)
    BY <1>1 DEF Register
<1>2. CASE AcquireSlot(j)
    BY <1>2 DEF AcquireSlot
<1>3. CASE LeaveQueue(j)
    BY <1>3 DEF LeaveQueue
<1>4. CASE Start(j)
    BY <1>4 DEF Start
<1>5. CASE StartRefused(j)
    BY <1>5 DEF StartRefused
<1>6. CASE CancelledBeforeStart(j)
    BY <1>6 DEF CancelledBeforeStart, Finish
<1>7. CASE BeginBuild(j)
    BY <1>7 DEF BeginBuild
<1>8. CASE BuildCancelled(j)
    BY <1>8 DEF BuildCancelled, Finish
<1>9. CASE Fail(j)
    BY <1>9 DEF Fail, Finish
<1>10. CASE BuildDone(j)
    BY <1>10 DEF BuildDone
<1>11. CASE Save(j)
    BY <1>11, HostOfType DEF Save, Canonical
<1>12. CASE Rebind(j)
    BY <1>12 DEF Rebind
<1>13. CASE Complete(j)
    BY <1>13 DEF Complete, Finish
<1>14. CASE FinishLost(j)
    BY <1>14 DEF FinishLost
<1>15. CASE Unregister(j)
    BY <1>15 DEF Unregister
<1>16. CASE ReleaseSlot(j)
    BY <1>16 DEF ReleaseSlot
<1>17. QED
    BY <1>1, <1>2, <1>3, <1>4, <1>5, <1>6, <1>7, <1>8, <1>9, <1>10, <1>11, <1>12, <1>13,
       <1>14, <1>15, <1>16 DEF Worker

\* Cancellation, shutdown, restart and recovery keep the invariant.
LEMMA ControlStep ==
    ASSUME IInv,
           \/ \E j \in Jobs : RequestCancel(j) \/ SignalCancel(j)
           \/ \E c \in Assets : BuildDirectly(c) \/ DeleteCard(c)
           \/ Shutdown \/ Restart \/ LateRecovery \/ UNCHANGED vars
    PROVE  IInv'
<1> USE MaxRestartsNat, FlagsBoolean, NoAssetFresh
    DEF IInv, TypeOK, RowInv, TokenInv, AckInv, BuilderInv, OneCardPerHost,
        CompletedNamesItsCard, ActiveStatuses, Terminal, PC, BeforeSaving, Unsaved, Active
<1>1. ASSUME NEW j \in Jobs, RequestCancel(j) PROVE IInv'
    BY <1>1 DEF RequestCancel
<1>2. ASSUME NEW j \in Jobs, SignalCancel(j) PROVE IInv'
    BY <1>2 DEF SignalCancel
<1>3. ASSUME NEW c \in Assets, BuildDirectly(c) \/ DeleteCard(c) PROVE IInv'
    BY <1>3 DEF BuildDirectly, Canonical, DeleteCard
<1>4. CASE Shutdown
    BY <1>4 DEF Shutdown
<1>5. CASE Restart
    <2>1. recovered' \in BOOLEAN /\ stopping' \in BOOLEAN
        BY <1>5, FlagsBoolean, Zenon DEF Restart
    <2>2. /\ status' \in [Jobs -> ActiveStatuses \cup Terminal \cup {"absent"}]
          /\ \A j \in Jobs : /\ status'[j] = "absent" <=> status[j] = "absent"
                             /\ status'[j] = "completed" <=> status[j] = "completed"
                             /\ status'[j] = "queued" => status[j] = "queued"
        BY <1>5 DEF Restart, InterruptActive
    <2>3. TypeOK'
        BY <1>5, <2>1, <2>2 DEF Restart
    <2>4. RowInv' /\ TokenInv' /\ AckInv' /\ OneCardPerHost' /\ CompletedNamesItsCard'
        BY <1>5, <2>2 DEF Restart
    <2>5. \A j \in Jobs : pc'[j] \notin Unsaved
        BY <1>5 DEF Restart
    <2>6. RecoverBeforeServing => recovered'
        BY <1>5, Zenon DEF Restart
    <2>7. BuilderInv'
        BY <2>5, <2>6, Zenon DEF BuilderInv
    <2>8. QED
        BY <2>3, <2>4, <2>7 DEF IInv
<1>6. CASE LateRecovery
    BY <1>6 DEF LateRecovery, InterruptActive
<1>7. CASE UNCHANGED vars
    BY <1>7 DEF vars
<1>8. QED
    BY <1>1, <1>2, <1>3, <1>4, <1>5, <1>6, <1>7

\* The invariant is inductive.
LEMMA IInvStep == IInv /\ [Next]_vars => IInv'
<1> SUFFICES ASSUME IInv, [Next]_vars PROVE IInv'
    OBVIOUS
<1>1. ASSUME NEW j \in Jobs, Request(j) \/ Worker(j) PROVE IInv'
    BY <1>1, RequestStep, WorkerStep
<1>2. ASSUME NEW js \in SUBSET Jobs, NEW assetOf \in [js -> Assets], AdmitBatch(js, assetOf)
      PROVE IInv'
    BY <1>2, BatchStep
<1>3. CASE \/ \E j \in Jobs : RequestCancel(j) \/ SignalCancel(j)
           \/ \E c \in Assets : BuildDirectly(c) \/ DeleteCard(c)
           \/ Shutdown \/ Restart \/ LateRecovery \/ UNCHANGED vars
    BY <1>3, ControlStep
<1>4. CASE Quiet
    BY <1>4, ControlStep DEF Quiet
<1>5. QED
    BY <1>1, <1>2, <1>3, <1>4 DEF Next

\* Every reachable state satisfies the inductive invariant.
LEMMA Invariance == Spec => []IInv
<1>1. Init => IInv
    BY InitIInv
<1>2. IInv /\ [Next]_vars => IInv'
    BY IInvStep
<1>3. QED
    BY <1>1, <1>2, PTL DEF Spec

-----------------------------------------------------------------------------
(* The admission limit. *)

\* The active rows are a finite set.
LEMMA ActiveFinite == IsFiniteSet(Active) /\ Cardinality(Active) \in Nat
BY JobsFinite, FS_Subset, FS_CardinalityType DEF Active

\* A step that makes no row active cannot exceed the limit.
LEMMA LimitShrinks ==
    ASSUME ActiveWithinLimit, Active' \subseteq Active PROVE ActiveWithinLimit'
<1>1. Cardinality(Active') \in Nat /\ Cardinality(Active') <= Cardinality(Active)
    BY ActiveFinite, FS_Subset, FS_CardinalityType
<1>2. QED
    BY <1>1, ActiveFinite, LimitNat DEF ActiveWithinLimit

\* The capacity test of the admission transaction is enough to keep the limit,
\* for a single job and for a batch.
LEMMA LimitAdmission ==
    ASSUME ActiveWithinLimit, NEW js \in SUBSET Jobs, NEW as, NEW assetOf,
           Admissible(js, as), InsertRows(js, assetOf)
    PROVE  ActiveWithinLimit'
<1>1. Active' \subseteq Active \cup js
    BY DEF Active, InsertRows
<1>2. IsFiniteSet(js) /\ Cardinality(js) \in Nat
    BY JobsFinite, FS_Subset, FS_CardinalityType
<1>3. /\ IsFiniteSet(Active \cup js)
      /\ Cardinality(Active \cup js) \in Nat
      /\ Cardinality(Active \cup js) <= Cardinality(Active) + Cardinality(js)
    <2>1. /\ IsFiniteSet(Active \cup js) /\ IsFiniteSet(Active \cap js)
          /\ Cardinality(Active \cup js) =
                Cardinality(Active) + Cardinality(js) - Cardinality(Active \cap js)
        BY <1>2, ActiveFinite, FS_Union, FS_Subset
    <2>2. Cardinality(Active \cap js) \in Nat /\ Cardinality(Active \cup js) \in Nat
        BY <2>1, FS_CardinalityType
    <2>3. QED
        BY <1>2, <2>1, <2>2, ActiveFinite
<1>4. Cardinality(Active') \in Nat /\ Cardinality(Active') <= Cardinality(Active \cup js)
    BY <1>1, <1>3, FS_Subset, FS_CardinalityType
<1>5. QED
    BY <1>2, <1>3, <1>4, ActiveFinite, LimitNat DEF ActiveWithinLimit, Admissible

\* Every step keeps the limit.
LEMMA LimitStep == IInv /\ ActiveWithinLimit /\ [Next]_vars => ActiveWithinLimit'
<1> SUFFICES ASSUME IInv, ActiveWithinLimit, [Next]_vars PROVE ActiveWithinLimit'
    OBVIOUS
<1> USE DEF IInv, TypeOK, Active, ActiveStatuses
<1>1. ASSUME NEW j \in Jobs, Admit(j) PROVE ActiveWithinLimit'
    BY <1>1, LimitAdmission DEF Admit
<1>2. ASSUME NEW js \in SUBSET Jobs, NEW assetOf \in [js -> Assets], AdmitBatch(js, assetOf)
      PROVE ActiveWithinLimit'
    BY <1>2, LimitAdmission DEF AdmitBatch
<1>3. ASSUME NEW j \in Jobs, Request(j), ~Admit(j) PROVE Active' \subseteq Active
    BY <1>3 DEF Request, Precheck, Refuse
<1>4. ASSUME NEW j \in Jobs, Worker(j) PROVE Active' \subseteq Active
    BY <1>4 DEF Worker, Register, AcquireSlot, LeaveQueue, Start, StartRefused,
        CancelledBeforeStart, BeginBuild, BuildCancelled, Fail, BuildDone, Save, Rebind,
        Complete, FinishLost, Unregister, ReleaseSlot, Finish
<1>5. ASSUME NEW j \in Jobs, RequestCancel(j) \/ SignalCancel(j) PROVE Active' \subseteq Active
    BY <1>5 DEF RequestCancel, SignalCancel
<1>6. ASSUME Restart \/ LateRecovery PROVE Active' \subseteq Active
    BY <1>6 DEF Restart, LateRecovery, InterruptActive
<1>7. ASSUME \/ \E c \in Assets : BuildDirectly(c) \/ DeleteCard(c)
             \/ Shutdown \/ Quiet \/ UNCHANGED vars
      PROVE Active' \subseteq Active
    BY <1>7 DEF BuildDirectly, DeleteCard, Shutdown, Quiet, vars
<1>8. QED
    BY <1>1, <1>2, <1>3, <1>4, <1>5, <1>6, <1>7, LimitShrinks DEF Next

-----------------------------------------------------------------------------
(* The theorems. *)

\* The variables keep their types in every behaviour of the build jobs.
THEOREM TypeCorrect == Spec => []TypeOK
BY Invariance, PTL DEF IInv

\* No interleaving of prechecks, batches, rebinds, cancellations, faults and
\* restarts makes more than Limit rows active.
THEOREM AdmissionLimit == Spec => []ActiveWithinLimit
<1>1. Init => ActiveWithinLimit
    <2>1. Init => Active = {}
        BY DEF Init, Active, ActiveStatuses
    <2>2. Cardinality({}) <= Limit
        BY FS_EmptySet, LimitNat
    <2>3. QED
        BY <2>1, <2>2 DEF ActiveWithinLimit
<1>2. IInv /\ ActiveWithinLimit /\ [Next]_vars => ActiveWithinLimit'
    BY LimitStep
<1>3. QED
    BY <1>1, <1>2, Invariance, PTL DEF Spec

\* When recovery precedes the first request of each process, no two jobs
\* collect or save the card of one MP VM object at the same time.
THEOREM SingleBuilder ==
    ASSUME RecoverBeforeServing PROVE Spec => []OneBuilderPerAsset
<1>1. IInv => OneBuilderPerAsset
    BY DEF IInv, BuilderInv, OneBuilderPerAsset, Collecting, Unsaved, BeforeSaving
<1>2. QED
    BY <1>1, Invariance, PTL

\* A cancellation acknowledged before the build begins to save is final, also
\* when the cancel handler found no token and when recovery comes late.
THEOREM CancelIsFinal == Spec => []AcknowledgedCancelSavesNothing
<1>1. IInv => AcknowledgedCancelSavesNothing
    BY DEF IInv, AckInv, AcknowledgedCancelSavesNothing
<1>2. QED
    BY <1>1, Invariance, PTL

\* Saves of different MP VM objects of one host meet in one card, and the row of
\* a completed job of a scan run names the card the job wrote.
THEOREM CardsNamed == Spec => []CardsAndNames
<1>1. IInv => CardsAndNames
    BY DEF IInv, CardsAndNames
<1>2. QED
    BY <1>1, Invariance, PTL
=============================================================================

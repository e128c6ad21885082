------------------------- MODULE ScanPostprocessProofs -------------------------
(* No asset is removed from MP VM without a card built from it or against an    *)
(* acknowledged cancellation, and a finished run has no thread left: for every  *)
(* set of targets and assets, every size of a wave and any number of crashes.   *)
EXTENDS ScanPostprocess, TLAPS

-----------------------------------------------------------------------------
(* The inductive invariant.                                                    *)

Typed ==
    /\ ipc \in [Assets -> ThreadPoints]
    /\ DOMAIN cur = Assets
    /\ cancelRequested \in BOOLEAN

Alive(a) == ipc[a] \notin {"none", "done", "raised"}

\* The worker waits for its threads: each is of the wave, and the wave is drained before
\* the worker looks at what the run has done.
Waited ==
    /\ \A a \in Assets : ipc[a] # "none" => a \in wave
    /\ wpc \in {"none", "claimed", "summarising", "evidenced", "finalised"} => wave = {}
    /\ status \in FinalStatuses => wpc = "none"

\* A thread that can still ask for a removal works on the object its build saved.
Backed ==
    /\ asked \subseteq collected
    /\ \A a \in Assets :
          ipc[a] \in {"built", "returned", "saved", "removing", "recording"} => cur[a] \in collected

\* An acknowledged cancellation is remembered: by the event while threads run, and by the
\* row for the worker that comes after them.
Remembered ==
    /\ cut # {} \/ signalling => cancelRequested
    /\ cut # {} /\ ~cancelEvent =>
          /\ \A a \in Assets : ~Alive(a)
          /\ wpc \in {"none", "claimed", "cancelling"}
          /\ wpc = "claimed" => doomed

\* An item that the cancellation found undecided stays so.
Undecided == cut \cap askedBy = {} /\ \A a \in Assets : a \in cut => ipc[a] # "removing"

IInv == Typed /\ Waited /\ Backed /\ Remembered /\ Undecided

LEMMA InitialState == Init => IInv
BY DEF Init, IInv, Typed, Alive, Waited, Backed, Remembered, Undecided, ThreadPoints,
       FinalStatuses

-----------------------------------------------------------------------------
(* The steps.                                                                  *)

USE DEF IInv, Typed, Alive, Waited, Backed, Remembered, Undecided, ThreadPoints,
        ActiveStatuses, FinalStatuses, Looping,
        row, items, local, worker, thread, flags, mpvm, history

\* The worker takes the run, and finds a cancellation that an earlier process acknowledged.
LEMMA ClaimSteps == IInv /\ (Claim \/ BeginMonitoring) => IInv'
<1>1. ASSUME IInv, Claim PROVE IInv'
    BY <1>1 DEF Claim
<1>2. ASSUME IInv, BeginMonitoring PROVE IInv'
    BY <1>2 DEF BeginMonitoring
<1> QED BY <1>1, <1>2

\* Polling and queueing touch no thread.
LEMMA MonitorSteps ==
    ASSUME IInv,
           \/ \E ts \in SUBSET Targets : Poll(ts)
           \/ \E t \in Targets, a \in Assets : QueueAsset(t, a) \/ QueueAssetFails(t, a)
           \/ \E changed \in BOOLEAN : PersistProgress(changed)
           \/ PollAgain \/ EndMonitoring
    PROVE IInv'
<1>1. ASSUME NEW ts \in SUBSET Targets, Poll(ts) PROVE IInv'
    BY <1>1 DEF Poll
<1>2. ASSUME NEW t \in Targets, NEW a \in Assets, QueueAsset(t, a) PROVE IInv'
    BY <1>2 DEF QueueAsset
<1>3. ASSUME NEW t \in Targets, NEW a \in Assets, QueueAssetFails(t, a) PROVE IInv'
    BY <1>3 DEF QueueAssetFails
<1>4. ASSUME NEW changed \in BOOLEAN, PersistProgress(changed) PROVE IInv'
    BY <1>4 DEF PersistProgress
<1>5. ASSUME PollAgain PROVE IInv'
    BY <1>5 DEF PollAgain
<1>6. ASSUME EndMonitoring PROVE IInv'
    BY <1>6 DEF EndMonitoring
<1> QED BY <1>1, <1>2, <1>3, <1>4, <1>5, <1>6

\* A thread joins the wave, the wave is waited for, and the loop is left.
LEMMA WaveSteps ==
    ASSUME IInv,
           \/ \E a \in Assets : SubmitItem(a)
           \/ DrainWave \/ NoticeCancel \/ MonitorFails
    PROVE IInv'
<1>1. ASSUME NEW a \in Assets, SubmitItem(a) PROVE IInv'
    BY <1>1 DEF SubmitItem
<1>2. ASSUME DrainWave PROVE IInv'
    BY <1>2 DEF DrainWave, MustDrain, WaveDone, LeaveLoop
<1>3. ASSUME NoticeCancel PROVE IInv'
    BY <1>3 DEF NoticeCancel, LeaveLoop
<1>4. ASSUME MonitorFails PROVE IInv'
    BY <1>4 DEF MonitorFails, LeaveLoop
<1> QED BY <1>1, <1>2, <1>3, <1>4

\* The worker ends only when every thread that was ever of the wave has ended.
LEMMA RunIsFinished ==
    ASSUME IInv, NEW outcome \in FinalStatuses, FinishRun(outcome),
           \A a \in Assets : ~Alive(a)
    PROVE IInv'
BY DEF FinishRun

LEMMA EndSteps ==
    ASSUME IInv,
           \/ RecordEvidence \/ FinalizeRefresh
           \/ FinishEmpty \/ FinishCancelled \/ FinishFailed \/ FinishLost
           \/ \E taskDeleted \in BOOLEAN : FinishProcessed(taskDeleted)
    PROVE IInv'
<1>1. ASSUME RecordEvidence PROVE IInv'
    BY <1>1 DEF RecordEvidence
<1>2. ASSUME FinalizeRefresh PROVE IInv'
    BY <1>2 DEF FinalizeRefresh
<1>3. ASSUME FinishEmpty PROVE IInv'
    <2>1. \A a \in Assets : ~Alive(a)
        BY <1>3 DEF FinishEmpty
    <2> QED BY <1>3, <2>1, RunIsFinished DEF FinishEmpty
<1>4. ASSUME FinishCancelled PROVE IInv'
    <2>1. \A a \in Assets : ~Alive(a)
        BY <1>4 DEF FinishCancelled, WaveDone
    <2> QED BY <1>4, <2>1, RunIsFinished DEF FinishCancelled
<1>5. ASSUME FinishFailed PROVE IInv'
    <2>1. \A a \in Assets : ~Alive(a)
        BY <1>5 DEF FinishFailed, WaveDone
    <2> QED BY <1>5, <2>1, RunIsFinished DEF FinishFailed
<1>6. ASSUME FinishLost PROVE IInv'
    BY <1>6 DEF FinishLost, WaveDone
<1>7. ASSUME NEW taskDeleted \in BOOLEAN, FinishProcessed(taskDeleted) PROVE IInv'
    <2>1. \A a \in Assets : ~Alive(a)
        BY <1>7 DEF FinishProcessed
    <2> QED BY <1>7, <2>1, RunIsFinished DEF FinishProcessed
<1> QED BY <1>1, <1>2, <1>3, <1>4, <1>5, <1>6, <1>7

\* A thread on the way to the removal: a live thread means the cancellation, if there was
\* one, is still signalled, and the decision looks at the signal.
LEMMA ThreadSteps ==
    ASSUME IInv, NEW a \in Assets, ItemThread(a) PROVE IInv'
<1> USE DEF ItemFrame, Step, Mark
<1>1. CASE BeginItem(a)
    BY <1>1 DEF BeginItem
<1>2. CASE BeginBuild(a)
    BY <1>2 DEF BeginBuild
<1>3. CASE BuildSaves(a)
    BY <1>3 DEF BuildSaves
<1>4. CASE RebindItem(a)
    BY <1>4 DEF RebindItem
<1>5. CASE MarkSaved(a)
    BY <1>5 DEF MarkSaved
<1>6. CASE DecideRemoval(a)
    BY <1>6 DEF DecideRemoval
<1>7. CASE RemoveAsset(a)
    BY <1>7 DEF RemoveAsset
<1>8. CASE RecordRemoval(a)
    BY <1>8 DEF RecordRemoval
<1>9. CASE CompleteItem(a)
    BY <1>9 DEF CompleteItem
<1>10. CASE FailItem(a)
    BY <1>10 DEF FailItem
<1>11. CASE CancelItem(a)
    BY <1>11 DEF CancelItem
<1> QED BY <1>1, <1>2, <1>3, <1>4, <1>5, <1>6, <1>7, <1>8, <1>9, <1>10, <1>11 DEF ItemThread

\* The acknowledgement sets the event; a crash clears it and leaves no thread.
LEMMA OtherSteps ==
    ASSUME IInv,
           \/ \E t \in Targets : JobSucceeds(t)
           \/ \E a \in Assets : RemovalTakesEffect(a)
           \/ RequestCancel \/ SignalCancel \/ Crash \/ LateRecovery \/ Finished
    PROVE IInv'
<1>1. ASSUME NEW t \in Targets, JobSucceeds(t) PROVE IInv'
    BY <1>1 DEF JobSucceeds
<1>2. ASSUME NEW a \in Assets, RemovalTakesEffect(a) PROVE IInv'
    BY <1>2 DEF RemovalTakesEffect
<1>3. ASSUME RequestCancel PROVE IInv'
    BY <1>3 DEF RequestCancel
<1>4. ASSUME SignalCancel PROVE IInv'
    BY <1>4 DEF SignalCancel
<1>5. ASSUME Crash PROVE IInv'
    BY <1>5 DEF Crash
<1>6. ASSUME LateRecovery PROVE IInv'
    BY <1>6 DEF LateRecovery
<1>7. ASSUME Finished PROVE IInv'
    BY <1>7 DEF Finished, vars
<1> QED BY <1>1, <1>2, <1>3, <1>4, <1>5, <1>6, <1>7

LEMMA InvariantIsInductive == Spec => []IInv
<1>1. IInv /\ [Next]_vars => IInv'
    <2> SUFFICES ASSUME IInv, [Next]_vars PROVE IInv'
        OBVIOUS
    <2>1. CASE Worker
        BY <2>1, ClaimSteps, MonitorSteps, WaveSteps, EndSteps DEF Worker
    <2>2. CASE \E a \in Assets : ItemThread(a)
        BY <2>2, ThreadSteps
    <2>3. CASE UNCHANGED vars
        BY <2>3 DEF vars
    <2> QED BY <2>1, <2>2, <2>3, OtherSteps DEF Next
<1> QED BY <1>1, InitialState, PTL DEF Spec

-----------------------------------------------------------------------------
(* The theorems.                                                               *)

\* MP VM is asked to remove an asset only after a card was saved from that very object,
\* and never for an item that an acknowledged cancellation found undecided, whatever
\* crashes, is resumed or fails in between.
THEOREM RemovalsSafe == Spec => []RemovalsAreSafe
<1>1. IInv => RemovalsAreSafe
    BY DEF RemovalsAreSafe, RemovedOnlyAfterSave, CancelStopsRemovals
<1> QED BY <1>1, InvariantIsInductive, PTL

\* A run whose row is final has no worker and no thread that could still save a card or
\* remove an asset.
THEOREM FinishedQuiet == Spec => []FinishedRunIsQuiet
<1>1. IInv => FinishedRunIsQuiet
    BY DEF FinishedRunIsQuiet
<1> QED BY <1>1, InvariantIsInductive, PTL

-----------------------------------------------------------------------------
(* What "completed" means.                                                     *)

Ended == {"completed"} \cup FailedItem

\* While the worker queues assets, every item that is not settled is still to be submitted
\* or in the wave; it summarises the run when none is left.
Accounted ==
    /\ item \in [Assets -> ItemStatuses]
    /\ wpc \in Looping \cup {"draining"} => ToResume \subseteq backlog \cup wave
    /\ wpc \in {"polled", "draining"} => backlog = {}
    /\ \A a \in Assets : ipc[a] = "done" => item[a] \in Ended
    /\ wpc \in {"summarising", "evidenced", "finalised"} => ToResume = {}
    /\ status = "completed" => failedTargets = {} /\ \A a \in Assets : item[a] \in {"absent", "completed"}

\* No two assets of MP VM are taken for one host when a card is saved.
HostsDistinct == \A a, b \in Assets : HostOf[a] = HostOf[b] => a = b

\* An item is about its own asset, or about an older card, which MP VM does not have.
OwnAsset ==
    /\ remote \subseteq Assets /\ cards \subseteq Ids
    /\ itemAsset \in [Assets -> Ids] /\ cur \in [Assets -> Ids]
    /\ removalOp \in [Assets -> Ids \cup {NoAsset}]
    /\ \A a \in Assets :
          /\ itemAsset[a] \in {a} \cup OldCards /\ cur[a] \in {a} \cup OldCards
          /\ removalOp[a] \in {a, NoAsset}
          /\ ipc[a] \in {"built", "returned", "saved", "removing", "recording"} => cur[a] = a
          /\ ipc[a] = "waiting" => removalOp[a] = a
          /\ item[a] = "completed" => a \notin remote

USE DEF Ended, FailedItem, ItemStatuses, ToResume

LEMMA AccountedInitially == Init => Accounted
BY DEF Init, Accounted

LEMMA WorkerAccounts == ASSUME IInv, Accounted, Worker PROVE Accounted'
<1> USE DEF Accounted
<1>1. CASE Claim
    BY <1>1 DEF Claim
<1>2. CASE BeginMonitoring
    BY <1>2 DEF BeginMonitoring
<1>3. ASSUME NEW ts \in SUBSET Targets, Poll(ts) PROVE Accounted'
    BY <1>3 DEF Poll
<1>4. ASSUME NEW t \in Targets, NEW a \in Assets, QueueAsset(t, a) PROVE Accounted'
    BY <1>4 DEF QueueAsset
<1>5. ASSUME NEW t \in Targets, NEW a \in Assets, QueueAssetFails(t, a) PROVE Accounted'
    BY <1>5 DEF QueueAssetFails
<1>6. ASSUME NEW changed \in BOOLEAN, PersistProgress(changed) PROVE Accounted'
    BY <1>6 DEF PersistProgress
<1>7. CASE PollAgain \/ EndMonitoring
    BY <1>7 DEF PollAgain, EndMonitoring
<1>8. ASSUME NEW a \in Assets, SubmitItem(a) PROVE Accounted'
    BY <1>8 DEF SubmitItem
<1>9. CASE DrainWave
    BY <1>9 DEF DrainWave, MustDrain, WaveDone, WaveRaised, LeaveLoop
<1>10. CASE NoticeCancel \/ MonitorFails
    BY <1>10 DEF NoticeCancel, MonitorFails, LeaveLoop
<1>11. CASE RecordEvidence \/ FinalizeRefresh
    BY <1>11 DEF RecordEvidence, FinalizeRefresh
<1>12. CASE FinishEmpty \/ FinishCancelled \/ FinishFailed \/ FinishLost
    BY <1>12 DEF FinishEmpty, FinishCancelled, FinishFailed, FinishLost, FinishRun
<1>13. ASSUME NEW taskDeleted \in BOOLEAN, FinishProcessed(taskDeleted) PROVE Accounted'
    BY <1>13 DEF FinishProcessed, FinishRun, Failures
<1> QED BY <1>1, <1>2, <1>3, <1>4, <1>5, <1>6, <1>7, <1>8, <1>9, <1>10, <1>11, <1>12, <1>13
        DEF Worker

LEMMA ThreadAccounts == ASSUME IInv, Accounted, NEW a \in Assets, ItemThread(a) PROVE Accounted'
<1> USE DEF ItemFrame, Step, Mark, Accounted
<1>1. CASE BeginItem(a) \/ BeginBuild(a) \/ BuildSaves(a)
    BY <1>1 DEF BeginItem, BeginBuild, BuildSaves
<1>2. CASE RebindItem(a) \/ MarkSaved(a) \/ DecideRemoval(a)
    BY <1>2 DEF RebindItem, MarkSaved, DecideRemoval
<1>3. CASE RemoveAsset(a) \/ RecordRemoval(a)
    BY <1>3 DEF RemoveAsset, RecordRemoval
<1>4. CASE CompleteItem(a) \/ FailItem(a) \/ CancelItem(a)
    BY <1>4 DEF CompleteItem, FailItem, CancelItem
<1> QED BY <1>1, <1>2, <1>3, <1>4 DEF ItemThread

LEMMA AccountedAlways == Spec => []Accounted
<1>1. ASSUME IInv, Accounted, [Next]_vars PROVE Accounted'
    <2> USE DEF Accounted
    <2>1. ASSUME NEW t \in Targets, JobSucceeds(t) PROVE Accounted'
        BY <1>1, <2>1 DEF JobSucceeds
    <2>2. ASSUME NEW a \in Assets, RemovalTakesEffect(a) PROVE Accounted'
        BY <1>1, <2>2 DEF RemovalTakesEffect
    <2>3. CASE RequestCancel \/ SignalCancel
        BY <1>1, <2>3 DEF RequestCancel, SignalCancel
    <2>4. CASE Crash
        <3> HIDE DEF IInv, Typed, Waited, Backed, Remembered, Undecided
        <3>1. \A a \in Assets : item'[a] = item[a] \/ item[a] \in {"building", "card_saved"}
            BY <1>1, <2>4 DEF Crash, ReleaseLeases
        <3>2. item' \in [Assets -> ItemStatuses]
            BY <1>1, <2>4 DEF Crash, ReleaseLeases
        <3> QED BY <1>1, <2>4, <3>1, <3>2 DEF Crash
    <2>5. CASE LateRecovery
        BY <1>1, <2>5 DEF LateRecovery, ReleaseLeases
    <2>6. CASE UNCHANGED vars
        BY <1>1, <2>6 DEF vars
    <2> HIDE DEF Accounted, IInv
    <2> QED BY <1>1, <2>1, <2>2, <2>3, <2>4, <2>5, <2>6, WorkerAccounts, ThreadAccounts
            DEF Next, Finished
<1> HIDE DEF IInv, Accounted
<1> QED BY <1>1, AccountedInitially, InvariantIsInductive, PTL DEF Spec

LEMMA OwnAssetAlways == ASSUME HostsDistinct PROVE Spec => []OwnAsset
<1>1. ASSUME Init PROVE OwnAsset
    BY <1>1 DEF Init, OwnAsset, Ids
<1>2. ASSUME Accounted, IInv, OwnAsset, [Next]_vars PROVE OwnAsset'
    <2>0. ipc \in [Assets -> ThreadPoints] /\ item \in [Assets -> ItemStatuses]
        BY <1>2 DEF Accounted
    <2> HIDE DEF IInv
    <2> USE <2>0, OldCardsGone, NoAssetFresh DEF OwnAsset, Ids
    <2>1. CASE Claim \/ PollAgain \/ EndMonitoring \/ RecordEvidence \/ FinalizeRefresh
        BY <1>2, <2>1 DEF Claim, PollAgain, EndMonitoring, RecordEvidence, FinalizeRefresh
    <2>2. CASE BeginMonitoring \/ NoticeCancel \/ MonitorFails
        BY <1>2, <2>2 DEF BeginMonitoring, NoticeCancel, MonitorFails, LeaveLoop
    <2>3. CASE DrainWave
        BY <1>2, <2>3 DEF DrainWave, LeaveLoop
    <2>4. ASSUME NEW a \in Assets, SubmitItem(a) PROVE OwnAsset'
        BY <1>2, <2>4 DEF SubmitItem
    <2>5. ASSUME NEW ts \in SUBSET Targets, Poll(ts) PROVE OwnAsset'
        BY <1>2, <2>5 DEF Poll
    <2>6. ASSUME NEW t \in Targets, NEW a \in Assets, QueueAsset(t, a) PROVE OwnAsset'
        BY <1>2, <2>6 DEF QueueAsset
    <2>7. ASSUME NEW t \in Targets, NEW a \in Assets, QueueAssetFails(t, a) PROVE OwnAsset'
        BY <1>2, <2>7 DEF QueueAssetFails
    <2>8. ASSUME NEW changed \in BOOLEAN, PersistProgress(changed) PROVE OwnAsset'
        BY <1>2, <2>8 DEF PersistProgress
    <2>9. ASSUME NEW outcome, FinishRun(outcome) PROVE OwnAsset'
        BY <1>2, <2>9 DEF FinishRun
    <2>10. CASE FinishLost
        BY <1>2, <2>10 DEF FinishLost
    <2>11. CASE Worker
        BY <2>1, <2>2, <2>3, <2>4, <2>5, <2>6, <2>7, <2>8, <2>9, <2>10, <2>11
           DEF Worker, FinishEmpty, FinishCancelled, FinishFailed, FinishProcessed
    <2>12. ASSUME NEW a \in Assets, ItemThread(a) PROVE OwnAsset'
        <3> USE <2>12 DEF ItemFrame, Step, Mark
        <3>1. CASE BeginItem(a) \/ BeginBuild(a)
            BY <1>2, <3>1 DEF BeginItem, BeginBuild
        <3>2. CASE BuildSaves(a)
            BY <1>2, <3>2 DEF BuildSaves, Canonical
        <3>3. CASE RebindItem(a)
            <4>1. PICK x \in cards : HostOf[x] = HostOf[a] /\ itemAsset' = [itemAsset EXCEPT ![a] = x]
                BY <1>2, <3>3 DEF RebindItem
            <4>2. x \in {a} \cup OldCards
                BY <1>2, <4>1 DEF HostsDistinct
            <4> QED BY <1>2, <3>3, <4>1, <4>2 DEF RebindItem
        <3>4. CASE MarkSaved(a) \/ DecideRemoval(a) \/ RemoveAsset(a)
            BY <1>2, <3>4 DEF MarkSaved, DecideRemoval, RemoveAsset
        <3>5. CASE RecordRemoval(a)
            BY <1>2, <3>5 DEF RecordRemoval
        <3>6. CASE CompleteItem(a) \/ FailItem(a) \/ CancelItem(a)
            BY <1>2, <3>6 DEF CompleteItem, FailItem, CancelItem
        <3> QED BY <3>1, <3>2, <3>3, <3>4, <3>5, <3>6 DEF ItemThread
    <2>13. CASE (\E t \in Targets : JobSucceeds(t)) \/ \E a \in Assets : RemovalTakesEffect(a)
        BY <1>2, <2>13 DEF JobSucceeds, RemovalTakesEffect
    <2>14. CASE RequestCancel \/ SignalCancel \/ UNCHANGED vars
        BY <1>2, <2>14 DEF RequestCancel, SignalCancel, vars
    <2>15. CASE Crash \/ LateRecovery
        <3>1. \A a \in Assets : item'[a] = "completed" => item[a] = "completed"
            BY <1>2, <2>15 DEF Crash, LateRecovery, ReleaseLeases
        <3>2. CASE Crash
            BY <1>2, <3>1, <3>2 DEF Crash
        <3>3. CASE LateRecovery
            BY <1>2, <3>1, <3>3 DEF LateRecovery
        <3> QED BY <2>15, <3>2, <3>3
    <2> QED BY <1>2, <2>11, <2>12, <2>13, <2>14, <2>15 DEF Next, Finished
<1> HIDE DEF IInv, Accounted, OwnAsset
<1> QED BY <1>1, <1>2, AccountedAlways, InvariantIsInductive, PTL DEF Spec

\* A run that is reported as completed has given up no target and left no item unsettled:
\* the wave is drained, and every stored item went through it, also after a crash.
THEOREM CompletedRunsAreWhole == Spec => []CompletedMeansEveryItem
<1>1. Accounted => CompletedMeansEveryItem
    BY DEF Accounted, CompletedMeansEveryItem
<1> HIDE DEF Accounted, CompletedMeansEveryItem
<1> QED BY <1>1, AccountedAlways, PTL

\* When no two assets count as one host, an item that is completed names an asset that MP VM
\* no longer has, although a rebind and a crash may have given it the id of an older card.
THEOREM CompletionTrue == ASSUME HostsDistinct PROVE Spec => []CompletionIsTrue
<1>1. OwnAsset => CompletedItemIsRemoved
    BY DEF OwnAsset, CompletedItemIsRemoved, Completed
<1> HIDE DEF OwnAsset, CompletedItemIsRemoved, CompletedMeansEveryItem
<1> QED BY <1>1, OwnAssetAlways, CompletedRunsAreWhole, PTL DEF CompletionIsTrue
=============================================================================

------------------------- MODULE ScannerTasksProofs -------------------------
(* ScannerTasks implements KeyedLaunch for every set of requests and keys, *)
(* keeps its types, and never loses a precheck task from view.             *)
EXTENDS ScannerTasks, TLAPS

Before == {"idle", "sync_remote", "sync_local", "validate", "precheck", "record",
           "checking", "narrow_remote", "narrow_local", "accept"}
Holding == {"start", "started", "start_failed", "delete_remote", "list",
            "drop_children", "drop_task"}
Cleaning == {"clean", "clean_row"}
Ended == {"answered", "unrecorded", "lost"}

(* What a key and an answer say about the step of the request.             *)
KeyInv ==
    /\ claim \in [Keys -> Keyed \cup {None}]
    /\ pc \in [Requests -> Steps]
    /\ reply \in [Keyed -> Keyed \cup {None, Failed}]
    /\ scans \subseteq Starts
    /\ \A r \in Keyed :
         /\ pc[r] \in Holding => claim[KeyOf[r]] = r
         /\ pc[r] \in Cleaning /\ r \in Deletes => claim[KeyOf[r]] = r
         /\ pc[r] \notin Ended => reply[r] = None
         /\ r \in scans => pc[r] \in {"started", "start_failed"} \cup Ended

keyedVars == <<claim, scans, reply>>

LEMMA KeyTypes == ASSUME KeyInv, NEW r \in Keyed PROVE
    /\ KeyOf[r] \in Keys /\ r \in Requests
    /\ r # None /\ r # Failed
  BY TasksAssumption DEF Keyed, Requests, KeyInv

(* A step that moves one request on and leaves keys, scans and answers.    *)
LEMMA MoveStep ==
  ASSUME KeyInv, NEW r \in Requests, NEW l \in Steps,
         pc' = [pc EXCEPT ![r] = l], UNCHANGED keyedVars,
         r \in Keyed =>
           /\ l \in Holding => claim[KeyOf[r]] = r
           /\ l \in Cleaning /\ r \in Deletes => claim[KeyOf[r]] = r
           /\ l \notin Ended => reply[r] = None
           /\ r \in scans => l \in {"started", "start_failed"} \cup Ended
  PROVE  KeyInv' /\ [Launch!Next]_keyedVars
<1>1. pc' \in [Requests -> Steps]
  BY DEF KeyInv
<1>2. \A q \in Keyed : q \in Requests
  BY DEF Keyed, Requests
<1>3. ASSUME NEW q \in Keyed
      PROVE  /\ pc'[q] \in Holding => claim'[KeyOf[q]] = q
             /\ pc'[q] \in Cleaning /\ q \in Deletes => claim'[KeyOf[q]] = q
             /\ pc'[q] \notin Ended => reply'[q] = None
             /\ q \in scans' => pc'[q] \in {"started", "start_failed"} \cup Ended
  <2>1. CASE q = r
    BY <1>2, <2>1 DEF KeyInv, keyedVars
  <2>2. CASE q # r
    BY <1>2, <2>2 DEF KeyInv, keyedVars
  <2> QED BY <2>1, <2>2
<1>4. KeyInv'
  BY <1>1, <1>3 DEF KeyInv, keyedVars
<1> QED BY <1>4

(* A step that ends a request with the holder of its key or a failure.     *)
LEMMA AnswerStep ==
  ASSUME KeyInv, NEW r \in Keyed, pc[r] \notin Ended,
         NEW l \in {"answered", "unrecorded"}, pc' = [pc EXCEPT ![r] = l],
         NEW a \in {claim[KeyOf[r]], Failed}, reply' = [reply EXCEPT ![r] = a],
         UNCHANGED <<claim, scans>>
  PROVE  KeyInv' /\ [Launch!Next]_keyedVars
<1>1. r \in Requests /\ KeyOf[r] \in Keys
  BY KeyTypes
<1>2. a \in Keyed \cup {None, Failed}
  BY <1>1 DEF KeyInv
<1>3. /\ pc' \in [Requests -> Steps]
      /\ reply' \in [Keyed -> Keyed \cup {None, Failed}]
  BY <1>2 DEF KeyInv, Steps
<1>4. \A q \in Keyed : q \in Requests
  BY DEF Keyed, Requests
<1>5. ASSUME NEW q \in Keyed
      PROVE  /\ pc'[q] \in Holding => claim'[KeyOf[q]] = q
             /\ pc'[q] \in Cleaning /\ q \in Deletes => claim'[KeyOf[q]] = q
             /\ pc'[q] \notin Ended => reply'[q] = None
             /\ q \in scans' => pc'[q] \in {"started", "start_failed"} \cup Ended
  <2>1. CASE q = r
    BY <1>1, <2>1 DEF KeyInv, Holding, Cleaning, Ended
  <2>2. CASE q # r
    BY <1>4, <2>2 DEF KeyInv
  <2> QED BY <2>1, <2>2
<1>6. KeyInv'
  BY <1>3, <1>5 DEF KeyInv
<1>7. reply[r] = None
  BY DEF KeyInv
<1>8. Launch!Reply(r)
  BY <1>7 DEF Launch!Reply
<1> QED BY <1>6, <1>8 DEF Launch!Next

(* Refuse ends a keyed request with a failure and any other one silently.  *)
LEMMA RefuseStep ==
  ASSUME KeyInv, NEW r \in Requests, pc[r] \notin Ended, Refuse(r), UNCHANGED <<claim, scans>>
  PROVE  KeyInv' /\ [Launch!Next]_keyedVars
<1>1. CASE r \in Keyed
  BY <1>1, AnswerStep DEF Refuse, Goto
<1>2. CASE r \notin Keyed
  BY <1>2, MoveStep DEF Refuse, Goto, keyedVars, Steps
<1> QED BY <1>1, <1>2

(* A request without the key waits for it; the claim writes both.          *)
LEMMA ClaimStep ==
  ASSUME KeyInv, NEW r \in Keyed, pc[r] \in Before \cup {"register"},
         claim[KeyOf[r]] = None, claim' = [claim EXCEPT ![KeyOf[r]] = r],
         NEW l \in Steps \ Ended, pc' = [pc EXCEPT ![r] = l],
         UNCHANGED <<scans, reply>>
  PROVE  KeyInv' /\ [Launch!Next]_keyedVars
<1>1. r \in Requests /\ KeyOf[r] \in Keys /\ r # None
  BY KeyTypes
<1>2. /\ pc' \in [Requests -> Steps]
      /\ claim' \in [Keys -> Keyed \cup {None}]
  BY DEF KeyInv
<1>3. r \notin scans
  BY DEF KeyInv, Before, Ended
<1>4. ASSUME NEW q \in Keyed
      PROVE  /\ pc'[q] \in Holding => claim'[KeyOf[q]] = q
             /\ pc'[q] \in Cleaning /\ q \in Deletes => claim'[KeyOf[q]] = q
             /\ pc'[q] \notin Ended => reply'[q] = None
             /\ q \in scans' => pc'[q] \in {"started", "start_failed"} \cup Ended
  <2>0. q \in Requests /\ KeyOf[q] \in Keys /\ q # None
    BY KeyTypes
  <2>1. CASE q = r
    BY <1>1, <1>3, <2>1 DEF KeyInv, Before, Ended
  <2>2. CASE q # r
    <3>1. CASE KeyOf[q] = KeyOf[r]
      BY <1>1, <2>0, <2>2, <3>1 DEF KeyInv
    <3>2. CASE KeyOf[q] # KeyOf[r]
      BY <1>1, <2>0, <2>2, <3>2 DEF KeyInv
    <3> QED BY <3>1, <3>2
  <2> QED BY <2>1, <2>2
<1>5. KeyInv'
  BY <1>2, <1>4 DEF KeyInv
<1>6. Launch!Claim(r)
  BY DEF Launch!Claim
<1> QED BY <1>5, <1>6 DEF Launch!Next

(* Claiming, starting and answering are the only ways to touch the key,    *)
(* the scans and the answers: every step of a request keeps KeyInv and is  *)
(* a step of KeyedLaunch or leaves its variables alone.                    *)
LEMMA LaunchKeeps ==
  ASSUME KeyInv, NEW r \in Starts, LaunchStep(r)
  PROVE  KeyInv' /\ [Launch!Next]_keyedVars
<1>1. r \in Keyed /\ r \in Requests /\ r \notin Deletes /\ KeyOf[r] \in Keys /\ r # None
  BY TasksAssumption, KeyTypes DEF Keyed, Requests
<1>2. pc[r] \in Before => r \notin scans /\ reply[r] = None /\ pc[r] \notin Ended
  BY <1>1 DEF KeyInv, Before, Ended
<1> USE DEF keyVars
<1>3. CASE ReplayLaunch(r)
  BY <1>1, <1>2, <1>3, AnswerStep DEF ReplayLaunch, Answer, Goto, Before, keyedVars
<1>4. CASE BeginLaunch(r)
  <2>1. CASE local.row
    BY <1>1, <1>2, <1>4, <2>1, MoveStep
    DEF BeginLaunch, Goto, Before, Holding, Cleaning, Ended, Steps, keyedVars
  <2>2. CASE ~local.row
    BY <1>1, <1>2, <1>4, <2>2, RefuseStep DEF BeginLaunch, Before
  <2> QED BY <2>1, <2>2
<1>5. CASE \E at \in {"sync_remote", "narrow_remote"}, next \in {"sync_local", "narrow_local"} :
             WriteRemote(r, at, next)
  <2> PICK at \in {"sync_remote", "narrow_remote"}, next \in {"sync_local", "narrow_local"} :
             WriteRemote(r, at, next)
    BY <1>5
  <2>1. CASE Refuse(r)
    BY <1>1, <1>2, <2>1, RefuseStep DEF WriteRemote, Before
  <2>2. CASE Goto(r, next) /\ UNCHANGED reply
    BY <1>1, <1>2, <2>2, MoveStep
    DEF WriteRemote, Goto, Before, Holding, Cleaning, Ended, Steps, keyedVars
  <2> QED BY <2>1, <2>2 DEF WriteRemote
<1>6. CASE \E at \in {"sync_local", "narrow_local"}, next \in {"validate", "accept"} :
             RecordTask(r, at, next)
  BY <1>1, <1>2, <1>6, MoveStep
  DEF RecordTask, Goto, Before, Holding, Cleaning, Ended, Steps, keyedVars
<1>7. CASE Validate(r)
  <2>1. CASE Refuse(r)
    BY <1>1, <1>2, <1>7, <2>1, RefuseStep DEF Validate, Before
  <2>2. CASE Goto(r, "precheck") /\ UNCHANGED reply
    BY <1>1, <1>2, <1>7, <2>2, MoveStep
    DEF Validate, Goto, Before, Holding, Cleaning, Ended, Steps, keyedVars
  <2> QED BY <1>7, <2>1, <2>2 DEF Validate
<1>8. CASE CreatePrecheck(r)
  <2>1. CASE Refuse(r)
    BY <1>1, <1>2, <1>8, <2>1, RefuseStep DEF CreatePrecheck, Before
  <2>2. CASE Goto(r, "record") /\ UNCHANGED reply
    BY <1>1, <1>2, <1>8, <2>2, MoveStep
    DEF CreatePrecheck, Goto, Before, Holding, Cleaning, Ended, Steps, keyedVars
  <2> QED BY <1>8, <2>1, <2>2 DEF CreatePrecheck, CreateTask
<1>9. CASE SkipPrecheck(r)
  BY <1>1, <1>2, <1>9, MoveStep
  DEF SkipPrecheck, Goto, Before, Holding, Cleaning, Ended, Steps, keyedVars
<1>10. CASE Accept(r)
  <2>1. CASE claim[KeyOf[r]] = None
    BY <1>1, <1>2, <1>10, <2>1, ClaimStep DEF Accept, Goto, Before, Ended, Steps
  <2>2. CASE claim[KeyOf[r]] # None
    BY <1>1, <1>2, <1>10, <2>2, RefuseStep DEF Accept, Before
  <2> QED BY <2>1, <2>2
<1>11. CASE StartScan(r)
  <2>1. pc[r] = "start" /\ claim[KeyOf[r]] = r /\ r \notin scans /\ reply[r] = None
    BY <1>1, <1>11 DEF StartScan, KeyInv, Holding, Ended
  <2>2. CASE UNCHANGED scans
    BY <1>1, <1>11, <2>1, <2>2, MoveStep
    DEF StartScan, Goto, Holding, Cleaning, Ended, Steps, keyedVars
  <2>3. CASE scans' = scans \cup {r}
    <3>1. Launch!Start(r)
      BY <1>11, <2>1, <2>3 DEF StartScan, Launch!Start
    <3>2. PICK l \in {"started", "start_failed"} : pc' = [pc EXCEPT ![r] = l]
      BY <1>11, <2>3 DEF StartScan, Goto
    <3>3. pc' \in [Requests -> Steps] /\ claim' = claim /\ reply' = reply
      BY <1>11, <3>2 DEF StartScan, KeyInv, Steps
    <3>4. ASSUME NEW q \in Keyed
          PROVE  /\ pc'[q] \in Holding => claim'[KeyOf[q]] = q
                 /\ pc'[q] \in Cleaning /\ q \in Deletes => claim'[KeyOf[q]] = q
                 /\ pc'[q] \notin Ended => reply'[q] = None
                 /\ q \in scans' => pc'[q] \in {"started", "start_failed"} \cup Ended
      <4>0. q \in Requests
        BY DEF Keyed, Requests
      <4>1. CASE q = r
        BY <1>1, <2>1, <3>2, <3>3, <4>1 DEF KeyInv
      <4>2. CASE q # r
        BY <2>3, <3>2, <3>3, <4>0, <4>2 DEF KeyInv
      <4> QED BY <4>1, <4>2
    <3>5. KeyInv'
      BY <2>3, <3>3, <3>4 DEF KeyInv
    <3> QED BY <1>1, <3>1, <3>5 DEF Launch!Next
  <2> QED BY <1>11, <2>2, <2>3 DEF StartScan
<1>12. CASE FinishLaunch(r)
  <2>1. CASE pc[r] = "started" /\ Answer(r, claim[KeyOf[r]])
    BY <1>1, <1>12, <2>1, AnswerStep DEF FinishLaunch, Answer, Goto, Ended, keyedVars
  <2>2. CASE pc[r] = "start_failed" /\ Refuse(r)
    BY <1>1, <1>12, <2>2, RefuseStep DEF FinishLaunch, Ended
  <2> QED BY <1>12, <2>1, <2>2 DEF FinishLaunch
<1> QED
  BY <1>3, <1>4, <1>5, <1>6, <1>7, <1>8, <1>9, <1>10, <1>11, <1>12 DEF LaunchStep

LEMMA CreatorKeeps ==
  ASSUME KeyInv, NEW r \in Creators,
         (BeginRetry(r) /\ r \in Retries) \/ RecordPrecheck(r) \/ PrecheckEnds(r)
  PROVE  KeyInv' /\ [Launch!Next]_keyedVars
<1>1. r \in Requests /\ r \notin Deletes
  BY TasksAssumption DEF Creators, Requests
<1>2. r \in Keyed /\ pc[r] \in Before => r \notin scans /\ reply[r] = None
  BY DEF KeyInv, Before, Ended
<1>3. CASE BeginRetry(r) /\ r \in Retries
  <2>1. r \notin Keyed
    BY <1>3, TasksAssumption DEF Keyed
  <2>2. CASE Refuse(r)
    BY <1>1, <1>3, <2>2, RefuseStep DEF BeginRetry, Ended
  <2>3. CASE Goto(r, "record") /\ UNCHANGED reply
    BY <1>1, <1>3, <2>1, <2>3, MoveStep DEF BeginRetry, Goto, Steps, keyedVars
  <2> QED BY <1>3, <2>2, <2>3 DEF BeginRetry, CreateTask
<1>4. CASE RecordPrecheck(r)
  <2>1. CASE Goto(r, "checking") /\ UNCHANGED reply
    BY <1>1, <1>2, <1>4, <2>1, MoveStep
    DEF RecordPrecheck, Goto, Before, Holding, Cleaning, Ended, Steps, keyedVars
  <2>2. CASE Goto(r, "unrecorded") /\ r \in Keyed /\ reply' = [reply EXCEPT ![r] = Failed]
    BY <1>4, <2>2, AnswerStep DEF RecordPrecheck, Goto, Ended, keyedVars
  <2>3. CASE Goto(r, "unrecorded") /\ r \notin Keyed /\ reply' = reply
    BY <1>1, <1>4, <2>3, MoveStep DEF RecordPrecheck, Goto, Steps, keyedVars
  <2> QED BY <1>4, <2>1, <2>2, <2>3 DEF RecordPrecheck
<1>5. CASE PrecheckEnds(r)
  <2>1. CASE Refuse(r)
    BY <1>1, <1>5, <2>1, RefuseStep DEF PrecheckEnds, Reachable, Ended
  <2>2. CASE Goto(r, "narrow_remote") /\ UNCHANGED reply
    BY <1>1, <1>2, <1>5, <2>2, MoveStep
    DEF PrecheckEnds, Reachable, Goto, Before, Holding, Cleaning, Ended, Steps, keyedVars
  <2> QED BY <1>5, <2>1, <2>2 DEF PrecheckEnds, Reachable
<1> QED BY <1>3, <1>4, <1>5

LEMMA SaveKeeps ==
  ASSUME KeyInv, NEW r \in Saves, SaveStep(r)
  PROVE  KeyInv' /\ [Launch!Next]_keyedVars
<1>1. r \in Requests /\ r \notin Keyed
  BY TasksAssumption DEF Requests, Keyed
<1>2. CASE BeginSave(r) \/ RecordTask(r, "save_local", "answered")
  BY <1>1, <1>2, MoveStep DEF BeginSave, Payloads, RecordTask, Goto, Steps, keyVars, keyedVars
<1>3. CASE WriteRemote(r, "save_remote", "save_local")
  <2>1. CASE Refuse(r)
    BY <1>1, <1>3, <2>1, RefuseStep DEF WriteRemote, Ended
  <2>2. CASE Goto(r, "save_local") /\ UNCHANGED reply
    BY <1>1, <1>3, <2>2, MoveStep DEF WriteRemote, Goto, Steps, keyedVars
  <2> QED BY <1>3, <2>1, <2>2 DEF WriteRemote
<1> QED BY <1>2, <1>3 DEF SaveStep

LEMMA DeleteKeeps ==
  ASSUME KeyInv, NEW r \in Deletes, DeleteStep(r)
  PROVE  KeyInv' /\ [Launch!Next]_keyedVars
<1>1. r \in Keyed /\ r \in Requests /\ r \notin Starts /\ KeyOf[r] \in Keys /\ r # None
  BY TasksAssumption, KeyTypes DEF Keyed, Requests
<1>2. r \notin scans
  BY <1>1 DEF KeyInv
<1>3. pc[r] \notin Ended => reply[r] = None
  BY <1>1 DEF KeyInv
<1>4. pc[r] \in Holding \cup Cleaning => claim[KeyOf[r]] = r
  BY <1>1 DEF KeyInv
<1> USE DEF keyVars
<1>5. CASE BeginDelete(r)
  <2>1. CASE Refuse(r)
    BY <1>1, <1>5, <2>1, RefuseStep DEF BeginDelete, Ended
  <2>2. CASE Goto(r, "register") /\ UNCHANGED reply
    BY <1>1, <1>2, <1>3, <1>5, <2>2, MoveStep
    DEF BeginDelete, Goto, Holding, Cleaning, Ended, Steps, keyedVars
  <2>3. CASE Answer(r, claim[KeyOf[r]])
    BY <1>1, <1>5, <2>3, AnswerStep DEF BeginDelete, Answer, Goto, Ended, keyedVars
  <2> QED BY <1>5, <2>1, <2>2, <2>3 DEF BeginDelete
<1>6. CASE RegisterDelete(r)
  <2>1. CASE claim[KeyOf[r]] = None
    <3>1. PICK l \in {"drop_children", "delete_remote"} : pc' = [pc EXCEPT ![r] = l]
      BY <1>6, <2>1 DEF RegisterDelete, Goto
    <3> QED BY <1>1, <1>6, <2>1, <3>1, ClaimStep DEF RegisterDelete, Ended, Steps
  <2>2. CASE claim[KeyOf[r]] # None
    BY <1>1, <1>6, <2>2, RefuseStep DEF RegisterDelete, Ended
  <2> QED BY <2>1, <2>2
<1>7. CASE DeleteRemote(r)
  <2>1. CASE Refuse(r)
    BY <1>1, <1>7, <2>1, RefuseStep DEF DeleteRemote, Ended
  <2>2. CASE Goto(r, "list") /\ UNCHANGED reply
    BY <1>1, <1>2, <1>3, <1>4, <1>7, <2>2, MoveStep
    DEF DeleteRemote, Goto, Holding, Cleaning, Ended, Steps, keyedVars
  <2> QED BY <1>7, <2>1, <2>2 DEF DeleteRemote
<1>8. CASE DropChildren(r)
  BY <1>1, <1>2, <1>3, <1>4, <1>8, MoveStep
  DEF DropChildren, Goto, Holding, Cleaning, Ended, Steps, keyedVars
<1>9. CASE DropTask(r)
  <2>1. r = claim[KeyOf[r]]
    BY <1>4, <1>9 DEF DropTask, Holding
  <2> QED BY <1>1, <1>9, <2>1, AnswerStep DEF DropTask, Answer, Goto, Ended, keyedVars
<1> QED BY <1>5, <1>6, <1>7, <1>8, <1>9 DEF DeleteStep

LEMMA CleanKeeps ==
  ASSUME KeyInv, NEW r \in Deletes \cup Sweeps, CleanStep(r)
  PROVE  KeyInv' /\ [Launch!Next]_keyedVars
<1>1. r \in Requests /\ r \notin Starts
  BY TasksAssumption DEF Requests
<1>2. r \in Keyed => r \in Deletes /\ r \notin scans
  BY <1>1 DEF KeyInv, Keyed
<1>3. r \in Keyed /\ pc[r] \notin Ended => reply[r] = None
  BY DEF KeyInv
<1>4. r \in Keyed /\ pc[r] \in Holding \cup Cleaning => claim[KeyOf[r]] = r
  BY <1>2 DEF KeyInv
<1>5. r \notin Deletes => r \notin Keyed
  BY <1>1 DEF Keyed
<1>6. r \in Deletes => r \notin Sweeps
  BY TasksAssumption
<1> USE DEF keyVars
<1>7. CASE ListChildren(r)
  BY <1>1, <1>2, <1>3, <1>4, <1>6, <1>7, MoveStep
  DEF ListChildren, Goto, Holding, Cleaning, Ended, Steps, keyedVars
<1>8. CASE CleanRemote(r)
  <2>1. CASE Goto(r, "clean_row")
    BY <1>1, <1>2, <1>3, <1>4, <1>8, <2>1, MoveStep
    DEF CleanRemote, Goto, Holding, Cleaning, Ended, Steps, keyedVars
  <2>2. CASE UNCHANGED pc
    BY <1>8, <2>2 DEF CleanRemote, KeyInv, keyedVars
  <2> QED BY <1>8, <2>1, <2>2 DEF CleanRemote
<1>9. CASE CleanRow(r)
  BY <1>1, <1>2, <1>3, <1>4, <1>9, MoveStep
  DEF CleanRow, Goto, Holding, Cleaning, Ended, Steps, keyedVars
<1>10. CASE Cleaned(r)
  BY <1>1, <1>2, <1>3, <1>4, <1>5, <1>10, MoveStep
  DEF Cleaned, Goto, Holding, Cleaning, Ended, Steps, keyedVars
<1> QED BY <1>7, <1>8, <1>9, <1>10 DEF CleanStep

LEMMA CrashKeeps ==
  ASSUME KeyInv, Crash
  PROVE  KeyInv' /\ [Launch!Next]_keyedVars
<1>1. /\ \A r \in Requests : pc'[r] \in {"idle"} \cup Ended
      /\ \A r \in Requests : pc[r] \in Ended => pc'[r] \in Ended
      /\ \A r \in Requests : pc'[r] = "idle" => pc[r] = "idle"
      /\ pc' = [r \in Requests |-> pc'[r]]
  BY DEF Crash, Ended
<1>2. pc' \in [Requests -> Steps]
  BY <1>1 DEF Ended, Steps
<1>3. \A r \in Keyed : r \in Requests
  BY DEF Keyed, Requests
<1>4. UNCHANGED keyedVars
  BY DEF Crash, keyVars, keyedVars
<1>5. KeyInv'
  BY <1>1, <1>2, <1>3, <1>4 DEF KeyInv, keyedVars, Holding, Cleaning, Ended
<1> QED BY <1>4, <1>5

LEMMA KeyedStep == ASSUME KeyInv, [Next]_vars PROVE KeyInv' /\ [Launch!Next]_keyedVars
<1>1. CASE UNCHANGED vars
  BY <1>1 DEF vars, KeyInv, keyedVars
<1>2. CASE Crash
  BY <1>2, CrashKeeps
<1>3. ASSUME NEW r \in Requests, Progress(r)
      PROVE  KeyInv' /\ [Launch!Next]_keyedVars
  BY <1>3, LaunchKeeps, CreatorKeeps, SaveKeeps, DeleteKeeps, CleanKeeps DEF Progress, Creators
<1> QED BY <1>1, <1>2, <1>3 DEF Next

(* Every launch and deletion obeys its idempotency key: the scanner task   *)
(* component implements KeyedLaunch.                                       *)
THEOREM LaunchesAreKeyed == Spec => LaunchesKeyed
<1>1. Init => KeyInv /\ Launch!Init
  BY TasksAssumption DEF Init, KeyInv, Launch!Init, Keyed, Requests, Steps, Holding, Cleaning, Ended
<1>2. KeyInv /\ [Next]_vars => KeyInv' /\ [Launch!Next]_keyedVars
  BY KeyedStep
<1>3. KeyInv /\ [Next]_vars => KeyInv' /\ [Launch!Next]_(Launch!vars)
  BY <1>2 DEF keyedVars, Launch!vars
<1> QED BY <1>1, <1>3, PTL DEF Spec, LaunchesKeyed, Launch!Spec

(* The holder of a key has its run row, and every scan and every success   *)
(* belong to the holder of their key.                                      *)
TrackInv ==
    /\ \A k \in Keys : claim[k] \in Starts => claim[k] \in runs
    /\ \A r \in scans : claim[KeyOf[r]] = r
    /\ \A r \in Keyed : reply[r] \in {None, Failed, claim[KeyOf[r]]}

LEMMA ClaimsKeepRuns ==
  ASSUME KeyInv, TrackInv, [Next]_vars
  PROVE  \A k \in Keys : claim'[k] \in Starts => claim'[k] \in runs'
<1>1. CASE UNCHANGED <<claim, runs>>
  BY <1>1 DEF TrackInv
<1>2. ASSUME NEW r \in Starts, Accept(r)
      PROVE  \A k \in Keys : claim'[k] \in Starts => claim'[k] \in runs'
  BY <1>2 DEF Accept, TrackInv, KeyInv
<1>3. ASSUME NEW r \in Deletes, RegisterDelete(r)
      PROVE  \A k \in Keys : claim'[k] \in Starts => claim'[k] \in runs'
  BY <1>3, TasksAssumption DEF RegisterDelete, TrackInv, KeyInv
<1>4. ASSUME NEW r \in Requests, Progress(r)
      PROVE  \/ UNCHANGED <<claim, runs>>
             \/ r \in Starts /\ Accept(r)
             \/ r \in Deletes /\ RegisterDelete(r)
  BY <1>4 DEF Progress, LaunchStep, SaveStep, DeleteStep, CleanStep, ReplayLaunch, BeginLaunch,
     WriteRemote, RecordTask, Validate, CreatePrecheck, SkipPrecheck, StartScan, FinishLaunch,
     BeginRetry, RecordPrecheck, PrecheckEnds, BeginSave, BeginDelete, DeleteRemote,
     DropChildren, DropTask, ListChildren, CleanRemote, CleanRow, Cleaned, keyVars
<1>5. CASE Crash
  BY <1>1, <1>5 DEF Crash, keyVars
<1>6. CASE UNCHANGED vars
  BY <1>1, <1>6 DEF vars
<1> QED BY <1>1, <1>2, <1>3, <1>4, <1>5, <1>6 DEF Next

LEMMA TrackStep == ASSUME KeyInv, TrackInv, [Next]_vars PROVE TrackInv'
<1>1. [Launch!Next]_keyedVars
  BY KeyedStep
<1>2. \A r \in Keyed : KeyOf[r] \in Keys /\ r # None /\ r # Failed
  BY KeyTypes
<1>3. \A r \in scans : r \in Keyed
  BY DEF KeyInv, Keyed
<1>4. CASE UNCHANGED keyedVars
  BY <1>4, ClaimsKeepRuns DEF TrackInv, keyedVars
<1>5. ASSUME NEW r \in Keyed, Launch!Claim(r)
      PROVE  TrackInv'
  <2>1. \A q \in scans' : claim'[KeyOf[q]] = q
    BY <1>2, <1>3, <1>5 DEF TrackInv, KeyInv, Launch!Claim
  <2>2. \A q \in Keyed : reply'[q] \in {None, Failed, claim'[KeyOf[q]]}
    BY <1>2, <1>5 DEF TrackInv, KeyInv, Launch!Claim
  <2> QED BY <2>1, <2>2, ClaimsKeepRuns DEF TrackInv
<1>6. ASSUME NEW r \in Keyed, Launch!Start(r)
      PROVE  TrackInv'
  BY <1>6, ClaimsKeepRuns DEF TrackInv, Launch!Start
<1>7. ASSUME NEW r \in Keyed, Launch!Reply(r)
      PROVE  TrackInv'
  BY <1>7, ClaimsKeepRuns DEF TrackInv, KeyInv, Launch!Reply
<1> QED BY <1>1, <1>4, <1>5, <1>6, <1>7 DEF Launch!Next

(* A scan that MP VM accepted, and every launch answered with success,     *)
(* has its run row, whatever was lost, repeated or deleted meanwhile.      *)
THEOREM ScansAreTracked == Spec => []StartedScanIsTracked
<1>1. Init => KeyInv /\ TrackInv
  BY TasksAssumption
  DEF Init, KeyInv, TrackInv, Keyed, Requests, Steps, Holding, Cleaning, Ended
<1>2. KeyInv /\ TrackInv /\ [Next]_vars => KeyInv' /\ TrackInv'
  BY KeyedStep, TrackStep
<1>3. KeyInv /\ TrackInv => StartedScanIsTracked
  <2> SUFFICES ASSUME KeyInv, TrackInv PROVE StartedScanIsTracked
    OBVIOUS
  <2>1. \A r \in Starts : r \in Keyed /\ KeyOf[r] \in Keys /\ r # None /\ r # Failed
    BY KeyTypes DEF Keyed
  <2>2. scans \subseteq runs
    BY <2>1 DEF TrackInv, KeyInv
  <2>3. \A r \in Starts : reply[r] \in Starts => reply[r] \in runs
    BY <2>1 DEF TrackInv
  <2> QED BY <2>2, <2>3 DEF StartedScanIsTracked
<1> QED BY <1>1, <1>2, <1>3, PTL DEF Spec

(* Every step leaves the state well typed, with CHOOSE among the rows that *)
(* a cleanup still has to visit.                                           *)
LEMMA TypeStart == Init => TypeOK
  BY TasksAssumption DEF Init, TypeOK, Keyed, Requests, Creators, Steps

Row == [remote : BOOLEAN, row : {"none", "live", "hidden", "dropped"}, missed : SUBSET Targets]

LEMMA RefuseTypes ==
  ASSUME TypeOK, NEW r \in Requests, Refuse(r)
  PROVE  pc' \in [Requests -> Steps] /\ reply' \in [Keyed -> Keyed \cup {None, Failed}]
<1>1. pc' \in [Requests -> Steps]
  BY DEF Refuse, Goto, TypeOK, Steps
<1>2. reply' \in [Keyed -> Keyed \cup {None, Failed}]
  BY DEF Refuse, TypeOK
<1> QED BY <1>1, <1>2

LEMMA GotoTypes ==
  ASSUME TypeOK, NEW r \in Requests, NEW l \in Steps, Goto(r, l)
  PROVE  pc' \in [Requests -> Steps]
  BY DEF Goto, TypeOK

LEMMA AnswerTypes ==
  ASSUME TypeOK, NEW r \in Keyed, NEW a \in Keyed \cup {None, Failed}, Answer(r, a)
  PROVE  pc' \in [Requests -> Steps] /\ reply' \in [Keyed -> Keyed \cup {None, Failed}]
<1>1. pc' \in [Requests -> Steps]
  BY DEF Answer, Goto, TypeOK, Keyed, Requests, Steps
<1>2. reply' \in [Keyed -> Keyed \cup {None, Failed}]
  BY DEF Answer, TypeOK
<1> QED BY <1>1, <1>2

LEMMA CfgTypes ==
  ASSUME TypeOK, NEW r \in Requests, NEW c \in SUBSET Targets, cfg' = [cfg EXCEPT ![r] = c]
  PROVE  cfg' \in [Requests -> SUBSET Targets]
  BY DEF TypeOK

(* One row of a precheck task changes in one field.                        *)
LEMMA RowTypes ==
  ASSUME TypeOK, NEW p \in Creators
  PROVE  /\ pre[p] \in Row
         /\ \A b \in BOOLEAN : [pre EXCEPT ![p].remote = b] \in [Creators -> Row]
         /\ \A w \in {"none", "live", "hidden", "dropped"} :
               [pre EXCEPT ![p].row = w] \in [Creators -> Row]
         /\ \A m \in SUBSET Targets : [pre EXCEPT ![p].missed = m] \in [Creators -> Row]
<1>1. pre \in [Creators -> Row]
  BY DEF TypeOK, Row
<1>2. pre[p] \in Row
  BY <1>1
<1>3. \A b \in BOOLEAN : [pre EXCEPT ![p].remote = b] \in [Creators -> Row]
  BY <1>1 DEF Row
<1>4. \A w \in {"none", "live", "hidden", "dropped"} :
         [pre EXCEPT ![p].row = w] \in [Creators -> Row]
  BY <1>1 DEF Row
<1>5. \A m \in SUBSET Targets : [pre EXCEPT ![p].missed = m] \in [Creators -> Row]
  BY <1>1 DEF Row
<1> QED BY <1>2, <1>3, <1>4, <1>5

LEMMA CreateTypes ==
  ASSUME TypeOK, NEW r \in Creators, NEW c \in SUBSET Targets, CreateTask(r, c)
  PROVE  /\ pre' \in [Creators -> Row] /\ cfg' \in [Requests -> SUBSET Targets]
         /\ pc' \in [Requests -> Steps] /\ reply' \in [Keyed -> Keyed \cup {None, Failed}]
<1>1. r \in Requests
  BY DEF Creators, Requests
<1>2. CASE Refuse(r) /\ UNCHANGED <<pre, cfg>>
  BY <1>1, <1>2, RefuseTypes DEF TypeOK, Row
<1>3. CASE /\ pre' = [pre EXCEPT ![r].remote = TRUE]
           /\ cfg' = [cfg EXCEPT ![r] = c]
           /\ Goto(r, "record") /\ UNCHANGED reply
  <2>1. pre' \in [Creators -> Row]
    BY <1>3, RowTypes
  <2>2. cfg' \in [Requests -> SUBSET Targets]
    BY <1>1, <1>3, CfgTypes
  <2>3. pc' \in [Requests -> Steps]
    BY <1>1, <1>3, GotoTypes DEF Steps
  <2> QED BY <1>3, <2>1, <2>2, <2>3 DEF TypeOK
<1> QED BY <1>2, <1>3 DEF CreateTask

LEMMA WriteTypes ==
  ASSUME TypeOK, NEW r \in Requests, NEW at \in Steps, NEW next \in Steps,
         WriteRemote(r, at, next) \/ RecordTask(r, at, next)
  PROVE  TypeOK'
<1>1. cfg[r] \in SUBSET Targets
  BY DEF TypeOK
<1>2. CASE WriteRemote(r, at, next)
  <2>1. remote' \in [exists : BOOLEAN, targets : SUBSET Targets]
    BY <1>1, <1>2 DEF WriteRemote, TypeOK
  <2>2. pc' \in [Requests -> Steps] /\ reply' \in [Keyed -> Keyed \cup {None, Failed}]
    BY <1>2, RefuseTypes, GotoTypes DEF WriteRemote, TypeOK
  <2> QED BY <1>2, <2>1, <2>2 DEF WriteRemote, TypeOK
<1>3. CASE RecordTask(r, at, next)
  <2>1. local' \in [row : BOOLEAN, targets : SUBSET Targets]
    BY <1>1, <1>3 DEF RecordTask
  <2>2. pc' \in [Requests -> Steps]
    BY <1>3, GotoTypes DEF RecordTask
  <2> QED BY <1>3, <2>1, <2>2 DEF RecordTask, TypeOK, keyVars
<1> QED BY <1>2, <1>3

LEMMA LaunchTypes ==
  ASSUME TypeOK, NEW r \in Starts, LaunchStep(r)
  PROVE  TypeOK'
<1>1. r \in Requests /\ r \in Keyed /\ r \in Creators /\ KeyOf[r] \in Keys
  BY TasksAssumption DEF Requests, Keyed, Creators
<1> USE DEF taskVars, keyVars
<1>2. CASE ReplayLaunch(r)
  <2>1. claim[KeyOf[r]] \in Keyed \cup {None, Failed}
    BY <1>1 DEF TypeOK
  <2>2. pc' \in [Requests -> Steps] /\ reply' \in [Keyed -> Keyed \cup {None, Failed}]
    BY <1>1, <1>2, <2>1, AnswerTypes DEF ReplayLaunch
  <2> QED BY <1>2, <2>2 DEF ReplayLaunch, TypeOK
<1>3. CASE BeginLaunch(r)
  <2>1. CASE local.row
    <3>1. local.targets \in SUBSET Targets
      BY DEF TypeOK
    <3>2. cfg' \in [Requests -> SUBSET Targets] /\ pc' \in [Requests -> Steps]
      BY <1>1, <1>3, <2>1, <3>1, CfgTypes, GotoTypes DEF BeginLaunch, Steps
    <3> QED BY <1>3, <2>1, <3>2 DEF BeginLaunch, TypeOK
  <2>2. CASE ~local.row
    <3>1. pc' \in [Requests -> Steps] /\ reply' \in [Keyed -> Keyed \cup {None, Failed}]
      BY <1>1, <1>3, <2>2, RefuseTypes DEF BeginLaunch
    <3> QED BY <1>3, <2>2, <3>1 DEF BeginLaunch, TypeOK
  <2> QED BY <2>1, <2>2
<1>4. CASE Validate(r)
  <2>1. pc' \in [Requests -> Steps] /\ reply' \in [Keyed -> Keyed \cup {None, Failed}]
    BY <1>1, <1>4, RefuseTypes, GotoTypes DEF Validate, Steps, TypeOK
  <2> QED BY <1>4, <2>1 DEF Validate, TypeOK
<1>5. CASE CreatePrecheck(r)
  <2>1. local.targets \in SUBSET Targets
    BY DEF TypeOK
  <2>2. /\ pre' \in [Creators -> Row] /\ cfg' \in [Requests -> SUBSET Targets]
        /\ pc' \in [Requests -> Steps] /\ reply' \in [Keyed -> Keyed \cup {None, Failed}]
    <3>1. CASE local.row
      BY <1>1, <1>5, <2>1, <3>1, CreateTypes DEF CreatePrecheck
    <3>2. CASE ~local.row
      BY <1>1, <1>5, <3>2, RefuseTypes DEF CreatePrecheck, TypeOK, Row
    <3> QED BY <3>1, <3>2
  <2> QED BY <1>5, <2>2 DEF CreatePrecheck, TypeOK, Row
<1>6. CASE SkipPrecheck(r)
  <2>1. pc' \in [Requests -> Steps]
    BY <1>1, <1>6, GotoTypes DEF SkipPrecheck, Steps
  <2> QED BY <1>6, <2>1 DEF SkipPrecheck, TypeOK
<1>7. CASE Accept(r)
  <2>1. CASE claim[KeyOf[r]] = None
    <3>1. pc' \in [Requests -> Steps]
      BY <1>1, <1>7, <2>1, GotoTypes DEF Accept, Steps
    <3>2. claim' \in [Keys -> Keyed \cup {None}] /\ runs' \in SUBSET Starts
      BY <1>1, <1>7, <2>1 DEF Accept, TypeOK
    <3> QED BY <1>7, <2>1, <3>1, <3>2 DEF Accept, TypeOK
  <2>2. CASE claim[KeyOf[r]] # None
    <3>1. pc' \in [Requests -> Steps] /\ reply' \in [Keyed -> Keyed \cup {None, Failed}]
      BY <1>1, <1>7, <2>2, RefuseTypes DEF Accept
    <3> QED BY <1>7, <2>2, <3>1 DEF Accept, TypeOK
  <2> QED BY <2>1, <2>2
<1>8. CASE StartScan(r)
  <2>1. pc' \in [Requests -> Steps]
    BY <1>1, <1>8, GotoTypes DEF StartScan, Steps
  <2>2. scans' \in SUBSET Starts
    BY <1>8 DEF StartScan, TypeOK
  <2> QED BY <1>8, <2>1, <2>2 DEF StartScan, TypeOK
<1>9. CASE FinishLaunch(r)
  <2>1. claim[KeyOf[r]] \in Keyed \cup {None, Failed}
    BY <1>1 DEF TypeOK
  <2>2. pc' \in [Requests -> Steps] /\ reply' \in [Keyed -> Keyed \cup {None, Failed}]
    BY <1>1, <1>9, <2>1, AnswerTypes, RefuseTypes DEF FinishLaunch
  <2> QED BY <1>9, <2>2 DEF FinishLaunch, TypeOK
<1>10. ASSUME NEW at \in Steps, NEW next \in Steps, WriteRemote(r, at, next)
       PROVE  TypeOK'
  BY <1>1, <1>10, WriteTypes
<1>11. ASSUME NEW at \in Steps, NEW next \in Steps, RecordTask(r, at, next)
       PROVE  TypeOK'
  BY <1>1, <1>11, WriteTypes
<1> QED
  BY <1>2, <1>3, <1>4, <1>5, <1>6, <1>7, <1>8, <1>9, <1>10, <1>11 DEF LaunchStep, Steps

LEMMA CreatorTypes ==
  ASSUME TypeOK, NEW r \in Creators,
         (BeginRetry(r) /\ r \in Retries) \/ RecordPrecheck(r) \/ PrecheckEnds(r)
  PROVE  TypeOK'
<1>1. r \in Requests /\ cfg[r] \in SUBSET Targets
  BY DEF TypeOK, Creators, Requests
<1> USE DEF taskVars
<1>2. CASE BeginRetry(r)
  <2>1. PICK p \in Creators : CreateTask(r, pre[p].missed)
    BY <1>2 DEF BeginRetry
  <2>2. pre[p].missed \in SUBSET Targets
    BY RowTypes DEF Row
  <2>3. /\ pre' \in [Creators -> Row] /\ cfg' \in [Requests -> SUBSET Targets]
        /\ pc' \in [Requests -> Steps] /\ reply' \in [Keyed -> Keyed \cup {None, Failed}]
    BY <2>1, <2>2, CreateTypes
  <2> QED BY <1>2, <2>3 DEF BeginRetry, TypeOK, Row
<1>3. CASE RecordPrecheck(r)
  <2>1. pre' \in [Creators -> Row]
    <3>1. CASE pre' = [pre EXCEPT ![r].row = "live"]
      BY <3>1, RowTypes
    <3>2. CASE UNCHANGED pre
      BY <3>2 DEF TypeOK, Row
    <3> QED BY <1>3, <3>1, <3>2 DEF RecordPrecheck
  <2>2. pc' \in [Requests -> Steps]
    BY <1>1, <1>3, GotoTypes DEF RecordPrecheck, Steps
  <2>3. reply' \in [Keyed -> Keyed \cup {None, Failed}]
    BY <1>3 DEF RecordPrecheck, TypeOK
  <2> QED BY <1>3, <2>1, <2>2, <2>3 DEF RecordPrecheck, TypeOK, Row
<1>4. CASE PrecheckEnds(r)
  <2>1. CASE Refuse(r) /\ UNCHANGED <<pre, cfg>>
    <3>1. pc' \in [Requests -> Steps] /\ reply' \in [Keyed -> Keyed \cup {None, Failed}]
      BY <1>1, <2>1, RefuseTypes
    <3> QED BY <1>4, <2>1, <3>1 DEF PrecheckEnds, TypeOK
  <2>2. ASSUME NEW reached \in Reachable(r),
               pre' = [pre EXCEPT ![r].missed = IF @ = {} THEN cfg[r] \ reached ELSE @],
               IF reached # {} /\ r \in Starts
                 THEN Goto(r, "narrow_remote") /\ cfg' = [cfg EXCEPT ![r] = reached] /\ UNCHANGED reply
                 ELSE Refuse(r) /\ UNCHANGED cfg
        PROVE  TypeOK'
    <3>0. reached \in SUBSET Targets
      BY <1>1 DEF Reachable
    <3>1. pre' \in [Creators -> Row]
      <4> DEFINE m == IF pre[r].missed = {} THEN cfg[r] \ reached ELSE pre[r].missed
      <4>1. m \in SUBSET Targets
        BY <1>1, RowTypes DEF Row
      <4>2. pre' = [pre EXCEPT ![r].missed = m]
        BY <2>2
      <4> HIDE DEF m
      <4> QED BY <4>1, <4>2, RowTypes
    <3>2. CASE reached # {} /\ r \in Starts
      <4>1. cfg' \in [Requests -> SUBSET Targets]
        BY <1>1, <2>2, <3>0, <3>2, CfgTypes
      <4>2. pc' \in [Requests -> Steps]
        BY <1>1, <2>2, <3>2, GotoTypes DEF Steps
      <4> QED BY <1>4, <2>2, <3>1, <3>2, <4>1, <4>2 DEF PrecheckEnds, TypeOK, Row
    <3>3. CASE ~(reached # {} /\ r \in Starts)
      <4>1. pc' \in [Requests -> Steps] /\ reply' \in [Keyed -> Keyed \cup {None, Failed}]
        BY <1>1, <2>2, <3>3, RefuseTypes
      <4> QED BY <1>4, <2>2, <3>1, <3>3, <4>1 DEF PrecheckEnds, TypeOK, Row
    <3> QED BY <3>2, <3>3
  <2> QED BY <1>4, <2>1, <2>2 DEF PrecheckEnds
<1> QED BY <1>2, <1>3, <1>4

LEMMA SaveTypes ==
  ASSUME TypeOK, NEW r \in Saves, SaveStep(r)
  PROVE  TypeOK'
<1>1. r \in Requests
  BY DEF Requests
<1>2. CASE BeginSave(r)
  <2>1. pc' \in [Requests -> Steps] /\ cfg' \in [Requests -> SUBSET Targets]
    BY <1>1, <1>2, GotoTypes, CfgTypes DEF BeginSave, Payloads, Steps
  <2> QED BY <1>2, <2>1 DEF BeginSave, TypeOK, taskVars, keyVars
<1>3. ASSUME NEW at \in Steps, NEW next \in Steps,
             WriteRemote(r, at, next) \/ RecordTask(r, at, next)
      PROVE  TypeOK'
  BY <1>1, <1>3, WriteTypes
<1> QED BY <1>2, <1>3 DEF SaveStep, Steps

LEMMA DeleteTypes ==
  ASSUME TypeOK, NEW r \in Deletes, DeleteStep(r)
  PROVE  TypeOK'
<1>1. r \in Requests /\ r \in Keyed /\ KeyOf[r] \in Keys
  BY TasksAssumption DEF Requests, Keyed
<1> USE DEF taskVars, keyVars
<1>2. CASE BeginDelete(r)
  <2>1. claim[KeyOf[r]] \in Keyed \cup {None, Failed}
    BY <1>1 DEF TypeOK
  <2>2. pc' \in [Requests -> Steps] /\ reply' \in [Keyed -> Keyed \cup {None, Failed}]
    <3>1. CASE Goto(r, "register") /\ UNCHANGED reply
      BY <1>1, <3>1, GotoTypes DEF TypeOK, Steps
    <3>2. CASE Answer(r, claim[KeyOf[r]])
      BY <1>1, <2>1, <3>2, AnswerTypes
    <3>3. CASE Refuse(r)
      BY <1>1, <3>3, RefuseTypes
    <3> QED BY <1>2, <3>1, <3>2, <3>3 DEF BeginDelete
  <2> QED BY <1>2, <2>2 DEF BeginDelete, TypeOK
<1>3. CASE RegisterDelete(r)
  <2>1. CASE claim[KeyOf[r]] = None
    <3>1. pc' \in [Requests -> Steps]
      BY <1>1, <1>3, <2>1, GotoTypes DEF RegisterDelete, Steps
    <3>2. claim' \in [Keys -> Keyed \cup {None}]
      BY <1>1, <1>3, <2>1 DEF RegisterDelete, TypeOK
    <3> QED BY <1>3, <2>1, <3>1, <3>2 DEF RegisterDelete, TypeOK
  <2>2. CASE claim[KeyOf[r]] # None
    <3>1. pc' \in [Requests -> Steps] /\ reply' \in [Keyed -> Keyed \cup {None, Failed}]
      BY <1>1, <1>3, <2>2, RefuseTypes DEF RegisterDelete
    <3> QED BY <1>3, <2>2, <3>1 DEF RegisterDelete, TypeOK
  <2> QED BY <2>1, <2>2
<1>4. CASE DeleteRemote(r)
  <2>1. remote' \in [exists : BOOLEAN, targets : SUBSET Targets]
    BY <1>4 DEF DeleteRemote, TypeOK
  <2>2. pc' \in [Requests -> Steps] /\ reply' \in [Keyed -> Keyed \cup {None, Failed}]
    BY <1>1, <1>4, GotoTypes, RefuseTypes DEF DeleteRemote, TypeOK, Steps
  <2> QED BY <1>4, <2>1, <2>2 DEF DeleteRemote, TypeOK
<1>5. CASE DropChildren(r)
  <2>1. pre' \in [Creators -> Row]
    <3>1. ASSUME NEW p \in Creators
          PROVE  [pre[p] EXCEPT !.row = "dropped"] \in Row /\ pre[p] \in Row
      BY RowTypes DEF Row
    <3> QED BY <1>5, <3>1 DEF DropChildren
  <2>2. pc' \in [Requests -> Steps]
    BY <1>1, <1>5, GotoTypes DEF DropChildren, Steps
  <2> QED BY <1>5, <2>1, <2>2 DEF DropChildren, TypeOK, Row
<1>6. CASE DropTask(r)
  <2>1. pc' \in [Requests -> Steps] /\ reply' \in [Keyed -> Keyed \cup {None, Failed}]
    BY <1>1, <1>6, AnswerTypes DEF DropTask
  <2>2. local' \in [row : BOOLEAN, targets : SUBSET Targets]
    BY <1>6 DEF DropTask
  <2> QED BY <1>6, <2>1, <2>2 DEF DropTask, TypeOK
<1> QED BY <1>2, <1>3, <1>4, <1>5, <1>6 DEF DeleteStep

LEMMA CleanTypes ==
  ASSUME TypeOK, NEW r \in Deletes \cup Sweeps, CleanStep(r)
  PROVE  TypeOK'
<1>1. r \in Requests
  BY DEF Requests
<1>2. todo[r] # {} => NextChild(r) \in todo[r] /\ NextChild(r) \in Creators
  BY <1>1 DEF NextChild, TypeOK
<1>3. \A q : [todo EXCEPT ![r] = @ \ q] \in [Requests -> SUBSET Creators]
  BY <1>1 DEF TypeOK
<1> USE DEF taskVars, keyVars
<1>4. CASE ListChildren(r)
  <2>1. pc' \in [Requests -> Steps]
    BY <1>1, <1>4, GotoTypes DEF ListChildren, Steps
  <2>2. todo' \in [Requests -> SUBSET Creators]
    BY <1>1, <1>4 DEF ListChildren, TypeOK
  <2> QED BY <1>4, <2>1, <2>2 DEF ListChildren, TypeOK
<1>5. CASE CleanRemote(r)
  <2>1. pre' \in [Creators -> Row]
    <3>1. CASE pre' = [pre EXCEPT ![NextChild(r)].remote = FALSE]
      BY <1>2, <1>5, <3>1, RowTypes DEF CleanRemote
    <3>2. CASE UNCHANGED pre
      BY <3>2 DEF TypeOK, Row
    <3> QED BY <1>5, <3>1, <3>2 DEF CleanRemote
  <2>2. todo' \in [Requests -> SUBSET Creators]
    BY <1>3, <1>5 DEF CleanRemote, TypeOK
  <2>3. pc' \in [Requests -> Steps]
    BY <1>1, <1>5, GotoTypes DEF CleanRemote, TypeOK, Steps
  <2> QED BY <1>5, <2>1, <2>2, <2>3 DEF CleanRemote, TypeOK, Row
<1>6. CASE CleanRow(r)
  <2>1. pre' \in [Creators -> Row]
    <3>1. CASE NextChild(r) \in Creators
      <4> DEFINE w == IF r \in Deletes THEN "dropped"
                      ELSE IF pre[NextChild(r)].row = "live" THEN "hidden" ELSE pre[NextChild(r)].row
      <4>1. w \in {"none", "live", "hidden", "dropped"}
        BY <3>1, RowTypes DEF Row
      <4>2. pre' = [pre EXCEPT ![NextChild(r)].row = w]
        BY <1>6, <3>1 DEF CleanRow
      <4> HIDE DEF w
      <4> QED BY <3>1, <4>1, <4>2, RowTypes
    <3>2. CASE NextChild(r) \notin Creators
      <4>1. pre' = pre
        BY <1>6, <3>2 DEF CleanRow, TypeOK
      <4> QED BY <4>1 DEF TypeOK, Row
    <3> QED BY <3>1, <3>2
  <2>2. todo' \in [Requests -> SUBSET Creators]
    BY <1>3, <1>6 DEF CleanRow
  <2>3. pc' \in [Requests -> Steps]
    BY <1>1, <1>6, GotoTypes DEF CleanRow, Steps
  <2> QED BY <1>6, <2>1, <2>2, <2>3 DEF CleanRow, TypeOK, Row
<1>7. CASE Cleaned(r)
  <2>1. pc' \in [Requests -> Steps]
    BY <1>1, <1>7, GotoTypes DEF Cleaned, Steps
  <2> QED BY <1>7, <2>1 DEF Cleaned, TypeOK
<1> QED BY <1>4, <1>5, <1>6, <1>7 DEF CleanStep

LEMMA CrashTypes == ASSUME TypeOK, Crash PROVE TypeOK'
<1>1. pc' \in [Requests -> Steps]
  BY DEF Crash, TypeOK, Steps
<1>2. crashes' \in 0 .. MaxCrashes
  BY TasksAssumption DEF Crash, TypeOK
<1> QED BY <1>1, <1>2 DEF Crash, TypeOK, taskVars, keyVars

LEMMA TypeStep == ASSUME TypeOK, [Next]_vars PROVE TypeOK'
<1>1. CASE UNCHANGED vars
  BY <1>1 DEF vars, TypeOK
<1>2. ASSUME NEW r \in Requests, Progress(r)
      PROVE  TypeOK'
  BY <1>2, LaunchTypes, CreatorTypes, SaveTypes, DeleteTypes, CleanTypes DEF Progress, Creators
<1> QED BY <1>1, <1>2, CrashTypes DEF Next

(* Requests, rows, keys and answers keep their types in every step.        *)
THEOREM TypeCorrect == Spec => []TypeOK
<1>1. TypeOK /\ [Next]_vars => TypeOK'
  BY TypeStep
<1> QED BY <1>1, TypeStart, PTL DEF Spec

(* A request that has not reached the precheck has no precheck task; a     *)
(* cleanup visits tasks that have a row, and writes the row of one that    *)
(* MP VM no longer holds.  A deletion that dropped rows has passed the     *)
(* step, for good.                                                         *)
Early == {"idle", "sync_remote", "sync_local", "validate", "precheck"}
Unlisted == {"record", "unrecorded"}
Past == {"drop_task", "answered", "lost"}

VisibleInv ==
    /\ \A p \in Creators : pc[p] \in Early \cup Unlisted => pre[p].row = "none"
    /\ \A r \in Requests : \A p \in todo[r] : pre[p].row # "none"
    /\ \A r \in Requests : pc[r] = "clean_row" => todo[r] # {} /\ ~pre[NextChild(r)].remote
    /\ PrechecksAccounted

(* Nothing but the precheck and the cleanup steps touches the rows; a      *)
(* request that moves on keeps what its step says.                         *)
LEMMA QuietMove ==
  ASSUME TypeOK, VisibleInv, NEW r \in Requests, NEW l \in Steps \ {"clean_row"},
         pc' = [pc EXCEPT ![r] = l], UNCHANGED <<pre, todo>>,
         pc[r] \in Unlisted => l = "unrecorded",
         r \in Creators /\ l \in Early \cup Unlisted => pc[r] \in Early \cup {"record"},
         r \in Deletes /\ pc[r] \in Past => l \in Past
  PROVE  VisibleInv'
<1>1. \A q \in Requests : pc'[q] = IF q = r THEN l ELSE pc[q]
  BY DEF TypeOK
<1>2. \A p \in Creators : p \in Requests
  BY DEF Creators, Requests
<1>3. \A p \in Creators : pc'[p] \in Early \cup Unlisted => pre'[p].row = "none"
  BY <1>1, <1>2 DEF VisibleInv, Unlisted
<1>4. \A q \in Requests : \A p \in todo'[q] : pre'[p].row # "none"
  BY DEF VisibleInv
<1>5. \A q \in Requests : pc'[q] = "clean_row" => todo'[q] # {} /\ ~pre'[NextChild(q)'].remote
  BY <1>1 DEF VisibleInv, NextChild
<1>6. ASSUME NEW d \in Deletes, pc[d] \in Past
      PROVE  pc'[d] \in Past
  BY <1>1, <1>6 DEF Requests
<1>7. PrechecksAccounted'
  <2> SUFFICES ASSUME NEW p \in Creators, pre[p].remote
               PROVE  \/ pre[p].row = "live"
                      \/ pre[p].row = "none" /\ pc'[p] \in Unlisted
                      \/ pre[p].row = "dropped" /\ \E d \in Deletes : pc'[d] \in Past
    BY DEF PrechecksAccounted, Unlisted, Past
  <2>1. CASE pre[p].row = "none" /\ pc[p] \in Unlisted
    BY <1>1, <1>2, <2>1 DEF Unlisted
  <2>2. CASE pre[p].row = "dropped" /\ \E d \in Deletes : pc[d] \in Past
    BY <1>6, <2>2
  <2> QED BY <2>1, <2>2 DEF VisibleInv, PrechecksAccounted, Unlisted, Past
<1> QED BY <1>3, <1>4, <1>5, <1>7 DEF VisibleInv

(* A refused request has ended, and one that ended stays so.               *)
LEMMA QuietRefuse ==
  ASSUME TypeOK, VisibleInv, NEW r \in Requests, Refuse(r), UNCHANGED <<pre, todo>>,
         pc[r] \notin Unlisted
  PROVE  VisibleInv'
  BY QuietMove DEF Refuse, Goto, Steps, Early, Unlisted, Past

(* Creating the task of a precheck that has no row yet.                    *)
LEMMA CreateVisible ==
  ASSUME TypeOK, VisibleInv, NEW r \in Creators, NEW c \in SUBSET Targets,
         pc[r] \in {"precheck", "idle"}, CreateTask(r, c), UNCHANGED todo
  PROVE  VisibleInv'
<1>0. r \in Requests /\ r \notin Deletes
  BY TasksAssumption DEF Creators, Requests
<1>1. CASE Refuse(r) /\ UNCHANGED pre
  BY <1>0, <1>1, QuietRefuse DEF Unlisted
<1>2. CASE pre' = [pre EXCEPT ![r].remote = TRUE] /\ Goto(r, "record")
  <2>1. /\ \A p \in Creators : pre'[p].row = pre[p].row
        /\ \A p \in Creators : p # r => pre'[p] = pre[p]
    BY <1>2 DEF TypeOK
  <2>2. \A q \in Requests : pc'[q] = IF q = r THEN "record" ELSE pc[q]
    BY <1>2 DEF Goto, TypeOK
  <2>3. pre[r].row = "none"
    BY DEF VisibleInv, Early
  <2>4. \A p \in Creators : pc'[p] \in Early \cup Unlisted => pre'[p].row = "none"
    BY <2>1, <2>2, <2>3 DEF VisibleInv, Creators, Requests
  <2>5. \A q \in Requests : \A p \in todo[q] : p \in Creators
    BY DEF TypeOK
  <2>6. \A q \in Requests : \A p \in todo'[q] : pre'[p].row # "none"
    BY <2>1, <2>5 DEF VisibleInv
  <2>7. ASSUME NEW q \in Requests, pc'[q] = "clean_row"
        PROVE  todo'[q] # {} /\ ~pre'[NextChild(q)'].remote
    <3>1. pc[q] = "clean_row" /\ todo[q] # {} /\ ~pre[NextChild(q)].remote
      BY <2>2, <2>7 DEF VisibleInv
    <3>2. NextChild(q) \in todo[q] /\ NextChild(q)' = NextChild(q)
      BY <3>1 DEF NextChild
    <3>3. NextChild(q) # r /\ NextChild(q) \in Creators
      BY <2>3, <2>5, <3>2 DEF VisibleInv
    <3> QED BY <2>1, <3>1, <3>2, <3>3
  <2>8. PrechecksAccounted'
    <3> SUFFICES ASSUME NEW p \in Creators, pre'[p].remote
                 PROVE  \/ pre'[p].row = "live"
                        \/ pre'[p].row = "none" /\ pc'[p] \in {"record", "unrecorded"}
                        \/ /\ pre'[p].row = "dropped"
                           /\ \E d \in Deletes : pc'[d] \in {"drop_task", "answered", "lost"}
      BY DEF PrechecksAccounted
    <3>1. CASE p = r
      BY <1>0, <2>1, <2>2, <2>3, <3>1
    <3>2. CASE p # r
      <4>1. p \in Requests /\ \A d \in Deletes : d \in Requests /\ d # r
        BY <1>0 DEF Creators, Requests
      <4> QED BY <2>1, <2>2, <3>2, <4>1 DEF VisibleInv, PrechecksAccounted
    <3> QED BY <3>1, <3>2
  <2> QED BY <2>4, <2>6, <2>7, <2>8 DEF VisibleInv
<1> QED BY <1>1, <1>2 DEF CreateTask

LEMMA LaunchVisible ==
  ASSUME TypeOK, VisibleInv, NEW r \in Starts, LaunchStep(r)
  PROVE  VisibleInv'
<1>1. r \in Requests /\ r \in Creators /\ r \notin Deletes
  BY TasksAssumption DEF Requests, Creators
<1>2. CASE CreatePrecheck(r)
  <2>1. local.targets \in SUBSET Targets
    BY DEF TypeOK
  <2>2. CASE local.row
    BY <1>1, <1>2, <2>1, <2>2, CreateVisible DEF CreatePrecheck
  <2>3. CASE ~local.row
    BY <1>1, <1>2, <2>3, QuietRefuse DEF CreatePrecheck, Unlisted
  <2> QED BY <2>2, <2>3
<1>3. ASSUME pc[r] \notin Unlisted, Refuse(r), UNCHANGED <<pre, todo>>
      PROVE  VisibleInv'
  BY <1>1, <1>3, QuietRefuse
<1>4. ASSUME NEW l \in Steps \ (Unlisted \cup {"clean_row"}), pc[r] \notin Unlisted,
             l \in Early => pc[r] \in Early, Goto(r, l), UNCHANGED <<pre, todo>>
      PROVE  VisibleInv'
  BY <1>1, <1>4, QuietMove DEF Goto
<1>5. CASE WriteRemote(r, "sync_remote", "sync_local")
  BY <1>3, <1>4, <1>5 DEF WriteRemote, Steps, Early, Unlisted
<1>6. CASE WriteRemote(r, "narrow_remote", "narrow_local")
  BY <1>3, <1>4, <1>6 DEF WriteRemote, Steps, Early, Unlisted
<1>7. CASE RecordTask(r, "sync_local", "validate") \/ RecordTask(r, "narrow_local", "accept")
  BY <1>4, <1>7 DEF RecordTask, Steps, Early, Unlisted
<1>8. CASE ReplayLaunch(r) \/ SkipPrecheck(r)
  BY <1>4, <1>8 DEF ReplayLaunch, Answer, SkipPrecheck, Steps, Early, Unlisted
<1>9. CASE BeginLaunch(r)
  BY <1>3, <1>4, <1>9 DEF BeginLaunch, Steps, Early, Unlisted
<1>10. CASE Validate(r)
  BY <1>3, <1>4, <1>10 DEF Validate, Steps, Early, Unlisted
<1>11. CASE Accept(r)
  BY <1>3, <1>4, <1>11 DEF Accept, Steps, Early, Unlisted
<1>12. CASE StartScan(r)
  <2>1. PICK l \in {"started", "start_failed"} : Goto(r, l)
    BY <1>12 DEF StartScan
  <2> QED BY <1>4, <1>12, <2>1 DEF StartScan, Steps, Early, Unlisted
<1>13. CASE FinishLaunch(r)
  BY <1>3, <1>4, <1>13 DEF FinishLaunch, Answer, Steps, Early, Unlisted
<1> QED
  BY <1>2, <1>5, <1>6, <1>7, <1>8, <1>9, <1>10, <1>11, <1>12, <1>13 DEF LaunchStep

LEMMA CreatorVisible ==
  ASSUME TypeOK, VisibleInv, NEW r \in Creators,
         (BeginRetry(r) /\ r \in Retries) \/ RecordPrecheck(r) \/ PrecheckEnds(r)
  PROVE  VisibleInv'
<1>1. r \in Requests /\ r \notin Deletes
  BY TasksAssumption DEF Requests, Creators
<1>2. CASE BeginRetry(r)
  <2>1. PICK p \in Creators : CreateTask(r, pre[p].missed)
    BY <1>2 DEF BeginRetry
  <2>2. pre[p].missed \in SUBSET Targets
    BY RowTypes DEF Row
  <2> QED BY <1>2, <2>1, <2>2, CreateVisible DEF BeginRetry
<1>3. CASE RecordPrecheck(r)
  <2>1. CASE Goto(r, "unrecorded") /\ UNCHANGED pre
    BY <1>1, <1>3, <2>1, QuietMove DEF RecordPrecheck, Goto, Steps, Early, Unlisted
  <2>2. CASE pre' = [pre EXCEPT ![r].row = "live"] /\ Goto(r, "checking")
    <3>1. \A q \in Requests : pc'[q] = IF q = r THEN "checking" ELSE pc[q]
      BY <2>2 DEF Goto, TypeOK
    <3>2. /\ pre'[r].row = "live"
          /\ \A p \in Creators : pre'[p].remote = pre[p].remote /\ (p # r => pre'[p] = pre[p])
      BY <2>2 DEF TypeOK
    <3>3. UNCHANGED todo /\ \A q \in Requests : todo[q] \subseteq Creators
      BY <1>3 DEF RecordPrecheck, TypeOK
    <3>4. \A p \in Creators : pc'[p] \in Early \cup Unlisted => pre'[p].row = "none"
      BY <3>1, <3>2 DEF VisibleInv, Creators, Requests, Early, Unlisted
    <3>5. \A q \in Requests : \A p \in todo'[q] : pre'[p].row # "none"
      BY <3>2, <3>3 DEF VisibleInv
    <3>6. ASSUME NEW q \in Requests, pc'[q] = "clean_row"
          PROVE  todo'[q] # {} /\ ~pre'[NextChild(q)'].remote
      <4>1. pc[q] = "clean_row" /\ todo[q] # {} /\ ~pre[NextChild(q)].remote
        BY <3>1, <3>6 DEF VisibleInv
      <4>2. NextChild(q) \in Creators /\ NextChild(q)' = NextChild(q)
        BY <3>3, <4>1 DEF NextChild
      <4> QED BY <3>2, <3>3, <4>1, <4>2
    <3>7. \A d \in Deletes : pc'[d] = pc[d]
      BY <1>1, <3>1 DEF Requests
    <3>8. PrechecksAccounted'
      BY <3>1, <3>2, <3>7 DEF VisibleInv, PrechecksAccounted, Creators, Requests
    <3> QED BY <3>4, <3>5, <3>6, <3>8 DEF VisibleInv
  <2> QED BY <1>3, <2>1, <2>2 DEF RecordPrecheck
<1>4. CASE PrecheckEnds(r)
  <2>1. CASE Refuse(r) /\ UNCHANGED pre
    BY <1>1, <1>4, <2>1, QuietRefuse DEF PrecheckEnds, Unlisted
  <2>2. ASSUME NEW reached \in Reachable(r),
               pre' = [pre EXCEPT ![r].missed = IF @ = {} THEN cfg[r] \ reached ELSE @],
               IF reached # {} /\ r \in Starts
                 THEN Goto(r, "narrow_remote") /\ cfg' = [cfg EXCEPT ![r] = reached] /\ UNCHANGED reply
                 ELSE Refuse(r) /\ UNCHANGED cfg
        PROVE  VisibleInv'
    <3>1. PICK l \in {"narrow_remote", "answered"} : Goto(r, l)
      BY <2>2 DEF Refuse
    <3>2. \A q \in Requests : pc'[q] = IF q = r THEN l ELSE pc[q]
      BY <3>1 DEF Goto, TypeOK
    <3>3. \A p \in Creators : pre'[p].remote = pre[p].remote /\ pre'[p].row = pre[p].row
      BY <2>2 DEF TypeOK
    <3>4. UNCHANGED todo /\ \A q \in Requests : todo[q] \subseteq Creators
      BY <1>4 DEF PrecheckEnds, TypeOK
    <3>5. \A p \in Creators : pc'[p] \in Early \cup Unlisted => pre'[p].row = "none"
      BY <3>2, <3>3 DEF VisibleInv, Creators, Requests, Early, Unlisted
    <3>6. \A q \in Requests : \A p \in todo'[q] : pre'[p].row # "none"
      BY <3>3, <3>4 DEF VisibleInv
    <3>7. ASSUME NEW q \in Requests, pc'[q] = "clean_row"
          PROVE  todo'[q] # {} /\ ~pre'[NextChild(q)'].remote
      <4>1. pc[q] = "clean_row" /\ todo[q] # {} /\ ~pre[NextChild(q)].remote
        BY <3>2, <3>7 DEF VisibleInv
      <4>2. NextChild(q) \in Creators /\ NextChild(q)' = NextChild(q)
        BY <3>4, <4>1 DEF NextChild
      <4> QED BY <3>3, <3>4, <4>1, <4>2
    <3>8. \A d \in Deletes : pc'[d] = pc[d]
      BY <1>1, <3>2 DEF Requests
    <3>9. pc[r] = "checking"
      BY <1>4 DEF PrecheckEnds
    <3>10. PrechecksAccounted'
      BY <3>2, <3>3, <3>8, <3>9 DEF VisibleInv, PrechecksAccounted, Creators, Requests
    <3> QED BY <3>5, <3>6, <3>7, <3>10 DEF VisibleInv
  <2> QED BY <1>4, <2>1, <2>2 DEF PrecheckEnds
<1> QED BY <1>2, <1>3, <1>4

LEMMA SaveVisible ==
  ASSUME TypeOK, VisibleInv, NEW r \in Saves, SaveStep(r)
  PROVE  VisibleInv'
<1>1. r \in Requests /\ r \notin Deletes /\ r \notin Creators
  BY TasksAssumption DEF Requests, Creators
<1>2. ASSUME NEW l \in {"save_remote", "save_local", "answered"}, pc[r] \notin Unlisted,
             Goto(r, l), UNCHANGED <<pre, todo>>
      PROVE  VisibleInv'
  BY <1>1, <1>2, QuietMove DEF Goto, Steps, Early, Unlisted
<1>3. CASE BeginSave(r)
  BY <1>2, <1>3 DEF BeginSave, Unlisted
<1>4. CASE WriteRemote(r, "save_remote", "save_local")
  BY <1>2, <1>4 DEF WriteRemote, Refuse, Unlisted
<1>5. CASE RecordTask(r, "save_local", "answered")
  BY <1>2, <1>5 DEF RecordTask, Unlisted
<1> QED BY <1>3, <1>4, <1>5 DEF SaveStep

LEMMA DeleteVisible ==
  ASSUME TypeOK, VisibleInv, NEW r \in Deletes, DeleteStep(r)
  PROVE  VisibleInv'
<1>1. r \in Requests /\ r \notin Creators
  BY TasksAssumption DEF Requests, Creators
<1>2. ASSUME NEW l \in Steps \ {"clean_row"}, pc[r] \notin Unlisted \cup Past \/ l \in Past,
             pc[r] \notin Unlisted, Goto(r, l), UNCHANGED <<pre, todo>>
      PROVE  VisibleInv'
  BY <1>1, <1>2, QuietMove DEF Goto
<1>3. CASE BeginDelete(r)
  BY <1>2, <1>3 DEF BeginDelete, Answer, Refuse, Steps, Unlisted, Past
<1>4. CASE RegisterDelete(r)
  <2>1. PICK l \in {"drop_children", "delete_remote", "answered"} : Goto(r, l)
    BY <1>4 DEF RegisterDelete, Refuse
  <2> QED BY <1>2, <1>4, <2>1 DEF RegisterDelete, Steps, Unlisted, Past
<1>5. CASE DeleteRemote(r)
  <2>1. PICK l \in {"list", "answered"} : Goto(r, l)
    BY <1>5 DEF DeleteRemote, Refuse
  <2> QED BY <1>2, <1>5, <2>1 DEF DeleteRemote, Steps, Unlisted, Past
<1>6. CASE DropTask(r)
  BY <1>2, <1>6 DEF DropTask, Answer, Steps, Unlisted, Past
<1>7. CASE DropChildren(r)
  <2>1. \A q \in Requests : pc'[q] = IF q = r THEN "drop_task" ELSE pc[q]
    BY <1>7 DEF DropChildren, Goto, TypeOK
  <2>2. \A p \in Creators : /\ pre'[p].remote = pre[p].remote
                            /\ pre[p].row \in {"live", "hidden"} => pre'[p].row = "dropped"
                            /\ pre[p].row \in {"none", "dropped"} => pre'[p].row = pre[p].row
    <3> SUFFICES ASSUME NEW p \in Creators
                 PROVE  /\ pre'[p].remote = pre[p].remote
                        /\ pre[p].row \in {"live", "hidden"} => pre'[p].row = "dropped"
                        /\ pre[p].row \in {"none", "dropped"} => pre'[p].row = pre[p].row
      OBVIOUS
    <3>1. pre[p] \in Row
      BY RowTypes
    <3>2. pre'[p] = IF pre[p].row \in {"live", "hidden"} THEN [pre[p] EXCEPT !.row = "dropped"] ELSE pre[p]
      BY <1>7 DEF DropChildren
    <3> QED BY <3>1, <3>2 DEF Row
  <2>3. UNCHANGED todo /\ \A q \in Requests : todo[q] \subseteq Creators
    BY <1>7 DEF DropChildren, TypeOK
  <2>4. \A p \in Creators : p \in Requests /\ p # r
    BY <1>1 DEF Creators, Requests
  <2>5. \A p \in Creators : pc'[p] \in Early \cup Unlisted => pre'[p].row = "none"
    BY <2>1, <2>2, <2>4 DEF VisibleInv
  <2>6. \A p \in Creators : pre[p].row \in {"none", "live", "hidden", "dropped"}
    BY RowTypes DEF Row
  <2>7. \A q \in Requests : \A p \in todo'[q] : pre'[p].row # "none"
    BY <2>2, <2>3, <2>6 DEF VisibleInv
  <2>8. ASSUME NEW q \in Requests, pc'[q] = "clean_row"
        PROVE  todo'[q] # {} /\ ~pre'[NextChild(q)'].remote
    <3>1. pc[q] = "clean_row" /\ todo[q] # {} /\ ~pre[NextChild(q)].remote
      BY <2>1, <2>8 DEF VisibleInv
    <3>2. NextChild(q) \in Creators /\ NextChild(q)' = NextChild(q)
      BY <2>3, <3>1 DEF NextChild
    <3> QED BY <2>2, <2>3, <3>1, <3>2
  <2>9. pc'[r] = "drop_task"
    BY <1>1, <2>1
  <2>10. PrechecksAccounted'
    <3> SUFFICES ASSUME NEW p \in Creators, pre'[p].remote
                 PROVE  \/ pre'[p].row = "none" /\ pc'[p] \in {"record", "unrecorded"}
                        \/ pre'[p].row = "dropped"
      BY <2>9 DEF PrechecksAccounted
    <3>1. pre[p].row = "none" => pc[p] \in {"record", "unrecorded"}
      BY <2>2 DEF VisibleInv, PrechecksAccounted
    <3> QED BY <2>1, <2>2, <2>4, <2>6, <3>1
  <2> QED BY <2>5, <2>7, <2>8, <2>10 DEF VisibleInv
<1> QED BY <1>3, <1>4, <1>5, <1>6, <1>7 DEF DeleteStep

LEMMA CleanVisible ==
  ASSUME TypeOK, VisibleInv, NEW r \in Deletes \cup Sweeps, CleanStep(r)
  PROVE  VisibleInv'
<1>1. r \in Requests /\ r \notin Creators
  BY TasksAssumption DEF Requests, Creators
<1>2. \A q \in Requests : todo[q] \subseteq Creators
  BY DEF TypeOK
<1>3. \A p \in Creators : p \in Requests /\ p # r
  BY <1>1 DEF Creators, Requests
<1>4. \A d \in Deletes : d \in Requests
  BY DEF Requests
<1>5. CASE ListChildren(r)
  <2>1. /\ \A q \in Requests : pc'[q] = IF q = r THEN "clean" ELSE pc[q]
        /\ \A q \in Requests : q # r => todo'[q] = todo[q]
        /\ todo'[r] = {p \in Creators : pre[p].row = "live"}
    BY <1>1, <1>5 DEF ListChildren, Goto, TypeOK
  <2>2. UNCHANGED pre /\ pc[r] \in {"list", "idle"}
    BY <1>5 DEF ListChildren
  <2>3. \A p \in Creators : pc'[p] \in Early \cup Unlisted => pre'[p].row = "none"
    BY <1>3, <2>1, <2>2 DEF VisibleInv
  <2>4. \A q \in Requests : \A p \in todo'[q] : pre'[p].row # "none"
    BY <2>1, <2>2 DEF VisibleInv
  <2>5. ASSUME NEW q \in Requests, pc'[q] = "clean_row"
        PROVE  todo'[q] # {} /\ ~pre'[NextChild(q)'].remote
    <3>1. q # r /\ pc[q] = "clean_row" /\ todo'[q] = todo[q]
      BY <2>1, <2>5
    <3> QED BY <2>2, <3>1 DEF VisibleInv, NextChild
  <2>6. PrechecksAccounted'
    BY <1>3, <1>4, <2>1, <2>2 DEF VisibleInv, PrechecksAccounted
  <2> QED BY <2>3, <2>4, <2>5, <2>6 DEF VisibleInv
<1>6. CASE CleanRemote(r)
  <2> DEFINE c == NextChild(r)
  <2>1. c \in todo[r] /\ c \in Creators
    BY <1>1, <1>2, <1>6 DEF CleanRemote, NextChild
  <2>2. CASE pre' = [pre EXCEPT ![c].remote = FALSE] /\ Goto(r, "clean_row") /\ UNCHANGED todo
    <3>1. /\ \A q \in Requests : pc'[q] = IF q = r THEN "clean_row" ELSE pc[q]
          /\ \A q \in Requests : NextChild(q)' = NextChild(q)
      BY <2>2 DEF Goto, TypeOK, NextChild
    <3>2. /\ ~pre'[c].remote
          /\ \A p \in Creators : pre'[p].row = pre[p].row /\ (pre'[p].remote => pre[p].remote)
      BY <2>1, <2>2 DEF TypeOK
    <3> HIDE DEF c
    <3>3. \A p \in Creators : pc'[p] \in Early \cup Unlisted => pre'[p].row = "none"
      BY <1>3, <3>1, <3>2 DEF VisibleInv
    <3>4. \A q \in Requests : \A p \in todo'[q] : pre'[p].row # "none"
      BY <1>2, <2>2, <3>2 DEF VisibleInv
    <3>5. ASSUME NEW q \in Requests, pc'[q] = "clean_row"
          PROVE  todo'[q] # {} /\ ~pre'[NextChild(q)'].remote
      <4>1. CASE q = r
        BY <2>1, <2>2, <3>1, <3>2, <4>1 DEF c
      <4>2. CASE q # r
        <5>1. todo[q] # {} /\ ~pre[NextChild(q)].remote
          BY <3>1, <3>5, <4>2 DEF VisibleInv
        <5>2. NextChild(q) \in Creators
          BY <1>2, <5>1 DEF NextChild
        <5> QED BY <2>2, <3>1, <3>2, <5>1, <5>2
      <4> QED BY <4>1, <4>2
    <3>6. \A d \in Deletes : pc[d] \in Past => pc'[d] \in Past
      BY <1>4, <1>6, <3>1 DEF CleanRemote, Past
    <3>7. PrechecksAccounted'
      BY <1>3, <3>1, <3>2, <3>6 DEF VisibleInv, PrechecksAccounted, Past
    <3> QED BY <3>3, <3>4, <3>5, <3>7 DEF VisibleInv
  <2>3. CASE todo' = [todo EXCEPT ![r] = @ \ {c}] /\ UNCHANGED <<pre, pc>>
    <3>1. /\ \A q \in Requests : todo'[q] \subseteq todo[q]
          /\ \A q \in Requests : q # r => todo'[q] = todo[q]
      BY <2>3 DEF TypeOK
    <3>2. \A q \in Requests : \A p \in todo'[q] : pre'[p].row # "none"
      BY <2>3, <3>1 DEF VisibleInv
    <3>3. ASSUME NEW q \in Requests, pc'[q] = "clean_row"
          PROVE  todo'[q] # {} /\ ~pre'[NextChild(q)'].remote
      <4>1. q # r
        BY <1>6, <2>3, <3>3 DEF CleanRemote
      <4>2. NextChild(q)' = NextChild(q) /\ todo'[q] = todo[q]
        BY <3>1, <4>1 DEF NextChild
      <4> QED BY <2>3, <3>3, <4>2 DEF VisibleInv
    <3>4. PrechecksAccounted'
      BY <2>3 DEF VisibleInv, PrechecksAccounted
    <3> QED BY <2>3, <3>2, <3>3, <3>4 DEF VisibleInv
  <2> QED BY <1>6, <2>2, <2>3 DEF CleanRemote
<1>7. CASE CleanRow(r)
  <2> DEFINE c == NextChild(r)
  <2>1. todo[r] # {} /\ ~pre[c].remote
    BY <1>1, <1>7 DEF CleanRow, VisibleInv
  <2>2. c \in todo[r] /\ c \in Creators
    BY <1>1, <1>2, <2>1 DEF NextChild
  <2>3. /\ \A q \in Requests : pc'[q] = IF q = r THEN "clean" ELSE pc[q]
        /\ \A q \in Requests : todo'[q] = IF q = r THEN todo[q] \ {c} ELSE todo[q]
    BY <1>7 DEF CleanRow, Goto, TypeOK
  <2>4. pre[c].row # "none"
    BY <1>1, <2>2 DEF VisibleInv
  <2>5. /\ \A p \in Creators : pre'[p].remote = pre[p].remote
        /\ \A p \in Creators : p # c => pre'[p] = pre[p]
    BY <1>7 DEF CleanRow, TypeOK
  <2>6. pre'[c].row # "none"
    <3>1. pre'[c].row = IF r \in Deletes THEN "dropped"
                        ELSE IF pre[c].row = "live" THEN "hidden" ELSE pre[c].row
      BY <1>7, <2>2 DEF CleanRow, TypeOK
    <3> QED BY <2>4, <3>1
  <2> HIDE DEF c
  <2>7. \A p \in Creators : pc'[p] \in Early \cup Unlisted => pre'[p].row = "none"
    BY <1>3, <2>3, <2>4, <2>5 DEF VisibleInv
  <2>8. \A q \in Requests : \A p \in todo'[q] : pre'[p].row # "none"
    BY <1>2, <2>3, <2>5, <2>6 DEF VisibleInv
  <2>9. ASSUME NEW q \in Requests, pc'[q] = "clean_row"
        PROVE  todo'[q] # {} /\ ~pre'[NextChild(q)'].remote
    <3>1. q # r /\ pc[q] = "clean_row" /\ todo'[q] = todo[q]
      BY <2>3, <2>9
    <3>2. todo[q] # {} /\ ~pre[NextChild(q)].remote
      BY <3>1 DEF VisibleInv
    <3>3. NextChild(q) \in Creators /\ NextChild(q)' = NextChild(q)
      BY <1>2, <3>1, <3>2 DEF NextChild
    <3> QED BY <2>5, <3>1, <3>2, <3>3
  <2>10. \A d \in Deletes : pc[d] \in Past => pc'[d] \in Past
    BY <1>4, <1>7, <2>3 DEF CleanRow, Past
  <2>11. PrechecksAccounted'
    BY <1>3, <2>1, <2>3, <2>5, <2>10 DEF VisibleInv, PrechecksAccounted, Past
  <2> QED BY <2>7, <2>8, <2>9, <2>11 DEF VisibleInv
<1>8. CASE Cleaned(r)
  <2>1. PICK l \in {"drop_children", "answered"} : Goto(r, l)
    BY <1>8 DEF Cleaned
  <2> QED BY <1>1, <1>8, <2>1, QuietMove DEF Cleaned, Goto, Steps, Early, Unlisted, Past
<1> QED BY <1>5, <1>6, <1>7, <1>8 DEF CleanStep

LEMMA CrashVisible == ASSUME TypeOK, VisibleInv, Crash PROVE VisibleInv'
<1>1. UNCHANGED <<pre, todo>>
  BY DEF Crash
<1>2. ASSUME NEW r \in Requests
      PROVE  /\ pc'[r] \in Early \cup Unlisted => pc[r] \in Early \cup Unlisted
             /\ pc'[r] # "clean_row"
             /\ pc[r] \in Unlisted => pc'[r] = "unrecorded"
             /\ pc[r] \in Past => pc'[r] \in Past
  <2>1. pc'[r] = CASE pc[r] \in {"idle", "answered", "unrecorded"} -> pc[r]
                   [] pc[r] = "record" -> "unrecorded"
                   [] OTHER -> "lost"
    BY DEF Crash
  <2> QED BY <2>1 DEF Early, Unlisted, Past
<1>3. \A p \in Creators \cup Deletes : p \in Requests
  BY DEF Creators, Requests
<1>4. \A p \in Creators : pc'[p] \in Early \cup Unlisted => pre'[p].row = "none"
  BY <1>1, <1>2, <1>3 DEF VisibleInv
<1>5. \A q \in Requests : \A p \in todo'[q] : pre'[p].row # "none"
  BY <1>1 DEF VisibleInv
<1>6. PrechecksAccounted'
  BY <1>1, <1>2, <1>3 DEF VisibleInv, PrechecksAccounted, Unlisted, Past
<1> QED BY <1>2, <1>4, <1>5, <1>6 DEF VisibleInv

LEMMA VisibleStep == ASSUME TypeOK, VisibleInv, [Next]_vars PROVE VisibleInv'
<1>1. CASE UNCHANGED vars
  BY <1>1 DEF vars, VisibleInv, PrechecksAccounted, NextChild
<1>2. ASSUME NEW r \in Requests, Progress(r)
      PROVE  VisibleInv'
  BY <1>2, LaunchVisible, CreatorVisible, SaveVisible, DeleteVisible, CleanVisible
  DEF Progress, Creators
<1> QED BY <1>1, <1>2, CrashVisible DEF Next

(* Whatever requests are cut off, repeated or raced by a deletion, a       *)
(* precheck task of MP VM has a visible row by which a later sweep or      *)
(* deletion removes it, except between the two writes of its own request   *)
(* and after a deletion of the audit task.                                 *)
THEOREM PrechecksAreAccounted == Spec => []PrechecksAccounted
<1>1. Init => VisibleInv
  BY DEF Init, VisibleInv, PrechecksAccounted, Creators, Requests
<1>2. TypeOK /\ VisibleInv /\ [Next]_vars => TypeOK' /\ VisibleInv'
  BY TypeStep, VisibleStep
<1>3. VisibleInv => PrechecksAccounted
  BY DEF VisibleInv
<1> QED BY <1>1, <1>2, <1>3, TypeStart, PTL DEF Spec
=============================================================================

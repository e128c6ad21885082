--------------------------- MODULE VmWorkflowProofs ---------------------------
(* A workflow starts each child once and has one thread, ends with what        *)
(* happened to its children, and leaves no case waiting: for any workflows,    *)
(* assets and threads, any number of crashes and failing queries.              *)
EXTENDS VmWorkflow, FiniteSetTheorems, TLAPS

ThreadType == [pc : ThreadPoints, w : Workflows \cup {None}, camp : BOOLEAN, token : BOOLEAN,
               todo : SUBSET Units, got : SUBSET Children, failed : SUBSET Units,
               at : Units \cup {None}]

-----------------------------------------------------------------------------
(* Types.                                                                      *)

LEMMA TypeStart == Init => TypeOK
<1> SUFFICES ASSUME Init PROVE TypeOK
    OBVIOUS
<1>1. IdleThread \in ThreadType
    BY DEF IdleThread, ThreadType, ThreadPoints
<1>2. thread \in [Threads -> ThreadType]
    BY <1>1 DEF Init
<1>3. step \in [Workflows -> [StepKeys -> StepStatuses]]
    BY DEF Init, StepStatuses
<1>4. crashes \in 0..MaxTroubles /\ faults \in 0..MaxTroubles
    BY WorkflowBounds DEF Init
<1> QED BY <1>2, <1>3, <1>4 DEF Init, TypeOK, ThreadType, RequestPoints

\* The steps of a workflow that a write names get a status.
LEMMA StepsTyped ==
    ASSUME TypeOK, NEW w, NEW changed, SetSteps(w, changed),
           \A k \in StepKeys : k \in DOMAIN changed => changed[k] \in StepStatuses
    PROVE  step' \in [Workflows -> [StepKeys -> StepStatuses]]
<1> DEFINE new == [k \in StepKeys |-> IF k \in DOMAIN changed THEN changed[k] ELSE step[w][k]]
<1>1. step \in [Workflows -> [StepKeys -> StepStatuses]]
    BY DEF TypeOK
<1>2. step' = [step EXCEPT ![w] = new]
    BY DEF SetSteps
<1>3. CASE w \in Workflows
    <2>1. new \in [StepKeys -> StepStatuses]
        BY <1>1, <1>3
    <2> HIDE DEF new
    <2> QED BY <1>1, <1>2, <2>1
<1>4. CASE w \notin Workflows
    <2> HIDE DEF new
    <2> QED BY <1>1, <1>2, <1>4
<1> QED BY <1>3, <1>4

\* A thread moves on, and only that thread.
LEMMA GoTyped ==
    ASSUME TypeOK, NEW t \in Threads, NEW pc \in ThreadPoints, Go(t, pc)
    PROVE  /\ thread' \in [Threads -> ThreadType]
           /\ thread'[t] = [thread[t] EXCEPT !.pc = pc]
           /\ \A u \in Threads : u # t => thread'[u] = thread[u]
<1>1. thread \in [Threads -> ThreadType]
    BY DEF TypeOK, ThreadType
<1>2. [thread[t] EXCEPT !.pc = pc] \in ThreadType
    BY <1>1 DEF ThreadType
<1>3. thread' = [thread EXCEPT ![t] = [thread[t] EXCEPT !.pc = pc]]
    BY DEF Go
<1> QED BY <1>1, <1>2, <1>3

LEMMA ScheduleTyped ==
    ASSUME TypeOK, NEW w \in Workflows, Schedule(w)
    PROVE  thread' \in [Threads -> ThreadType] /\ scheduled' \subseteq Workflows
<1>1. thread \in [Threads -> ThreadType] /\ scheduled \subseteq Workflows
    BY DEF TypeOK, ThreadType
<1>2. [IdleThread EXCEPT !.pc = "waiting", !.w = w] \in ThreadType
    BY DEF IdleThread, ThreadType, ThreadPoints
<1>3. CASE w \in scheduled
    BY <1>1, <1>3 DEF Schedule
<1>4. CASE w \notin scheduled
    <2> DEFINE new == [IdleThread EXCEPT !.pc = "waiting", !.w = w]
    <2>1. PICK t \in FreeThread : thread' = [thread EXCEPT ![t] = new] /\ scheduled' = scheduled \cup {w}
        BY <1>4 DEF Schedule
    <2> HIDE DEF new
    <2>2. thread' \in [Threads -> ThreadType]
        BY <1>1, <1>2, <2>1 DEF new
    <2> QED BY <1>1, <2>1, <2>2
<1> QED BY <1>3, <1>4

LEMMA CasesTyped ==
    ASSUME TypeOK, NEW w \in Workflows,
           \/ \E s \in {"queued", "running", "failed"} : SetCampaignVerification(w, s)
           \/ \E bad : FinalizeCampaignVerification(w, bad)
           \/ UNCHANGED cases
    PROVE  /\ open' \in [Assets -> BOOLEAN] /\ owner' \in [Assets -> Workflows \cup {None}]
           /\ verdict' \in [Assets -> {"none", "queued", "running", "passed", "failed"}]
<1>1. /\ open \in [Assets -> BOOLEAN] /\ owner \in [Assets -> Workflows \cup {None}]
      /\ verdict \in [Assets -> {"none", "queued", "running", "passed", "failed"}]
    BY DEF TypeOK
<1>2. ASSUME NEW s \in {"queued", "running", "failed"}, SetCampaignVerification(w, s)
      PROVE  /\ open' \in [Assets -> BOOLEAN] /\ owner' \in [Assets -> Workflows \cup {None}]
             /\ verdict' \in [Assets -> {"none", "queued", "running", "passed", "failed"}]
    BY <1>1, <1>2 DEF SetCampaignVerification
<1>3. ASSUME NEW bad, FinalizeCampaignVerification(w, bad)
      PROVE  /\ open' \in [Assets -> BOOLEAN] /\ owner' \in [Assets -> Workflows \cup {None}]
             /\ verdict' \in [Assets -> {"none", "queued", "running", "passed", "failed"}]
    BY <1>1, <1>3 DEF FinalizeCampaignVerification
<1> QED BY <1>1, <1>2, <1>3 DEF cases

-----------------------------------------------------------------------------
\* Before the children are recorded, only assets have failed: a scan that cannot be
\* started fails its workflow.
Launching == {"waiting", "begin", "start", "launch", "creating", "sending"}

\* What types alone do not say: a request takes over the operations of the workflow that
\* it retries, and a thread starts no child that runs already.
Shape ==
    /\ \A w \in Workflows :
          (req[w] = "reuse" => retryOf[w] \in Workflows) /\ Existing \notin targets[w]
    /\ \A t \in Threads :
          /\ thread[t].pc = "idle" <=> thread[t].w = None
          /\ Existing \notin thread[t].todo
          /\ thread[t].pc \in {"creating", "sending"} => thread[t].at \in Units \ {Existing}
          /\ thread[t].pc \in Launching => thread[t].failed \subseteq Assets

LEMMA AskTypes == ASSUME TypeOK, NEW w \in Workflows, Ask(w) PROVE TypeOK'
<1> USE DEF Create, SetStatus, cases, Outside, bounds, history, RequestPoints, ACTIVE, TERMINAL, KindNames
<1>1. CASE StartScan(w)
    BY <1>1 DEF StartScan, TypeOK, Units
<1>2. CASE TrackScan(w)
    <2>1. <<w, Existing>> \in Children
        BY DEF Children, Units
    <2>2. child' \in [Children -> {"none", "done", "failed", "cancelled"} \cup ChildActive]
        BY <1>2, <2>1 DEF TrackScan, TypeOK, ChildActive
    <2>3. launches' \in [Children -> Nat]
        BY <1>2, <2>1 DEF TrackScan, TypeOK
    <2> QED BY <1>2, <2>2, <2>3 DEF TrackScan, TypeOK, Units
<1>3. CASE StartGroup(w)
    BY <1>3 DEF StartGroup, TypeOK, Units
<1>4. CASE CheckCampaign(w)
    BY <1>4 DEF CheckCampaign, TypeOK, Units
<1>5. CASE Cancel(w)
    <2>1. thread' \in [Threads -> ThreadType]
        <3>1. \A t \in Threads : thread[t] \in ThreadType
            BY DEF TypeOK, ThreadType
        <3>2. \A r \in ThreadType : [r EXCEPT !.token = TRUE] \in ThreadType
            BY DEF ThreadType
        <3> QED BY <1>5, <3>1, <3>2 DEF Cancel
    <2>2. killing' \subseteq Children /\ tooLate' \subseteq Workflows
        BY <1>5 DEF Cancel, TypeOK
    <2>3. cancel' \in [Workflows -> BOOLEAN]
        BY <1>5 DEF Cancel, TypeOK
    <2>4. status' \in [Workflows -> ACTIVE \cup TERMINAL \cup {"absent"}]
        BY <1>5 DEF Cancel, TypeOK
    <2> QED BY <1>5, <2>1, <2>2, <2>3, <2>4 DEF Cancel, TypeOK, ThreadType
<1>6. ASSUME NEW v \in Workflows, Retry(w, v) PROVE TypeOK'
    <2>1. req' \in [Workflows -> RequestPoints]
        BY <1>6 DEF Retry, TypeOK
    <2>2. kind' \in [Workflows -> KindNames \cup {None}] /\ targets' \in [Workflows -> SUBSET Units]
        BY <1>6 DEF Retry, TypeOK
    <2> QED BY <1>6, <2>1, <2>2 DEF Retry, TypeOK
<1> QED BY <1>1, <1>2, <1>3, <1>4, <1>5, <1>6 DEF Ask

LEMMA RequestTypes ==
    ASSUME TypeOK, Shape, NEW w \in Workflows, Request(w) \/ Resume(w) PROVE TypeOK'
<1> USE DEF SetStatus, Outside, bounds, history, RequestPoints, ACTIVE, TERMINAL
<1>1. CASE StartVerification(w)
    BY <1>1 DEF StartVerification, Create, TypeOK, cases, KindNames
<1>2. CASE Attach(w)
    BY <1>2 DEF Attach, TypeOK, cases
<1>3. CASE NothingToVerify(w)
    <2>1. step' \in [Workflows -> [StepKeys -> StepStatuses]]
        BY <1>3, StepsTyped DEF NothingToVerify, StepKeys, StepStatuses
    <2> QED BY <1>3, <2>1 DEF NothingToVerify, TypeOK, cases
<1>4. CASE QueueCases(w)
    <2>1. /\ open' \in [Assets -> BOOLEAN] /\ owner' \in [Assets -> Workflows \cup {None}]
          /\ verdict' \in [Assets -> {"none", "queued", "running", "passed", "failed"}]
        BY <1>4, CasesTyped DEF QueueCases
    <2>2. req' \in [Workflows -> RequestPoints]
        BY <1>4 DEF QueueCases, AfterAttach, TypeOK
    <2> QED BY <1>4, <2>1, <2>2 DEF QueueCases, TypeOK, rows
<1>5. CASE ResumeReconciliation(w)
    <2>1. step' \in [Workflows -> [StepKeys -> StepStatuses]]
        BY <1>5, StepsTyped DEF ResumeReconciliation, StepKeys, StepStatuses
    <2>2. ops' \in [Workflows -> SUBSET Children]
        <3>1. retryOf[w] \in Workflows
            BY <1>5 DEF ResumeReconciliation, Shape
        <3> QED BY <1>5, <3>1 DEF ResumeReconciliation, TypeOK
    <2> QED BY <1>5, <2>1, <2>2 DEF ResumeReconciliation, TypeOK, cases
<1>6. CASE LinkScan(w)
    <2>1. step' \in [Workflows -> [StepKeys -> StepStatuses]]
        BY <1>6, StepsTyped DEF LinkScan, StepKeys, StepStatuses
    <2>2. <<w, Existing>> \in Children
        BY DEF Children, Units
    <2>3. ops' \in [Workflows -> SUBSET Children]
        BY <1>6, <2>2 DEF LinkScan, TypeOK
    <2> QED BY <1>6, <2>1, <2>3 DEF LinkScan, TypeOK, cases
<1>7. CASE ScheduleRequest(w)
    BY <1>7, ScheduleTyped DEF ScheduleRequest, TypeOK, ThreadType, rows, cases
<1>8. CASE Resume(w)
    <2>1. unlinked' \subseteq Workflows
        BY <1>8 DEF Resume, NotedUnlinked, TypeOK
    <2> QED BY <1>8, <2>1, ScheduleTyped DEF Resume, TypeOK, ThreadType, rows, cases
<1> QED BY <1>1, <1>2, <1>3, <1>4, <1>5, <1>6, <1>7, <1>8 DEF Request

-----------------------------------------------------------------------------
\* Starting the children.
LEMMA SettledTyped ==
    ASSUME TypeOK, NEW t \in Threads, NEW c \in Units,
           NEW found \in SUBSET Children, NEW refused \in SUBSET Units, Settled(t, c, found, refused)
    PROVE  thread' \in [Threads -> ThreadType]
<1> DEFINE new == [thread[t] EXCEPT
                      !.todo = @ \ {c}, !.at = None, !.got = @ \cup found, !.failed = @ \cup refused,
                      !.pc = IF c = Task /\ refused # {} THEN "raised" ELSE "launch"]
<1>1. thread \in [Threads -> ThreadType]
    BY DEF TypeOK, ThreadType
<1>2. new \in ThreadType
    <2> DEFINE p == IF c = Task /\ refused # {} THEN "raised" ELSE "launch"
    <2>1. p \in ThreadPoints
        BY DEF ThreadPoints
    <2> HIDE DEF p
    <2>2. [thread[t] EXCEPT !.todo = @ \ {c}, !.at = None, !.got = @ \cup found,
                            !.failed = @ \cup refused, !.pc = p] \in ThreadType
        BY <1>1, <2>1 DEF ThreadType
    <2> QED BY <2>2 DEF p
<1>3. thread' = [thread EXCEPT ![t] = new]
    BY DEF Settled
<1> HIDE DEF new
<1> QED BY <1>1, <1>2, <1>3

LEMMA LaunchTypes ==
    ASSUME TypeOK, Shape, NEW t \in Threads, thread[t].w \in Workflows, Launch(t)
    PROVE  TypeOK'
<1> DEFINE w == thread[t].w
<1>0. /\ w \in Workflows /\ thread \in [Threads -> ThreadType] /\ thread[t] \in ThreadType
      /\ \A c \in Units : <<w, c>> \in Children
    BY DEF TypeOK, ThreadType, Children
<1> HIDE DEF w
<1> USE DEF Beside, bounds, history
<1>1. ASSUME NEW c \in Units, Replay(t, c) \/ RefuseChild(t, c) \/ DropChild(t, c) PROVE TypeOK'
    <2>1. thread' \in [Threads -> ThreadType]
        BY <1>0, <1>1, SettledTyped DEF Replay, RefuseChild, DropChild, w
    <2> QED BY <1>1, <2>1 DEF Replay, RefuseChild, DropChild, TypeOK, ThreadType, rows, cases
<1>2. ASSUME NEW c \in Units, CheckChild(t, c) PROVE TypeOK'
    <2>1. thread' \in [Threads -> ThreadType]
        BY <1>0, <1>2 DEF CheckChild, ThreadType, ThreadPoints
    <2> QED BY <1>2, <2>1 DEF CheckChild, TypeOK, ThreadType, rows, cases
<1>3. CASE CreateChild(t)
    <2>0. thread[t].at \in Units
        BY <1>3 DEF CreateChild, Shape
    <2>1. thread' \in [Threads -> ThreadType]
        <3>1. CASE Go(t, "sending")
            <4>1. "sending" \in ThreadPoints
                BY DEF ThreadPoints
            <4> QED BY <3>1, <4>1, GoTyped
        <3>2. CASE Settled(t, thread[t].at, {}, {thread[t].at})
            BY <2>0, <3>2, SettledTyped
        <3> QED BY <1>3, <3>1, <3>2 DEF CreateChild
    <2>2. child' \in [Children -> {"none", "done", "failed", "cancelled"} \cup ChildActive]
        BY <1>3 DEF CreateChild, TypeOK, ChildActive
    <2> QED BY <1>3, <2>1, <2>2 DEF CreateChild, TypeOK, ThreadType, rows, cases
<1>4. CASE SendChild(t) \/ SendFails(t)
    <2>0. thread[t].at \in Units
        BY <1>4 DEF SendChild, SendFails, Shape
    <2>1. thread' \in [Threads -> ThreadType]
        <3>1. CASE SendChild(t)
            <4>1. Settled(t, thread[t].at, {<<w, thread[t].at>>}, {})
                BY <3>1 DEF SendChild, w
            <4> QED BY <1>0, <2>0, <4>1, SettledTyped
        <3>2. CASE SendFails(t)
            <4>1. Settled(t, thread[t].at, {}, {thread[t].at})
                BY <3>2 DEF SendFails
            <4> QED BY <1>0, <2>0, <4>1, SettledTyped
        <3> QED BY <1>4, <3>1, <3>2
    <2>2. child' \in [Children -> {"none", "done", "failed", "cancelled"} \cup ChildActive]
        BY <1>4 DEF SendChild, SendFails, TypeOK, ChildActive
    <2>3. launches' \in [Children -> Nat]
        <3> DEFINE o == <<thread[t].w, thread[t].at>>
        <3>1. o \in Children /\ launches \in [Children -> Nat]
            BY <1>0, <2>0 DEF w, TypeOK
        <3> HIDE DEF o
        <3>2. launches' = [launches EXCEPT ![o] = @ + 1]
            BY <1>4 DEF SendChild, SendFails, o
        <3> QED BY <3>1, <3>2
    <2> QED BY <1>4, <2>1, <2>2, <2>3 DEF SendChild, SendFails, TypeOK, ThreadType, rows, cases
<1>5. CASE Record(t)
    <2>1. thread' \in [Threads -> ThreadType]
        BY <1>5, GoTyped DEF Record, ThreadPoints
    <2>2. step' \in [Workflows -> [StepKeys -> StepStatuses]]
        BY <1>0, <1>5, StepsTyped DEF Record, w, StepKeys, StepStatuses
    <2>3. ops' \in [Workflows -> SUBSET Children]
        BY <1>0, <1>5 DEF Record, w, TypeOK, ThreadType
    <2>4. errors' \in [Workflows -> SUBSET Assets]
        BY <1>0, <1>5 DEF Record, w, TypeOK, Shape, Launching
    <2> QED BY <1>5, <2>1, <2>2, <2>3, <2>4 DEF Record, TypeOK, ThreadType, cases
<1> QED BY <1>1, <1>2, <1>3, <1>4, <1>5 DEF Launch

-----------------------------------------------------------------------------
\* Threads: the part of a step that a thread leaves alone.
LEMMA ThreadTypes ==
    ASSUME TypeOK, Shape, NEW t \in Threads, thread[t].w \in Workflows,
           Run(t) \/ DatabaseFails(t)
    PROVE  TypeOK'
<1> DEFINE w == thread[t].w
<1>0. /\ w \in Workflows /\ thread \in [Threads -> ThreadType]
      /\ thread[t] \in ThreadType /\ targets[w] \in SUBSET Units
      /\ ops[w] \in SUBSET Children /\ errors[w] \in SUBSET Assets
    BY DEF TypeOK, ThreadType
<1> HIDE DEF w
<1> USE DEF SetStatus, Beside, bounds, history
<1>1. CASE Open(t)
    <2>1. thread' \in [Threads -> ThreadType]
        BY <1>0, <1>1 DEF Open, w, TypeOK, ThreadType, ThreadPoints
    <2> QED BY <1>1, <2>1 DEF Open, TypeOK, ThreadType, rows, cases
<1>2. CASE Begin(t)
    <2>1. thread' \in [Threads -> ThreadType]
        BY <1>2, GoTyped DEF Begin, ThreadPoints
    <2> QED BY <1>0, <1>2, <2>1 DEF Begin, w, TypeOK, ThreadType, cases, ACTIVE
<1>3. CASE Start(t)
    <2>1. thread' \in [Threads -> ThreadType]
        BY <1>0, <1>3 DEF Start, w, ThreadType, ThreadPoints
    <2>2. step' \in [Workflows -> [StepKeys -> StepStatuses]]
        BY <1>0, <1>3, StepsTyped DEF Start, w, StepKeys, StepStatuses
    <2>3. /\ open' \in [Assets -> BOOLEAN] /\ owner' \in [Assets -> Workflows \cup {None}]
          /\ verdict' \in [Assets -> {"none", "queued", "running", "passed", "failed"}]
        BY <1>0, <1>3, CasesTyped DEF Start, w
    <2> QED BY <1>3, <2>1, <2>2, <2>3 DEF Start, TypeOK, ThreadType
<1>4. CASE CompleteWithoutOperations(t)
    <2>1. thread' \in [Threads -> ThreadType]
        BY <1>4, GoTyped DEF CompleteWithoutOperations, ThreadPoints
    <2>2. step' \in [Workflows -> [StepKeys -> StepStatuses]]
        BY <1>0, <1>4, StepsTyped DEF CompleteWithoutOperations, w, StepKeys, StepStatuses
    <2>3. /\ open' \in [Assets -> BOOLEAN] /\ owner' \in [Assets -> Workflows \cup {None}]
          /\ verdict' \in [Assets -> {"none", "queued", "running", "passed", "failed"}]
        BY <1>0, <1>4, CasesTyped DEF CompleteWithoutOperations, w
    <2> QED BY <1>4, <2>1, <2>2, <2>3 DEF CompleteWithoutOperations, TypeOK, ThreadType
<1>5. CASE MonitorCancelled(t)
    <2>1. thread' \in [Threads -> ThreadType]
        BY <1>0, <1>5 DEF MonitorCancelled, w, TypeOK, ThreadType, ThreadPoints
    <2> QED BY <1>5, <2>1 DEF MonitorCancelled, TypeOK, ThreadType, rows, cases
<1>15. CASE MonitorLooks(t)
    <2>1. thread' \in [Threads -> ThreadType]
        BY <1>0, <1>15 DEF MonitorLooks, w, TypeOK, ThreadType, ThreadPoints
    <2> QED BY <1>15, <2>1 DEF MonitorLooks, TypeOK, ThreadType, rows, cases
<1>16. CASE MonitorWaits(t)
    <2>1. thread' \in [Threads -> ThreadType]
        BY <1>16, GoTyped DEF MonitorWaits, ThreadPoints
    <2> QED BY <1>16, <2>1 DEF MonitorWaits, TypeOK, ThreadType, rows, cases
<1>6. CASE MonitorFinished(t)
    <2> DEFINE bad == Unsuccessful(thread[t].got)
               lost == {o[2] : o \in bad} \cup errors[w]
               new == [thread[t] EXCEPT !.pc = "reconcile", !.failed = lost]
    <2>1. lost \in SUBSET Units
        <3>1. thread[t].got \in SUBSET Children
            BY <1>0 DEF ThreadType
        <3>2. \A o \in Children : o[2] \in Units
            BY DEF Children
        <3> QED BY <1>0, <3>1, <3>2 DEF Unsuccessful, Units
    <2>2. thread' = [thread EXCEPT ![t] = new]
        BY <1>6 DEF MonitorFinished, w
    <2> HIDE DEF bad, lost
    <2>4. new \in ThreadType
        BY <1>0, <2>1 DEF ThreadType, ThreadPoints
    <2> HIDE DEF new
    <2>5. thread' \in [Threads -> ThreadType]
        BY <1>0, <2>2, <2>4
    <2>6. step' \in [Workflows -> [StepKeys -> StepStatuses]]
        BY <1>0, <1>6, StepsTyped DEF MonitorFinished, w, StepKeys, StepStatuses
    <2> QED BY <1>6, <2>5, <2>6 DEF MonitorFinished, TypeOK, ThreadType, cases
<1>7. CASE Reconcile(t)
    <2>1. thread' \in [Threads -> ThreadType]
        BY <1>7, GoTyped DEF Reconcile, ThreadPoints
    <2>2. step' \in [Workflows -> [StepKeys -> StepStatuses]]
        BY <1>0, <1>7, StepsTyped DEF Reconcile, w, StepKeys, StepStatuses
    <2>3. open' \in [Assets -> BOOLEAN]
        <3>1. CASE open' = open
            BY <3>1 DEF TypeOK
        <3>2. CASE \E R \in SUBSET Assets : open' = [a \in Assets |-> open[a] /\ a \notin R]
            BY <3>2
        <3> QED BY <1>7, <3>1, <3>2 DEF Reconcile
    <2> QED BY <1>7, <2>1, <2>2, <2>3 DEF Reconcile, TypeOK, ThreadType
<1>8. CASE Finalize(t)
    <2>1. thread' \in [Threads -> ThreadType]
        BY <1>8, GoTyped DEF Finalize, ThreadPoints
    <2>2. /\ open' \in [Assets -> BOOLEAN] /\ owner' \in [Assets -> Workflows \cup {None}]
          /\ verdict' \in [Assets -> {"none", "queued", "running", "passed", "failed"}]
        BY <1>0, <1>8, CasesTyped DEF Finalize, w
    <2> QED BY <1>8, <2>1, <2>2 DEF Finalize, TypeOK, ThreadType, rows
<1>9. CASE Complete(t)
    <2>1. thread' \in [Threads -> ThreadType]
        BY <1>9, GoTyped DEF Complete, ThreadPoints
    <2> QED BY <1>0, <1>9, <2>1 DEF Complete, w, TypeOK, ThreadType, cases, TERMINAL
<1>10. CASE FinishCancelled(t)
    <2>1. thread' \in [Threads -> ThreadType]
        BY <1>10, GoTyped DEF FinishCancelled, ThreadPoints
    <2>2. step' \in [Workflows -> [StepKeys -> StepStatuses]]
        BY <1>0, <1>10, StepsTyped DEF FinishCancelled, w, StepStatuses
    <2> QED BY <1>0, <1>10, <2>1, <2>2 DEF FinishCancelled, w, TypeOK, ThreadType, cases, TERMINAL
<1>11. CASE Fail(t)
    <2>1. CASE status[w] \in TERMINAL
        <3>1. thread' \in [Threads -> ThreadType]
            BY <1>11, <2>1, GoTyped DEF Fail, w, ThreadPoints
        <3> QED BY <1>11, <2>1, <3>1 DEF Fail, w, TypeOK, ThreadType, cases
    <2>2. CASE status[w] \notin TERMINAL
        <3>1. thread' \in [Threads -> ThreadType]
            <4>1. campaign[w] \in BOOLEAN
                BY <1>0 DEF TypeOK
            <4>2. [thread[t] EXCEPT !.pc = "tell_failed", !.camp = campaign[w]] \in ThreadType
                BY <1>0, <4>1 DEF ThreadType, ThreadPoints
            <4> QED BY <1>0, <1>11, <2>2, <4>2 DEF Fail, w
        <3>2. step' \in [Workflows -> [StepKeys -> StepStatuses]]
            BY <1>0, <1>11, <2>2, StepsTyped DEF Fail, w, StepStatuses
        <3> QED BY <1>0, <1>11, <2>2, <3>1, <3>2 DEF Fail, w, TypeOK, ThreadType, cases, TERMINAL
    <2> QED BY <2>1, <2>2
<1>12. CASE Tell(t)
    <2>1. thread' \in [Threads -> ThreadType]
        BY <1>12, GoTyped DEF Tell, ThreadPoints
    <2>2. /\ open' \in [Assets -> BOOLEAN] /\ owner' \in [Assets -> Workflows \cup {None}]
          /\ verdict' \in [Assets -> {"none", "queued", "running", "passed", "failed"}]
        BY <1>0, <1>12, CasesTyped DEF Tell, w
    <2> QED BY <1>12, <2>1, <2>2 DEF Tell, TypeOK, ThreadType, rows
<1>13. CASE Forget(t)
    <2>1. thread' \in [Threads -> ThreadType]
        BY <1>0, <1>13 DEF Forget, IdleThread, ThreadType, ThreadPoints
    <2> QED BY <1>13, <2>1 DEF Forget, TypeOK, ThreadType, rows, cases
<1>14. CASE DatabaseFails(t)
    <2>1. thread' \in [Threads -> ThreadType]
        BY <1>14, GoTyped DEF DatabaseFails, ThreadPoints
    <2>2. faults' \in 0..MaxTroubles /\ cutOff' \subseteq Workflows
        BY <1>0, <1>14, WorkflowBounds DEF DatabaseFails, w, TypeOK
    <2> QED BY <1>14, <2>1, <2>2 DEF DatabaseFails, TypeOK, ThreadType, rows, cases
<1> QED
    BY <1>1, <1>2, <1>3, <1>4, <1>5, <1>6, <1>7, <1>8, <1>9, <1>10, <1>11, <1>12, <1>13, <1>14,
       <1>15, <1>16, LaunchTypes DEF Run

-----------------------------------------------------------------------------
\* The process and the world.
LEMMA StopTypes == ASSUME TypeOK, Shape, Shutdown \/ Crash \/ Exit PROVE TypeOK'
<1>1. thread \in [Threads -> ThreadType] /\ IdleThread \in ThreadType
    BY DEF TypeOK, IdleThread, ThreadType, ThreadPoints
<1>2. CASE Shutdown
    <2>1. \A r \in ThreadType :
             [r EXCEPT !.pc = "done"] \in ThreadType /\ [r EXCEPT !.token = TRUE] \in ThreadType
        BY DEF ThreadType, ThreadPoints
    <2>2. thread' \in [Threads -> ThreadType]
        BY <1>1, <1>2, <2>1 DEF Shutdown
    <2>3. crashes' \in 0..MaxTroubles
        BY <1>2, WorkflowBounds DEF Shutdown, MayStop, TypeOK
    <2> QED BY <1>2, <2>2, <2>3 DEF Shutdown, TypeOK, ThreadType, rows, cases, history
<1>3. CASE Restart /\ crashes' \in 0..MaxTroubles
    <2>1. thread' \in [Threads -> ThreadType]
        BY <1>1, <1>3 DEF Restart
    <2>2. cutOff' \subseteq Workflows
        <3>1. ASSUME NEW u \in Threads, thread[u].pc \in Telling PROVE thread[u].w \in Workflows
            BY <3>1 DEF Telling, Shape, TypeOK
        <3> QED BY <1>3, <3>1 DEF Restart, TypeOK
    <2>3. req' \in [Workflows -> RequestPoints] /\ scheduled' \subseteq Workflows /\ killing' \subseteq Children
        BY <1>3 DEF Restart, RequestPoints
    <2>4. unlinked' \subseteq Workflows
        BY <1>3 DEF Restart, NotedUnlinked, TypeOK
    <2> QED BY <1>3, <2>1, <2>2, <2>3, <2>4 DEF Restart, TypeOK, ThreadType, rows, cases
<1>4. CASE Crash
    BY <1>3, <1>4, WorkflowBounds DEF Crash, MayStop, TypeOK
<1>5. CASE Exit
    BY <1>3, <1>5 DEF Exit, TypeOK
<1> QED BY <1>2, <1>4, <1>5

LEMMA WorldTypes ==
    ASSUME TypeOK,
           \/ \E o \in Children : ChildEnds(o) \/ CancelChild(o)
           \/ \E a \in Assets : CaseResolved(a)
    PROVE  TypeOK'
<1>1. ASSUME NEW o \in Children, ChildEnds(o) PROVE TypeOK'
    <2>1. child' \in [Children -> {"none", "done", "failed", "cancelled"} \cup ChildActive]
        <3>1. PICK s \in {"done", "failed"} : child' = [child EXCEPT ![o] = s]
            BY <1>1 DEF ChildEnds
        <3> QED BY <3>1 DEF TypeOK
    <2> QED BY <1>1, <2>1 DEF ChildEnds, TypeOK, rows, cases, process, bounds, history
<1>2. ASSUME NEW o \in Children, CancelChild(o) PROVE TypeOK'
    <2>1. child' \in [Children -> {"none", "done", "failed", "cancelled"} \cup ChildActive]
        BY <1>2 DEF CancelChild, TypeOK
    <2> QED BY <1>2, <2>1 DEF CancelChild, TypeOK, rows, cases, bounds, history
<1>3. ASSUME NEW a \in Assets, CaseResolved(a) PROVE TypeOK'
    BY <1>3 DEF CaseResolved, TypeOK, rows, process, bounds, history
<1> QED BY <1>1, <1>2, <1>3

-----------------------------------------------------------------------------
(* What the steps do to the threads.                                           *)

Others(t) == \A u \in Threads : u # t => thread'[u] = thread[u]

\* A thread stays with its workflow.
Moved(t, pc) ==
    /\ Others(t)
    /\ thread'[t].pc = pc /\ thread'[t].w = thread[t].w /\ thread'[t].at = thread[t].at

\* Only the status of the thread's workflow changes, and the workflow is not absent after that.
StatusOf(w) ==
    /\ \A v \in Workflows : v # w => status'[v] = status[v]
    /\ status'[w] = "absent" => status[w] = "absent"

LEMMA GoEffect ==
    ASSUME TypeOK, NEW t \in Threads, NEW pc \in ThreadPoints, Go(t, pc)
    PROVE  /\ Moved(t, pc)
           /\ thread'[t].todo = thread[t].todo /\ thread'[t].failed = thread[t].failed
           /\ thread'[t].got = thread[t].got /\ thread'[t].camp = thread[t].camp
<1>1. thread[t] \in ThreadType
    BY DEF TypeOK, ThreadType
<1>2. thread'[t] = [thread[t] EXCEPT !.pc = pc] /\ Others(t)
    BY GoTyped DEF Others
<1> HIDE DEF ThreadPoints
<1> QED BY <1>1, <1>2 DEF ThreadType, Moved

\* A workflow gets a thread of its own, unless it has one.
LEMMA ScheduleEffect ==
    ASSUME TypeOK, NEW w \in Workflows, Schedule(w)
    PROVE  \/ UNCHANGED <<thread, scheduled>> /\ w \in scheduled
           \/ /\ w \notin scheduled /\ scheduled' = scheduled \cup {w}
              /\ \E t \in Threads :
                    /\ thread[t].pc = "idle" /\ Others(t)
                    /\ thread'[t] = [IdleThread EXCEPT !.pc = "waiting", !.w = w]
<1>1. CASE w \in scheduled
    BY <1>1 DEF Schedule
<1>2. CASE w \notin scheduled
    <2> DEFINE new == [IdleThread EXCEPT !.pc = "waiting", !.w = w]
    <2>1. PICK t \in FreeThread : thread' = [thread EXCEPT ![t] = new] /\ scheduled' = scheduled \cup {w}
        BY <1>2 DEF Schedule
    <2>2. t \in Threads /\ thread[t].pc = "idle"
        BY <2>1 DEF FreeThread
    <2> HIDE DEF new
    <2>3. thread'[t] = new /\ Others(t)
        BY <2>1, <2>2 DEF TypeOK, Others
    <2> QED BY <1>2, <2>1, <2>2, <2>3 DEF new
<1> QED BY <1>1, <1>2

\* The steps of a thread other than the start of the children and the last one.
Between(t) == (Run(t) /\ ~Launch(t) /\ ~Forget(t)) \/ DatabaseFails(t)

BetweenStep(t) ==
    /\ Moved(t, thread'[t].pc)
    /\ thread[t].pc # "idle"
    /\ thread'[t].pc \notin {"idle", "waiting", "creating", "sending"}
    /\ thread'[t].pc \in Launching => thread[t].pc \in Launching /\ thread'[t].failed = thread[t].failed
    /\ thread'[t].todo \in {thread[t].todo, targets[thread[t].w]}
    /\ UNCHANGED <<req, kind, targets, retryOf, ops, errors, child, launches, scheduled>>
    /\ StatusOf(thread[t].w)

\* One place after another is written into the thread's copy.
LEMMA BetweenEffect ==
    ASSUME TypeOK, NEW t \in Threads, thread[t].w \in Workflows, Between(t)
    PROVE  BetweenStep(t)
<1>0. thread[t] \in ThreadType /\ thread \in [Threads -> ThreadType]
      /\ status \in [Workflows -> ACTIVE \cup TERMINAL \cup {"absent"}]
    BY DEF TypeOK, ThreadType
<1> USE DEF SetStatus, Beside
<1>1. CASE Open(t)
    <2> DEFINE w == thread[t].w
               pc == IF ~Active(w) THEN "done" ELSE IF cancel[w] THEN "cancelling" ELSE "begin"
    <2>1. thread' = [thread EXCEPT ![t] = [thread[t] EXCEPT
                        !.token = FALSE, !.camp = campaign[w], !.got = ops[w], !.pc = pc]]
        BY <1>1 DEF Open
    <2>2. pc \in {"done", "cancelling", "begin"}
        OBVIOUS
    <2> HIDE DEF pc
    <2>3. /\ Moved(t, pc) /\ thread'[t].failed = thread[t].failed
          /\ thread'[t].todo = thread[t].todo
        BY <1>0, <2>1 DEF ThreadType, Moved, Others
    <2> QED BY <1>1, <2>2, <2>3 DEF Open, BetweenStep, Moved, StatusOf, Launching, rows
<1>2. CASE Begin(t)
    <2>1. PICK pc \in {"start", "monitor"} : Go(t, pc)
        BY <1>2 DEF Begin
    <2>2. /\ Moved(t, pc) /\ thread'[t].failed = thread[t].failed
          /\ thread'[t].todo = thread[t].todo
        BY <2>1, GoEffect DEF ThreadPoints
    <2>3. StatusOf(thread[t].w)
        BY <1>0, <1>2 DEF Begin, StatusOf
    <2> QED BY <1>2, <2>2, <2>3 DEF Begin, BetweenStep, Moved, Launching
<1>3. CASE Start(t)
    <2>1. thread' = [thread EXCEPT ![t] = [thread[t] EXCEPT !.pc = "launch", !.todo = targets[thread[t].w]]]
        BY <1>0, <1>3 DEF Start, ThreadType
    <2>2. /\ Moved(t, "launch") /\ thread'[t].failed = thread[t].failed
          /\ thread'[t].todo = targets[thread[t].w]
        BY <1>0, <2>1 DEF ThreadType, Moved, Others
    <2> QED BY <1>3, <2>2 DEF Start, BetweenStep, Moved, StatusOf, Launching
<1>4. CASE CompleteWithoutOperations(t)
    <2>1. /\ Moved(t, "complete") /\ thread'[t].failed = thread[t].failed
          /\ thread'[t].todo = thread[t].todo
        BY <1>4, GoEffect DEF CompleteWithoutOperations, ThreadPoints
    <2> QED BY <1>4, <2>1 DEF CompleteWithoutOperations, BetweenStep, Moved, StatusOf, Launching
<1>5. CASE MonitorCancelled(t)
    <2>1. /\ Moved(t, "cancelling") /\ thread'[t].failed = thread[t].failed
          /\ thread'[t].todo = thread[t].todo
        <3>1. thread' = [thread EXCEPT ![t] = [thread[t] EXCEPT !.pc = "cancelling", !.camp = campaign[thread[t].w]]]
            BY <1>0, <1>5 DEF MonitorCancelled, ThreadType
        <3> QED BY <1>0, <3>1 DEF ThreadType, Moved, Others
    <2> QED BY <1>5, <2>1 DEF MonitorCancelled, BetweenStep, Moved, StatusOf, Launching, rows
<1>14. CASE MonitorLooks(t)
    <2>1. thread' = [thread EXCEPT ![t] = [thread[t] EXCEPT !.pc = "reading", !.camp = campaign[thread[t].w]]]
        BY <1>0, <1>14 DEF MonitorLooks, ThreadType
    <2>2. Moved(t, "reading") /\ thread'[t].failed = thread[t].failed /\ thread'[t].todo = thread[t].todo
        BY <1>0, <2>1 DEF ThreadType, Moved, Others
    <2> QED BY <1>14, <2>2 DEF MonitorLooks, BetweenStep, Moved, StatusOf, Launching, rows
<1>15. CASE MonitorWaits(t)
    <2>1. Moved(t, "monitor") /\ thread'[t].failed = thread[t].failed /\ thread'[t].todo = thread[t].todo
        BY <1>15, GoEffect DEF MonitorWaits, ThreadPoints
    <2> QED BY <1>15, <2>1 DEF MonitorWaits, BetweenStep, Moved, StatusOf, Launching, rows
<1>6. CASE MonitorFinished(t)
    <2> DEFINE w == thread[t].w
               bad == {o[2] : o \in Unsuccessful(thread[t].got)} \cup errors[w]
    <2>1. thread' = [thread EXCEPT ![t] = [thread[t] EXCEPT !.pc = "reconcile", !.failed = bad]]
        BY <1>6 DEF MonitorFinished
    <2> HIDE DEF bad
    <2>2. Moved(t, "reconcile") /\ thread'[t].todo = thread[t].todo
        BY <1>0, <2>1 DEF ThreadType, Moved, Others
    <2> QED BY <1>6, <2>2 DEF MonitorFinished, BetweenStep, Moved, StatusOf, Launching
<1>7. CASE Reconcile(t)
    <2>1. Moved(t, "finalize") /\ thread'[t].todo = thread[t].todo
        BY <1>7, GoEffect DEF Reconcile, ThreadPoints
    <2> QED BY <1>7, <2>1 DEF Reconcile, BetweenStep, Moved, StatusOf, Launching
<1>8. CASE Finalize(t)
    <2>1. Moved(t, "complete") /\ thread'[t].todo = thread[t].todo
        BY <1>8, GoEffect DEF Finalize, ThreadPoints
    <2> QED BY <1>8, <2>1 DEF Finalize, BetweenStep, Moved, StatusOf, Launching, rows
<1>9. CASE Complete(t)
    <2>1. Moved(t, "done") /\ thread'[t].todo = thread[t].todo
        BY <1>9, GoEffect DEF Complete, ThreadPoints
    <2>2. StatusOf(thread[t].w)
        BY <1>0, <1>9 DEF Complete, StatusOf
    <2> QED BY <1>9, <2>1, <2>2 DEF Complete, BetweenStep, Moved, Launching
<1>10. CASE FinishCancelled(t)
    <2>1. Moved(t, "tell_cancelled") /\ thread'[t].todo = thread[t].todo
        BY <1>10, GoEffect DEF FinishCancelled, ThreadPoints
    <2>2. StatusOf(thread[t].w)
        BY <1>0, <1>10 DEF FinishCancelled, StatusOf
    <2> QED BY <1>10, <2>1, <2>2 DEF FinishCancelled, BetweenStep, Moved, Launching
<1>11. CASE Fail(t)
    <2>1. CASE status[thread[t].w] \in TERMINAL
        <3>1. Moved(t, "done") /\ thread'[t].todo = thread[t].todo
            BY <1>11, <2>1, GoEffect DEF Fail, ThreadPoints
        <3> QED BY <1>11, <2>1, <3>1 DEF Fail, BetweenStep, Moved, StatusOf, Launching
    <2>2. CASE status[thread[t].w] \notin TERMINAL
        <3>1. thread' = [thread EXCEPT ![t] = [thread[t] EXCEPT !.pc = "tell_failed", !.camp = campaign[thread[t].w]]]
            BY <1>0, <1>11, <2>2 DEF Fail, ThreadType
        <3>2. Moved(t, "tell_failed") /\ thread'[t].todo = thread[t].todo
            BY <1>0, <3>1 DEF ThreadType, Moved, Others
        <3>3. StatusOf(thread[t].w)
            BY <1>0, <1>11, <2>2 DEF Fail, StatusOf
        <3> QED BY <1>11, <3>2, <3>3 DEF Fail, BetweenStep, Moved, Launching
    <2> QED BY <2>1, <2>2
<1>12. CASE Tell(t)
    <2>1. Moved(t, "done") /\ thread'[t].todo = thread[t].todo
        BY <1>12, GoEffect DEF Tell, ThreadPoints
    <2> QED BY <1>12, <2>1 DEF Tell, BetweenStep, Moved, StatusOf, Launching, rows
<1>13. CASE DatabaseFails(t)
    <2>1. PICK pc \in {"done", "raised"} : Go(t, pc)
        BY <1>13 DEF DatabaseFails
    <2>2. Moved(t, pc) /\ thread'[t].todo = thread[t].todo
        BY <2>1, GoEffect DEF ThreadPoints
    <2> QED BY <1>13, <2>2 DEF DatabaseFails, BetweenStep, Moved, StatusOf, Launching, rows
<1> QED
    BY <1>1, <1>2, <1>3, <1>4, <1>5, <1>6, <1>7, <1>8, <1>9, <1>10, <1>11, <1>12, <1>13, <1>14, <1>15
    DEF Between, Run

\* The start of the children: one after the other, each put down in the copy of the thread.
LEMMA SettledEffect ==
    ASSUME TypeOK, NEW t \in Threads, NEW c, NEW found, NEW refused, Settled(t, c, found, refused)
    PROVE  /\ Others(t)
           /\ thread'[t].w = thread[t].w /\ thread'[t].camp = thread[t].camp /\ thread'[t].at = None
           /\ thread'[t].todo = thread[t].todo \ {c}
           /\ thread'[t].failed = thread[t].failed \cup refused
           /\ thread'[t].pc = IF c = Task /\ refused # {} THEN "raised" ELSE "launch"
<1>1. thread[t] \in ThreadType /\ thread \in [Threads -> ThreadType]
    BY DEF TypeOK, ThreadType
<1> DEFINE pc == IF c = Task /\ refused # {} THEN "raised" ELSE "launch"
<1>2. thread' = [thread EXCEPT ![t] = [thread[t] EXCEPT
                    !.todo = @ \ {c}, !.at = None, !.got = @ \cup found, !.failed = @ \cup refused, !.pc = pc]]
    BY DEF Settled
<1> HIDE DEF pc
<1>3. Others(t)
    BY <1>1, <1>2 DEF Others
<1>4. /\ thread'[t].w = thread[t].w /\ thread'[t].camp = thread[t].camp /\ thread'[t].at = None
      /\ thread'[t].todo = thread[t].todo \ {c}
      /\ thread'[t].failed = thread[t].failed \cup refused
      /\ thread'[t].pc = pc
    BY <1>1, <1>2 DEF ThreadType
<1> QED BY <1>3, <1>4 DEF pc

Starting == {"launch", "creating", "sending"}

\* What the thread keeps, and where it goes.
LaunchStep(t) ==
    /\ Others(t)
    /\ thread'[t].w = thread[t].w /\ thread'[t].camp = thread[t].camp
    /\ thread[t].pc \in Starting /\ thread'[t].pc \in Starting \cup {"monitor", "no_operations", "raised"}
    /\ thread'[t].todo \subseteq thread[t].todo
    /\ thread'[t].pc \in {"creating", "sending"} => thread'[t].at \in Units \ {Existing}
    /\ thread'[t].pc \in Starting => thread'[t].failed \subseteq Assets
    /\ UNCHANGED <<req, status, cancel, kind, targets, campaign, retryOf, scheduled, cases>>

\* What happens to the child: its row, then its start.
ChildStep(t) ==
    LET o == <<thread[t].w, thread[t].at>> IN
    \/ UNCHANGED <<child, launches>> /\ thread'[t].pc # "sending"
    \/ /\ thread[t].pc = "creating" /\ child[o] = "none" /\ child' = [child EXCEPT ![o] = "created"]
       /\ thread'[t].pc = "sending" /\ thread'[t].at = thread[t].at /\ UNCHANGED launches
    \/ /\ thread[t].pc = "sending" /\ thread'[t].pc # "sending"
       /\ \E s \in {"running", "failed"} : child' = [child EXCEPT ![o] = s]
       /\ launches' = [launches EXCEPT ![o] = @ + 1]

\* A child that is settled is not a scan that nobody tracked.
LEMMA SettledStep ==
    ASSUME TypeOK, Shape, NEW t \in Threads, thread[t].pc \in Starting,
           NEW c \in Assets \cup {Task}, NEW found, NEW refused \in {{}, {c}}, Settled(t, c, found, refused),
           UNCHANGED <<rows, cases, Beside>>
    PROVE  LaunchStep(t) /\ thread'[t].pc \in {"launch", "raised"}
<1>1. thread[t].failed \subseteq Assets
    BY DEF Shape, Launching, Starting
<1>2. /\ Others(t)
      /\ thread'[t].w = thread[t].w /\ thread'[t].camp = thread[t].camp /\ thread'[t].at = None
      /\ thread'[t].todo = thread[t].todo \ {c}
      /\ thread'[t].failed = thread[t].failed \cup refused
      /\ thread'[t].pc = IF c = Task /\ refused # {} THEN "raised" ELSE "launch"
    BY SettledEffect
<1>3. thread'[t].pc = "launch" => thread'[t].failed \subseteq Assets
    BY <1>1, <1>2
<1> QED BY <1>2, <1>3 DEF LaunchStep, Starting, rows, Beside

LEMMA LaunchEffect ==
    ASSUME TypeOK, Shape, NEW t \in Threads, Launch(t)
    PROVE  LaunchStep(t) /\ ChildStep(t)
<1>0. /\ thread[t] \in ThreadType /\ thread \in [Threads -> ThreadType]
      /\ thread[t].pc \in Starting => thread[t].failed \subseteq Assets
    BY DEF TypeOK, ThreadType, Shape, Launching, Starting
<1>1. ASSUME NEW c \in Units, Replay(t, c) \/ RefuseChild(t, c) \/ DropChild(t, c)
      PROVE  LaunchStep(t) /\ ChildStep(t)
    <2>1. thread[t].pc = "launch" /\ c \in thread[t].todo
        BY <1>1 DEF Replay, RefuseChild, DropChild, Upcoming
    <2>2. c \in Assets \cup {Task}
        BY <2>1 DEF Units, Shape
    <2>3. UNCHANGED <<rows, child, cases, launches, Beside>>
        BY <1>1 DEF Replay, RefuseChild, DropChild
    <2>4. \/ Settled(t, c, {<<thread[t].w, c>>}, {}) \/ Settled(t, c, {}, {c}) \/ Settled(t, c, {}, {})
        BY <1>1 DEF Replay, RefuseChild, DropChild
    <2>5. LaunchStep(t) /\ thread'[t].pc \in {"launch", "raised"}
        BY <2>1, <2>2, <2>3, <2>4, SettledStep DEF Starting
    <2> QED BY <2>3, <2>5 DEF ChildStep
<1>2. ASSUME NEW c \in Units, CheckChild(t, c) PROVE LaunchStep(t) /\ ChildStep(t)
    <2>1. thread[t].pc = "launch" /\ c \in thread[t].todo /\ c # Existing
        BY <1>2 DEF CheckChild, Upcoming, Shape
    <2>2. thread' = [thread EXCEPT ![t] = [thread[t] EXCEPT !.pc = "creating", !.at = c]]
        BY <1>0, <1>2 DEF CheckChild, ThreadType
    <2>3. /\ Others(t) /\ thread'[t].w = thread[t].w /\ thread'[t].camp = thread[t].camp
          /\ thread'[t].pc = "creating" /\ thread'[t].at = c
          /\ thread'[t].todo = thread[t].todo /\ thread'[t].failed = thread[t].failed
        BY <1>0, <2>2 DEF ThreadType, Others
    <2> QED BY <1>0, <1>2, <2>1, <2>3 DEF CheckChild, LaunchStep, ChildStep, Starting, rows, Beside
<1>3. CASE CreateChild(t)
    <2>1. /\ thread[t].pc = "creating" /\ thread[t].at \in Assets \cup {Task}
          /\ UNCHANGED <<rows, cases, launches, Beside>>
        BY <1>3 DEF CreateChild, Shape, Units
    <2>2. CASE child[<<thread[t].w, thread[t].at>>] = "none"
        <3>1. /\ Moved(t, "sending") /\ thread'[t].camp = thread[t].camp
              /\ thread'[t].todo = thread[t].todo /\ thread'[t].failed = thread[t].failed
            BY <1>3, <2>2, GoEffect DEF CreateChild, ThreadPoints
        <3>2. child' = [child EXCEPT ![<<thread[t].w, thread[t].at>>] = "created"]
            BY <1>3, <2>2 DEF CreateChild
        <3>3. LaunchStep(t)
            BY <1>0, <2>1, <3>1 DEF LaunchStep, Moved, Starting, rows, Beside, Units, Shape
        <3> QED BY <2>1, <2>2, <3>1, <3>2, <3>3 DEF ChildStep, Moved
    <2>3. CASE child[<<thread[t].w, thread[t].at>>] # "none"
        <3>1. Settled(t, thread[t].at, {}, {thread[t].at}) /\ UNCHANGED child
            BY <1>3, <2>3 DEF CreateChild
        <3>2. LaunchStep(t) /\ thread'[t].pc \in {"launch", "raised"}
            BY <2>1, <3>1, SettledStep DEF Starting
        <3> QED BY <2>1, <3>1, <3>2 DEF ChildStep
    <2> QED BY <2>2, <2>3
<1>4. CASE SendChild(t) \/ SendFails(t)
    <2>1. /\ thread[t].pc = "sending" /\ thread[t].at \in Assets \cup {Task}
          /\ UNCHANGED <<rows, cases, Beside>>
        BY <1>4 DEF SendChild, SendFails, Shape, Units
    <2>2. \/ Settled(t, thread[t].at, {<<thread[t].w, thread[t].at>>}, {})
          \/ Settled(t, thread[t].at, {}, {thread[t].at})
        BY <1>4 DEF SendChild, SendFails
    <2>3. LaunchStep(t) /\ thread'[t].pc \in {"launch", "raised"}
        BY <2>1, <2>2, SettledStep DEF Starting
    <2>4. /\ \E s \in {"running", "failed"} : child' = [child EXCEPT ![<<thread[t].w, thread[t].at>>] = s]
          /\ launches' = [launches EXCEPT ![<<thread[t].w, thread[t].at>>] = @ + 1]
        BY <1>4 DEF SendChild, SendFails
    <2> QED BY <2>1, <2>3, <2>4 DEF ChildStep
<1>5. CASE Record(t)
    <2>1. PICK pc \in {"monitor", "no_operations", "raised"} : Go(t, pc)
        BY <1>5 DEF Record
    <2>2. /\ Moved(t, pc) /\ thread'[t].camp = thread[t].camp /\ thread'[t].todo = thread[t].todo
        BY <2>1, GoEffect DEF ThreadPoints
    <2> QED BY <1>5, <2>2 DEF Record, LaunchStep, ChildStep, Moved, Starting, Shape, Beside, cases
<1> QED BY <1>1, <1>2, <1>3, <1>4, <1>5 DEF Launch

-----------------------------------------------------------------------------
(* Nothing runs twice.  A thread holds its workflow from the schedule to the   *)
(* callback, and a child has its row before it is started.                     *)

Owned ==
    /\ \A t \in Threads : thread[t].w # None =>
          thread[t].w \in scheduled /\ status[thread[t].w] # "absent"
    /\ \A t, u \in Threads : thread[t].w = thread[u].w /\ thread[t].w # None => t = u

\* A request works on a row of its own, from its creation on.
Asked == \A w \in Workflows :
    /\ req[w] \notin {"none", "checked"} => status[w] # "absent"
    /\ req[w] = "checked" => status[w] = "absent"

Sent ==
    /\ \A w \in Workflows, c \in Units :
          /\ launches[<<w, c>>] <= 1
          /\ child[<<w, c>>] = "none" => launches[<<w, c>>] = 0
          /\ status[w] = "absent" => child[<<w, c>>] = "none"
    /\ \A t \in Threads : thread[t].pc = "sending" =>
          /\ launches[<<thread[t].w, thread[t].at>>] = 0
          /\ child[<<thread[t].w, thread[t].at>>] \in {"created", "cancelled"}

Base == TypeOK /\ Shape /\ Owned /\ Asked /\ Sent

LEMMA BaseStart == Init => Base
<1> SUFFICES ASSUME Init PROVE Base
    OBVIOUS
<1>1. TypeOK
    BY TypeStart
<1>2. Shape
    BY DEF Init, Shape, IdleThread
<1>3. Owned /\ Asked
    BY DEF Init, Owned, Asked, IdleThread
<1>4. Sent
    BY DEF Init, Sent, IdleThread, Children
<1> QED BY <1>1, <1>2, <1>3, <1>4 DEF Base

Grows == \A w \in Workflows : status'[w] = "absent" => status[w] = "absent"

LEMMA SentKept ==
    ASSUME Sent, Grows, UNCHANGED <<child, launches>>,
           \A t \in Threads : thread'[t].pc = "sending" =>
              thread[t].pc = "sending" /\ thread'[t].w = thread[t].w /\ thread'[t].at = thread[t].at
    PROVE  Sent'
    BY DEF Sent, Grows

\* A thread keeps all but its token.
Same(t) ==
    /\ thread'[t].pc = thread[t].pc /\ thread'[t].w = thread[t].w /\ thread'[t].camp = thread[t].camp
    /\ thread'[t].todo = thread[t].todo /\ thread'[t].got = thread[t].got
    /\ thread'[t].failed = thread[t].failed /\ thread'[t].at = thread[t].at

LEMMA ThreadsKept ==
    ASSUME Shape, Owned, UNCHANGED scheduled, Grows,
           \A w \in Workflows : (req'[w] = "reuse" => retryOf'[w] \in Workflows) /\ Existing \notin targets'[w],
           \A t \in Threads : Same(t), TypeOK
    PROVE  Shape' /\ Owned'
<1>1. Shape'
    BY DEF Shape, Same, Launching
<1>2. Owned'
    <2>1. \A t \in Threads : thread[t].w # None => thread[t].w \in Workflows
        BY DEF TypeOK
    <2> QED BY <2>1 DEF Owned, Same, Grows
<1> QED BY <1>1, <1>2

LEMMA CancelEffect ==
    ASSUME TypeOK, NEW w \in Workflows, Cancel(w)
    PROVE  (\A t \in Threads : Same(t)) /\ Grows
<1>1. \A t \in Threads : thread[t] \in ThreadType
    BY DEF TypeOK, ThreadType
<1>2. ASSUME NEW t \in Threads PROVE Same(t)
    <2>1. thread'[t] = [thread[t] EXCEPT !.token = TRUE] \/ thread'[t] = thread[t]
        BY DEF Cancel
    <2> QED BY <1>1, <2>1 DEF ThreadType, Same
<1>3. Grows
    BY DEF Cancel, SetStatus, TypeOK, Grows
<1> QED BY <1>2, <1>3

\* A new row is a new workflow.
LEMMA NewRow ==
    ASSUME Base, NEW w \in Workflows, NEW k, NEW units, Existing \notin units,
           NEW source, NEW pc, Create(w, k, units, source, pc), pc \notin {"none", "checked"},
           pc = "reuse" => source \in Workflows, UNCHANGED <<scheduled, thread>>
    PROVE  Shape' /\ Owned' /\ Asked' /\ Grows
<1>1. Grows
    BY DEF Create, SetStatus, Base, TypeOK, Grows
<1>2. \A t \in Threads : Same(t)
    BY DEF Same
<1>3. \A v \in Workflows : (req'[v] = "reuse" => retryOf'[v] \in Workflows) /\ Existing \notin targets'[v]
    BY DEF Create, Base, TypeOK, Shape
<1>4. Asked'
    BY DEF Create, SetStatus, Base, TypeOK, Asked
<1> QED BY <1>1, <1>2, <1>3, <1>4, ThreadsKept DEF Base

LEMMA BaseAsk == ASSUME Base, NEW w \in Workflows, Ask(w) PROVE Base'
<1>0. TypeOK'
    BY AskTypes DEF Base
<1>1. CASE StartScan(w)
    <2>1. Shape' /\ Owned' /\ Asked' /\ Grows
        BY <1>1, NewRow, UnitsDistinct DEF StartScan
    <2>2. Sent'
        BY <1>1, <2>1, SentKept DEF StartScan, Outside, Base
    <2> QED BY <1>0, <2>1, <2>2 DEF Base
<1>2. CASE TrackScan(w)
    <2>1. Shape' /\ Owned' /\ Asked' /\ Grows
        BY <1>2, NewRow, UnitsDistinct DEF TrackScan
    <2>2. Sent'
        <3> DEFINE o == <<w, Existing>>
        <3>1. /\ child' = [child EXCEPT ![o] = "running"] /\ launches' = [launches EXCEPT ![o] = 1]
              /\ UNCHANGED thread
            BY <1>2 DEF TrackScan
        <3>2. child \in [Children -> {"none", "done", "failed", "cancelled"} \cup ChildActive]
              /\ launches \in [Children -> Nat]
            BY DEF Base, TypeOK
        <3>3. ASSUME NEW v \in Workflows, NEW c \in Units
              PROVE  /\ launches'[<<v, c>>] <= 1
                     /\ child'[<<v, c>>] = "none" => launches'[<<v, c>>] = 0
                     /\ status'[v] = "absent" => child'[<<v, c>>] = "none"
            <4>1. <<v, c>> \in Children /\ ((v = w /\ c = Existing) \/ <<v, c>> # o)
                BY DEF Children
            <4>2. CASE <<v, c>> # o
                BY <2>1, <3>1, <3>2, <4>1, <4>2 DEF Base, Sent, Grows
            <4>3. CASE v = w /\ c = Existing
                <5>1. status'[w] = "queued"
                    BY <1>2 DEF TrackScan, Create, SetStatus, Base, TypeOK
                <5> QED BY <3>1, <3>2, <4>1, <4>3, <5>1
            <4> QED BY <4>1, <4>2, <4>3
        <3>4. ASSUME NEW t \in Threads, thread'[t].pc = "sending"
              PROVE  /\ launches'[<<thread'[t].w, thread'[t].at>>] = 0
                     /\ child'[<<thread'[t].w, thread'[t].at>>] \in {"created", "cancelled"}
            <4>1. thread[t].at # Existing /\ <<thread[t].w, thread[t].at>> # o
                BY <3>1, <3>4 DEF Base, Shape
            <4> QED BY <3>1, <3>2, <3>4, <4>1 DEF Base, Sent
        <3> QED BY <3>3, <3>4 DEF Sent
    <2> QED BY <1>0, <2>1, <2>2 DEF Base
<1>3. CASE StartGroup(w)
    <2>1. Shape' /\ Owned' /\ Asked' /\ Grows
        BY <1>3, NewRow, UnitsDistinct DEF StartGroup
    <2>2. Sent'
        BY <1>3, <2>1, SentKept DEF StartGroup, Outside, Base
    <2> QED BY <1>0, <2>1, <2>2 DEF Base
<1>4. CASE CheckCampaign(w)
    <2>1. Grows /\ \A t \in Threads : Same(t)
        BY <1>4 DEF CheckCampaign, Grows, Same
    <2>2. \A v \in Workflows : (req'[v] = "reuse" => retryOf'[v] \in Workflows) /\ Existing \notin targets'[v]
        BY <1>4, UnitsDistinct DEF CheckCampaign, Base, TypeOK, Shape
    <2>3. Shape' /\ Owned'
        BY <1>4, <2>1, <2>2, ThreadsKept DEF CheckCampaign, Base
    <2>4. Asked'
        BY <1>4 DEF CheckCampaign, Base, TypeOK, Asked
    <2>5. Sent'
        BY <1>4, <2>1, SentKept DEF CheckCampaign, Outside, Base
    <2> QED BY <1>0, <2>3, <2>4, <2>5 DEF Base
<1>5. CASE Cancel(w)
    <2>1. Grows /\ \A t \in Threads : Same(t)
        BY <1>5, CancelEffect DEF Base
    <2>2. Shape' /\ Owned'
        BY <1>5, <2>1, ThreadsKept DEF Cancel, Base, Shape
    <2>3. Asked'
        BY <1>5 DEF Cancel, SetStatus, Base, TypeOK, Asked
    <2>4. Sent'
        BY <1>5, <2>1, SentKept DEF Cancel, Base, Same
    <2> QED BY <1>0, <2>2, <2>3, <2>4 DEF Base
<1>6. ASSUME NEW v \in Workflows, Retry(w, v) PROVE Base'
    <2> DEFINE pc == IF kind[v] = "campaign" THEN "attach" ELSE IF Reusable(v) THEN "reuse" ELSE "schedule"
    <2>0. Create(w, kind[v], targets[v], v, pc) /\ pc \notin {"none", "checked"} /\ Existing \notin targets[v]
        BY <1>6 DEF Retry, Base, Shape
    <2> HIDE DEF pc
    <2>1. Shape' /\ Owned' /\ Asked' /\ Grows
        BY <1>6, <2>0, NewRow DEF Retry
    <2>2. Sent'
        BY <1>6, <2>1, SentKept DEF Retry, Outside, Base
    <2> QED BY <1>0, <2>1, <2>2 DEF Base
<1> QED BY <1>1, <1>2, <1>3, <1>4, <1>5, <1>6 DEF Ask

LEMMA BaseRequest == ASSUME Base, NEW w \in Workflows, Request(w) \/ Resume(w) PROVE Base'
<1>0. TypeOK'
    BY RequestTypes DEF Base
<1>1. CASE StartVerification(w)
    <2>0. /\ Create(w, "campaign", targets[w], None, "attach") /\ UNCHANGED <<scheduled, thread>>
          /\ Existing \notin targets[w]
        BY <1>1 DEF StartVerification, Base, Shape
    <2>1. Shape' /\ Owned' /\ Asked' /\ Grows
        BY <2>0, NewRow
    <2>2. Sent'
        BY <1>1, <2>1, SentKept DEF StartVerification, Outside, Base
    <2> QED BY <1>0, <2>1, <2>2 DEF Base
<1>2. CASE Attach(w) \/ NothingToVerify(w) \/ QueueCases(w) \/ ResumeReconciliation(w) \/ LinkScan(w)
    <2>1. Grows
        <3>1. status' = status \/ \E s \in {"completed", "running"} : status' = [status EXCEPT ![w] = s]
            BY <1>2 DEF Attach, NothingToVerify, QueueCases, ResumeReconciliation, LinkScan, SetStatus, rows
        <3> QED BY <3>1 DEF Base, TypeOK, Grows
    <2>2. req[w] \notin {"none", "checked"} /\ UNCHANGED <<thread, scheduled, targets, retryOf, child, launches>>
        BY <1>2 DEF Attach, NothingToVerify, QueueCases, ResumeReconciliation, LinkScan, rows, Outside
    <2>3. \E pc \in RequestPoints \ {"checked"} :
             req' = [req EXCEPT ![w] = pc] /\ (pc = "reuse" => retryOf[w] # None)
        BY <1>2 DEF Attach, NothingToVerify, QueueCases, AfterAttach, ResumeReconciliation, LinkScan, RequestPoints
    <2>4. \A v \in Workflows : (req'[v] = "reuse" => retryOf'[v] \in Workflows) /\ Existing \notin targets'[v]
        <3>1. retryOf[w] \in Workflows \cup {None}
            BY DEF Base, TypeOK
        <3> QED BY <2>2, <2>3, <3>1 DEF Base, TypeOK, Shape
    <2>5. \A t \in Threads : Same(t)
        BY <2>2 DEF Same
    <2>6. Shape' /\ Owned'
        BY <2>1, <2>2, <2>4, <2>5, ThreadsKept DEF Base
    <2>7. Asked'
        <3>1. status[w] # "absent"
            BY <2>2 DEF Base, Asked
        <3>2. ASSUME NEW v \in Workflows, v # w PROVE req'[v] = req[v] /\ status'[v] = status[v]
            BY <1>2, <3>2
            DEF Attach, NothingToVerify, QueueCases, ResumeReconciliation, LinkScan, SetStatus, rows, Base, TypeOK
        <3>3. req'[w] # "checked" /\ status'[w] # "absent"
            BY <2>1, <2>3, <3>1 DEF Grows, Base, TypeOK
        <3> QED BY <3>2, <3>3 DEF Asked, Base
    <2>8. Sent'
        BY <2>1, <2>2, <2>5, SentKept DEF Base, Same
    <2> QED BY <1>0, <2>6, <2>7, <2>8 DEF Base
<1>3. CASE ScheduleRequest(w) \/ Resume(w)
    <2>1. /\ Schedule(w) /\ status[w] # "absent"
          /\ UNCHANGED <<rows, child, launches>>
        BY <1>3 DEF ScheduleRequest, Resume, Base, Asked, Active, ACTIVE, Outside
    <2>2. Grows /\ UNCHANGED <<status, targets, retryOf>>
        BY <2>1 DEF rows, Grows
    <2>3. req' = req \/ (req' = [req EXCEPT ![w] = "none"])
        BY <1>3 DEF ScheduleRequest, Resume
    <2>4. Asked'
        BY <2>2, <2>3 DEF Base, TypeOK, Asked
    <2>5. \A v \in Workflows : (req'[v] = "reuse" => retryOf'[v] \in Workflows) /\ Existing \notin targets'[v]
        BY <2>2, <2>3 DEF Base, TypeOK, Shape
    <2>6. CASE UNCHANGED <<thread, scheduled>>
        <3>1. \A t \in Threads : Same(t)
            BY <2>6 DEF Same
        <3>2. Shape' /\ Owned' /\ Sent'
            BY <2>1, <2>2, <2>5, <2>6, <3>1, ThreadsKept, SentKept DEF Base, Same
        <3> QED BY <1>0, <2>4, <3>2 DEF Base
    <2>7. ASSUME w \notin scheduled, scheduled' = scheduled \cup {w},
                 NEW t \in Threads, thread[t].pc = "idle", Others(t),
                 thread'[t] = [IdleThread EXCEPT !.pc = "waiting", !.w = w]
          PROVE  Base'
        <3>1. /\ thread'[t].pc = "waiting" /\ thread'[t].w = w /\ thread'[t].todo = {}
              /\ thread'[t].failed = {} /\ thread'[t].at = None
            BY <2>7 DEF IdleThread
        <3>2. \A u \in Threads : thread[u].w # None => thread[u].w \in scheduled
            BY DEF Base, Owned
        <3>3. \A u \in Threads : u # t => thread'[u] = thread[u] /\ thread[u].w # w
            BY <2>7, <3>2, UnitsDistinct DEF Others
        <3>4. Owned'
            <4>1. \A u \in Threads : thread'[u].w # None =>
                     thread'[u].w \in scheduled' /\ status'[thread'[u].w] # "absent"
                <5>1. ASSUME NEW u \in Threads, u # t, thread'[u].w # None
                      PROVE  thread'[u].w \in scheduled' /\ status'[thread'[u].w] # "absent"
                    <6>1. thread'[u] = thread[u] /\ UNCHANGED status /\ scheduled \subseteq scheduled'
                        BY <2>2, <2>7, <3>3, <5>1
                    <6>2. thread[u].w \in scheduled /\ status[thread[u].w] # "absent"
                        BY <5>1, <6>1 DEF Owned, Base
                    <6> QED BY <6>1, <6>2
                <5>2. w \in scheduled' /\ status'[w] # "absent"
                    BY <2>1, <2>2, <2>7
                <5> QED BY <3>1, <5>1, <5>2
            <4>2. \A u, v \in Threads : thread'[u].w = thread'[v].w /\ thread'[u].w # None => u = v
                BY <3>1, <3>3 DEF Owned, Base
            <4> QED BY <4>1, <4>2 DEF Owned
        <3>6. Shape'
            <4>1. \A u \in Threads :
                     /\ thread'[u].pc = "idle" <=> thread'[u].w = None
                     /\ Existing \notin thread'[u].todo
                     /\ thread'[u].pc \in {"creating", "sending"} => thread'[u].at \in Units \ {Existing}
                     /\ thread'[u].pc \in Launching => thread'[u].failed \subseteq Assets
                BY <3>1, <3>3, UnitsDistinct DEF Shape, Base
            <4> QED BY <2>5, <4>1 DEF Shape
        <3>5. Sent'
            BY <2>1, <2>2, <2>7, <3>1, SentKept DEF Others, Base
        <3> QED BY <1>0, <2>4, <3>4, <3>5, <3>6 DEF Base
    <2> QED BY <2>1, <2>6, <2>7, ScheduleEffect DEF Base
<1> QED BY <1>1, <1>2, <1>3 DEF Request

LEMMA WorkflowOf ==
    ASSUME TypeOK, Shape, NEW t \in Threads, thread[t].pc # "idle" PROVE thread[t].w \in Workflows
    BY DEF TypeOK, Shape

LEMMA OwnedKept ==
    ASSUME TypeOK, Owned, UNCHANGED scheduled, Grows, \A t \in Threads : thread'[t].w = thread[t].w
    PROVE  Owned'
<1>1. \A t \in Threads : thread[t].w # None => thread[t].w \in Workflows
    BY DEF TypeOK
<1> QED BY <1>1 DEF Owned, Grows

LEMMA BaseBetween == ASSUME Base, NEW t \in Threads, Between(t) PROVE Base'
<1>0. thread[t].pc # "idle"
    BY DEF Between, Run, Open, Begin, Start, CompleteWithoutOperations, MonitorCancelled, MonitorLooks, MonitorWaits, MonitorFinished,
           Reconcile, Finalize, Complete, FinishCancelled, Fail, Tell, DatabaseFails
<1>1. thread[t].w \in Workflows
    BY <1>0, WorkflowOf DEF Base
<1>2. TypeOK' /\ BetweenStep(t)
    BY <1>1, ThreadTypes, BetweenEffect DEF Between, Base
<1>3. Grows
    BY <1>1, <1>2 DEF BetweenStep, StatusOf, Grows
<1>4. Owned'
    BY <1>2, <1>3, OwnedKept DEF BetweenStep, Moved, Others, Base
<1>5. Shape'
    <2>1. ASSUME NEW u \in Threads, u # t PROVE thread'[u] = thread[u]
        BY <1>2, <2>1 DEF BetweenStep, Moved, Others
    <2>2. \A w \in Workflows : (req'[w] = "reuse" => retryOf'[w] \in Workflows) /\ Existing \notin targets'[w]
        BY <1>2 DEF BetweenStep, Base, Shape
    <2>3. thread'[t].pc # "idle" /\ thread'[t].w # None /\ Existing \notin thread'[t].todo
        BY <1>1, <1>2, UnitsDistinct DEF BetweenStep, Moved, Base, Shape
    <2>4. /\ thread'[t].pc \notin {"creating", "sending"}
          /\ thread'[t].pc \in Launching => thread'[t].failed \subseteq Assets
        BY <1>2 DEF BetweenStep, Base, Shape
    <2> QED BY <2>1, <2>2, <2>3, <2>4 DEF Base, Shape
<1>6. Asked'
    <2>1. status[thread[t].w] # "absent"
        BY <1>1, UnitsDistinct DEF Base, Owned
    <2> QED BY <1>1, <1>2, <2>1 DEF BetweenStep, StatusOf, Base, Asked
<1>7. Sent'
    BY <1>2, <1>3, SentKept DEF BetweenStep, Moved, Others, Base
<1> QED BY <1>2, <1>4, <1>5, <1>6, <1>7 DEF Base

LEMMA BaseLaunch == ASSUME Base, NEW t \in Threads, Launch(t) PROVE Base'
<1>1. LaunchStep(t) /\ ChildStep(t)
    BY LaunchEffect DEF Base
<1>2. thread[t].pc # "idle" /\ thread[t].w \in Workflows
    BY <1>1, WorkflowOf DEF LaunchStep, Starting, Base
<1>3. TypeOK'
    BY <1>2, LaunchTypes DEF Base
<1>4. Owned' /\ Asked'
    <2>1. UNCHANGED <<req, status, scheduled>> /\ Grows
        BY <1>1 DEF LaunchStep, Grows
    <2>2. \A u \in Threads : thread'[u].w = thread[u].w
        BY <1>1 DEF LaunchStep, Others
    <2> QED BY <2>1, <2>2, OwnedKept DEF Base, Asked
<1>5. Shape'
    <2>1. /\ thread'[t].pc # "idle" /\ thread'[t].w # None /\ Existing \notin thread'[t].todo
          /\ thread'[t].pc \in Launching => thread'[t].pc \in Starting
        BY <1>1, <1>2, UnitsDistinct DEF LaunchStep, Starting, Launching, Base, Shape
    <2> QED BY <1>1, <2>1 DEF LaunchStep, Others, Base, Shape
<1>6. Sent'
    <2> DEFINE o == <<thread[t].w, thread[t].at>>
    <2>1. /\ child \in [Children -> {"none", "done", "failed", "cancelled"} \cup ChildActive]
          /\ launches \in [Children -> Nat] /\ \A w \in Workflows, c \in Units : <<w, c>> \in Children
        BY DEF Base, TypeOK, Children
    <2>2. \A u \in Threads : u # t /\ thread[u].pc = "sending" => <<thread[u].w, thread[u].at>> # o
        BY <1>2, UnitsDistinct DEF Base, Owned
    <2>3. \A u \in Threads : thread[u].pc = "sending" => <<thread[u].w, thread[u].at>> \in Children
        BY WorkflowOf DEF Base, Shape, Children
    <2>4. status' = status /\ Others(t) /\ thread'[t].w = thread[t].w /\ status[thread[t].w] # "absent"
        BY <1>1, <1>2, UnitsDistinct DEF LaunchStep, Base, Owned
    <2>5. CASE UNCHANGED <<child, launches>> /\ thread'[t].pc # "sending"
        BY <2>4, <2>5, SentKept DEF Grows, Others, Base
    <2>6. CASE /\ thread[t].pc = "creating" /\ child[o] = "none" /\ child' = [child EXCEPT ![o] = "created"]
               /\ thread'[t].pc = "sending" /\ thread'[t].at = thread[t].at /\ UNCHANGED launches
        <3>1. o \in Children /\ thread[t].at \in Units
            BY <1>2, <2>6 DEF Base, Shape, Children
        <3>2. launches[o] = 0
            BY <1>2, <2>6, <3>1 DEF Base, Sent
        <3>3. ASSUME NEW w \in Workflows, NEW c \in Units
              PROVE  /\ launches'[<<w, c>>] <= 1
                     /\ child'[<<w, c>>] = "none" => launches'[<<w, c>>] = 0
                     /\ status'[w] = "absent" => child'[<<w, c>>] = "none"
            <4>1. CASE <<w, c>> = o
                BY <2>1, <2>4, <2>6, <3>1, <3>2, <4>1
            <4>2. CASE <<w, c>> # o
                BY <2>1, <2>4, <2>6, <4>2 DEF Base, Sent
            <4> QED BY <4>1, <4>2
        <3>4. ASSUME NEW u \in Threads, thread'[u].pc = "sending"
              PROVE  /\ launches'[<<thread'[u].w, thread'[u].at>>] = 0
                     /\ child'[<<thread'[u].w, thread'[u].at>>] \in {"created", "cancelled"}
            <4>1. CASE u = t
                BY <2>1, <2>4, <2>6, <3>1, <3>2, <4>1
            <4>2. CASE u # t
                <5>1. thread'[u] = thread[u] /\ thread[u].pc = "sending"
                    BY <2>4, <3>4, <4>2 DEF Others
                <5>2. child'[<<thread[u].w, thread[u].at>>] = child[<<thread[u].w, thread[u].at>>]
                    BY <2>1, <2>2, <2>3, <2>6, <4>2, <5>1
                <5> QED BY <2>6, <5>1, <5>2 DEF Base, Sent
            <4> QED BY <4>1, <4>2
        <3> QED BY <3>3, <3>4 DEF Sent
    <2>7. ASSUME thread[t].pc = "sending", thread'[t].pc # "sending", NEW s \in {"running", "failed"},
                 child' = [child EXCEPT ![o] = s], launches' = [launches EXCEPT ![o] = @ + 1]
          PROVE  Sent'
        <3>1. o \in Children /\ launches[o] = 0
            BY <2>3, <2>7 DEF Base, Sent
        <3>2. launches'[o] = 1 /\ child'[o] = s
            BY <2>1, <2>7, <3>1
        <3>3. \A p \in Children : p # o => child'[p] = child[p] /\ launches'[p] = launches[p]
            BY <2>1, <2>7
        <3> HIDE DEF o
        <3>4. ASSUME NEW w \in Workflows, NEW c \in Units
              PROVE  /\ launches'[<<w, c>>] <= 1
                     /\ child'[<<w, c>>] = "none" => launches'[<<w, c>>] = 0
                     /\ status'[w] = "absent" => child'[<<w, c>>] = "none"
            <4>1. CASE <<w, c>> = o
                BY <2>4, <3>2, <4>1 DEF o
            <4>2. CASE <<w, c>> # o
                BY <2>1, <2>4, <3>3, <4>2 DEF Base, Sent
            <4> QED BY <4>1, <4>2
        <3>5. ASSUME NEW u \in Threads, thread'[u].pc = "sending"
              PROVE  /\ launches'[<<thread'[u].w, thread'[u].at>>] = 0
                     /\ child'[<<thread'[u].w, thread'[u].at>>] \in {"created", "cancelled"}
            <4>1. thread'[u] = thread[u] /\ thread[u].pc = "sending" /\ u # t
                BY <2>4, <2>7, <3>5 DEF Others
            <4>2. <<thread[u].w, thread[u].at>> \in Children /\ <<thread[u].w, thread[u].at>> # o
                BY <2>2, <2>3, <4>1 DEF o
            <4> QED BY <3>3, <4>1, <4>2 DEF Base, Sent
        <3> QED BY <3>4, <3>5 DEF Sent
    <2> QED BY <1>1, <2>5, <2>6, <2>7 DEF ChildStep
<1> QED BY <1>3, <1>4, <1>5, <1>6 DEF Base

LEMMA ForgetEffect ==
    ASSUME TypeOK, NEW t \in Threads, Forget(t)
    PROVE  Others(t) /\ thread'[t] = IdleThread /\ scheduled' = scheduled \ {thread[t].w}
    BY DEF Forget, TypeOK, Others

LEMMA BaseForget == ASSUME Base, NEW t \in Threads, Forget(t) PROVE Base'
<1>1. Others(t) /\ thread'[t] = IdleThread /\ scheduled' = scheduled \ {thread[t].w}
    BY ForgetEffect DEF Base
<1>2. thread[t].w \in Workflows
    BY WorkflowOf DEF Forget, Base
<1>3. TypeOK'
    BY <1>2, ThreadTypes DEF Run, Base
<1>4. UNCHANGED <<status, req, targets, retryOf, child, launches>> /\ Grows
    BY DEF Forget, rows, Grows
<1>5. Owned'
    BY <1>1, <1>2, <1>4, UnitsDistinct DEF Others, IdleThread, Base, Owned
<1>6. Shape'
    BY <1>1, <1>4 DEF Others, IdleThread, Launching, Base, Shape
<1>7. Asked' /\ Sent'
    BY <1>1, <1>4, SentKept DEF Others, IdleThread, Base, Asked
<1> QED BY <1>3, <1>5, <1>6, <1>7 DEF Base

LEMMA BaseWorld ==
    ASSUME Base, \/ \E o \in Children : ChildEnds(o) \/ CancelChild(o)
                 \/ \E a \in Assets : CaseResolved(a)
    PROVE  Base'
<1>1. TypeOK'
    BY WorldTypes DEF Base
<1>2. UNCHANGED <<status, targets, retryOf, req, scheduled, thread, launches>>
    BY DEF ChildEnds, CancelChild, CaseResolved, rows, process
<1>3. Shape' /\ Owned' /\ Asked'
    <2>1. Shape'
        BY <1>2 DEF Shape, Base
    <2>2. Owned' /\ Asked'
        BY <1>2 DEF Owned, Asked, Base
    <2> QED BY <2>1, <2>2
<1>4. ASSUME NEW p \in Children
      PROVE  /\ child'[p] = "none" <=> child[p] = "none"
             /\ (\E t \in Threads : thread[t].pc = "sending" /\ <<thread[t].w, thread[t].at>> = p)
                   /\ child[p] \in {"created", "cancelled"} => child'[p] \in {"created", "cancelled"}
    <2>1. ASSUME NEW o \in Children, CancelChild(o)
          PROVE  child'[p] = child[p] \/ (child[p] \in ChildActive /\ child'[p] = "cancelled")
        BY <2>1 DEF CancelChild, Base, TypeOK
    <2>2. ASSUME NEW o \in Children, ChildEnds(o)
          PROVE  \/ child'[p] = child[p]
                 \/ child[p] = "running" /\ child'[p] \in {"done", "failed"}
                 \/ /\ child[p] = "created" /\ child'[p] = "failed"
                    /\ ~\E t \in Threads : thread[t].pc = "sending" /\ <<thread[t].w, thread[t].at>> = p
        BY <2>2 DEF ChildEnds, Base, TypeOK
    <2>3. ASSUME NEW a \in Assets, CaseResolved(a) PROVE child' = child
        BY <2>3 DEF CaseResolved
    <2> QED BY <2>1, <2>2, <2>3 DEF ChildActive
<1>5. Sent'
    <2>1. \A w \in Workflows, c \in Units : child'[<<w, c>>] = "none" <=> child[<<w, c>>] = "none"
        BY <1>4 DEF Children
    <2>2. ASSUME NEW t \in Threads, thread[t].pc = "sending"
          PROVE  child'[<<thread[t].w, thread[t].at>>] \in {"created", "cancelled"}
        <3>1. thread[t].w \in Workflows /\ thread[t].at \in Units
            BY <2>2, WorkflowOf DEF Base, Shape
        <3>2. <<thread[t].w, thread[t].at>> \in Children
            BY <3>1 DEF Children
        <3> QED BY <1>4, <2>2, <3>2 DEF Sent, Base
    <2> QED BY <1>2, <2>1, <2>2 DEF Sent, Base
<1> QED BY <1>1, <1>3, <1>5 DEF Base

LEMMA ShutdownEffect ==
    ASSUME TypeOK, NEW t \in Threads, Shutdown
    PROVE  \/ thread[t].pc = "waiting" /\ thread'[t] = [thread[t] EXCEPT !.pc = "done"]
           \/ thread[t].pc = "idle" /\ thread'[t] = IdleThread
           \/ thread[t].pc \notin {"waiting", "idle"} /\ Same(t)
<1>1. thread[t] \in ThreadType
    BY DEF TypeOK, ThreadType
<1>2. CASE thread[t].pc \notin {"waiting", "idle"}
    <2>1. thread'[t] = [thread[t] EXCEPT !.token = TRUE]
        BY <1>2 DEF Shutdown
    <2> QED BY <1>1, <1>2, <2>1 DEF ThreadType, Same
<1>3. CASE thread[t].pc \in {"waiting", "idle"}
    BY <1>3 DEF Shutdown
<1> QED BY <1>2, <1>3

LEMMA BaseShutdown == ASSUME Base, Shutdown PROVE Base'
<1>1. TypeOK'
    BY StopTypes DEF Base
<1>2. UNCHANGED <<status, targets, retryOf, req, scheduled, child, launches>> /\ Grows
    BY DEF Shutdown, rows, Grows
<1>3. ASSUME NEW t \in Threads
      PROVE  /\ thread'[t].w = thread[t].w
             /\ thread'[t].pc = "sending" => thread[t].pc = "sending" /\ thread'[t].at = thread[t].at
             /\ thread'[t].pc = "idle" <=> thread[t].pc = "idle"
             /\ Existing \notin thread'[t].todo
             /\ thread'[t].pc \in {"creating", "sending"} => thread'[t].at \in Units \ {Existing}
             /\ thread'[t].pc \in Launching => thread'[t].failed \subseteq Assets
    <2>0. thread[t] \in ThreadType
        BY DEF Base, TypeOK, ThreadType
    <2>1. CASE thread[t].pc = "waiting" /\ thread'[t] = [thread[t] EXCEPT !.pc = "done"]
        <3>1. thread'[t].pc = "done" /\ thread'[t].w = thread[t].w /\ thread'[t].todo = thread[t].todo
            BY <2>0, <2>1 DEF ThreadType
        <3> QED BY <2>1, <3>1 DEF Launching, Base, Shape
    <2>2. CASE thread[t].pc = "idle" /\ thread'[t] = IdleThread
        <3>1. thread[t].w = None
            BY <2>2 DEF Base, Shape
        <3> QED BY <2>2, <3>1 DEF IdleThread, Launching
    <2>3. CASE Same(t)
        BY <2>3 DEF Same, Base, Shape
    <2> QED BY <2>1, <2>2, <2>3, ShutdownEffect DEF Base
<1>4. Owned'
    BY <1>2, <1>3, OwnedKept DEF Base
<1>5. Shape'
    BY <1>2, <1>3 DEF Base, Shape
<1>6. Asked' /\ Sent'
    BY <1>2, <1>3, SentKept DEF Base, Asked
<1> QED BY <1>1, <1>4, <1>5, <1>6 DEF Base

LEMMA BaseRestart == ASSUME Base, Crash \/ Exit PROVE Base'
<1>1. TypeOK'
    BY StopTypes DEF Base
<1>2. /\ UNCHANGED <<status, targets, retryOf, child, launches>>
      /\ \A t \in Threads : thread'[t] = IdleThread
      /\ \A w \in Workflows : req'[w] = "none"
    BY DEF Crash, Exit, Restart, rows
<1>3. Owned' /\ Asked'
    BY <1>2 DEF IdleThread, Owned, Asked
<1>4. Shape'
    BY <1>2 DEF IdleThread, Launching, Base, Shape
<1>5. Sent'
    BY <1>2 DEF IdleThread, Base, Sent
<1> QED BY <1>1, <1>3, <1>4, <1>5 DEF Base

LEMMA BaseStep == ASSUME Base, [Next]_vars PROVE Base'
<1>1. CASE UNCHANGED vars
    <2>1. TypeOK' /\ Shape'
        BY <1>1 DEF vars, rows, cases, process, bounds, history, Base, TypeOK, Shape
    <2>2. Owned' /\ Asked' /\ Sent'
        BY <1>1 DEF vars, rows, cases, process, bounds, history, Base, Owned, Asked, Sent
    <2> QED BY <2>1, <2>2 DEF Base
<1>2. ASSUME NEW w \in Workflows, Ask(w) \/ Request(w) \/ Resume(w) PROVE Base'
    BY <1>2, BaseAsk, BaseRequest
<1>3. ASSUME NEW t \in Threads, Run(t) \/ DatabaseFails(t) PROVE Base'
    BY <1>3, BaseLaunch, BaseBetween, BaseForget DEF Between
<1>4. CASE \/ \E o \in Children : ChildEnds(o) \/ CancelChild(o)
           \/ \E a \in Assets : CaseResolved(a)
    BY <1>4, BaseWorld
<1>5. CASE Shutdown \/ Crash \/ Exit
    BY <1>5, BaseShutdown, BaseRestart
<1> QED BY <1>1, <1>2, <1>3, <1>4, <1>5 DEF Next

LEMMA BaseAlways == Spec => []Base
<1> HIDE DEF Base
<1> QED BY BaseStart, BaseStep, PTL DEF Spec

\* The types of the model, with what they do not say: a request that uses the operations of
\* a source has one, and a thread on its way to the children has only assets refused.
THEOREM TypeCorrect == Spec => [](TypeOK /\ Shape)
<1>1. Base => TypeOK /\ Shape
    BY DEF Base
<1> QED BY <1>1, BaseAlways, PTL

-----------------------------------------------------------------------------
(* A workflow that tracks a scan has the link to it before any thread looks    *)
(* for it, unless it was noted as unlinked.                                    *)

Begins == {"begin", "start", "launch", "creating", "sending"}

Tracked(w) == launches[<<w, Existing>>] # 0 =>
    /\ status[w] # "absent" /\ req[w] \in {"none", "link", "monitor_only"}
    /\ w \notin unlinked =>
          /\ launches[<<w, Task>>] = 0
          /\ req[w] # "link" => ops[w] # {}
          /\ \A t \in Threads : thread[t].w = w =>
                req[w] # "link" /\ (thread[t].pc \in Begins => thread[t].pc = "begin" /\ thread[t].got # {})

Scans == Base /\ \A w \in Workflows : Tracked(w)

LEMMA ScansStart == Init => Scans
<1> SUFFICES ASSUME Init PROVE Scans
    OBVIOUS
<1>1. \A w \in Workflows : launches[<<w, Existing>>] = 0
    BY DEF Init, Children, Units
<1> QED BY <1>1, BaseStart DEF Scans, Tracked

\* What a thread that stays with the workflow may do without looking at the link.
Harmless(t, w) == thread'[t].w = w =>
    /\ thread[t].w = w
    /\ thread'[t].pc \in Begins => thread'[t].pc = thread[t].pc /\ thread'[t].got = thread[t].got

LEMMA TrackedKept ==
    ASSUME NEW w \in Workflows, Tracked(w), Grows, unlinked \subseteq unlinked',
           launches'[<<w, Existing>>] = launches[<<w, Existing>>], launches'[<<w, Task>>] = launches[<<w, Task>>],
           req'[w] = req[w], ops'[w] = ops[w], \A t \in Threads : Harmless(t, w)
    PROVE  Tracked(w)'
    BY DEF Tracked, Grows, Harmless

LEMMA SameHarmless == ASSUME NEW t \in Threads, NEW w, Same(t) PROVE Harmless(t, w)
    BY DEF Same, Harmless

\* A new row has no thread and has started nothing.
LEMMA ScansAsk == ASSUME Scans, NEW w \in Workflows, Ask(w) PROVE Scans'
<1>1. Base'
    BY BaseAsk DEF Scans
<1>2. \A v \in Workflows : <<v, Existing>> \in Children /\ <<v, Task>> \in Children
    BY DEF Children, Units
<1>3. launches \in [Children -> Nat] /\ req \in [Workflows -> RequestPoints]
    BY DEF Scans, Base, TypeOK
<1>4. unlinked' = unlinked /\ ops' = ops
    BY DEF Ask, StartScan, TrackScan, StartGroup, CheckCampaign, Cancel, Retry, Create, Outside, history
<1>5. Grows
    <2>1. CASE Cancel(w)
        BY <2>1, CancelEffect DEF Scans, Base
    <2>2. CASE ~Cancel(w)
        <3>1. status' = status \/ status' = [status EXCEPT ![w] = "queued"]
            BY <2>2 DEF Ask, StartScan, TrackScan, StartGroup, CheckCampaign, Retry, Create, SetStatus
        <3> QED BY <3>1 DEF Scans, Base, TypeOK, Grows
    <2> QED BY <2>1, <2>2
<1>6. \A t \in Threads : Same(t)
    <2>1. CASE Cancel(w)
        BY <2>1, CancelEffect DEF Scans, Base
    <2>2. CASE ~Cancel(w)
        BY <2>2 DEF Ask, StartScan, TrackScan, StartGroup, CheckCampaign, Retry, Same
    <2> QED BY <2>1, <2>2
<1>7. ASSUME NEW v \in Workflows, v # w PROVE Tracked(v)'
    <2>1. /\ launches'[<<v, Existing>>] = launches[<<v, Existing>>] /\ launches'[<<v, Task>>] = launches[<<v, Task>>]
          /\ req'[v] = req[v]
        BY <1>2, <1>3, <1>7
        DEF Ask, StartScan, TrackScan, StartGroup, CheckCampaign, Cancel, Retry, Create, Outside
    <2> QED BY <1>4, <1>5, <1>6, <2>1, SameHarmless, TrackedKept DEF Scans
<1>8. Tracked(w)'
    <2>1. CASE Cancel(w)
        <3>1. UNCHANGED <<launches, req>>
            BY <2>1 DEF Cancel
        <3> QED BY <1>4, <1>5, <1>6, <3>1, SameHarmless, TrackedKept DEF Scans
    <2>2. CASE ~Cancel(w)
        <3>1. status[w] = "absent" /\ launches[<<w, Existing>>] = 0
            BY <2>2 DEF Ask, StartScan, TrackScan, StartGroup, CheckCampaign, Retry, Create, Scans, Tracked
        <3>2. CASE ~TrackScan(w)
            <4>1. launches' = launches
                BY <2>2, <3>2 DEF Ask, StartScan, StartGroup, CheckCampaign, Retry, Outside
            <4> QED BY <3>1, <4>1 DEF Tracked
        <3>3. CASE TrackScan(w)
            <4>1. launches[<<w, Task>>] = 0 /\ Task # Existing
                BY <3>1, UnitsDistinct DEF Scans, Base, Sent, Units
            <4>2. launches'[<<w, Task>>] = 0
                BY <1>2, <1>3, <3>3, <4>1 DEF TrackScan
            <4>3. req'[w] = "link" /\ status'[w] = "queued"
                BY <1>3, <3>3 DEF TrackScan, Create, SetStatus, Scans, Base, TypeOK
            <4>4. \A t \in Threads : thread'[t].w # w
                BY <1>6, <3>1, UnitsDistinct DEF Same, Scans, Base, Owned
            <4> QED BY <4>2, <4>3, <4>4 DEF Tracked
        <3> QED BY <3>2, <3>3
    <2> QED BY <2>1, <2>2
<1> QED BY <1>1, <1>7, <1>8 DEF Scans

LEMMA ScansRequest == ASSUME Scans, NEW w \in Workflows, Request(w) \/ Resume(w) PROVE Scans'
<1>1. Base'
    BY BaseRequest DEF Scans
<1>2. UNCHANGED launches /\ unlinked \subseteq unlinked'
    BY DEF Request, StartVerification, Attach, NothingToVerify, QueueCases, ResumeReconciliation, LinkScan,
           ScheduleRequest, Resume, NotedUnlinked, Outside, history
<1>3. Grows
    <2>1. \/ status' = status
          \/ \E s \in {"queued", "completed", "running"} : status' = [status EXCEPT ![w] = s]
        BY DEF Request, StartVerification, Create, Attach, NothingToVerify, QueueCases, ResumeReconciliation, LinkScan,
               ScheduleRequest, Resume, SetStatus, rows
    <2> QED BY <2>1 DEF Scans, Base, TypeOK, Grows
<1>4. ASSUME NEW v \in Workflows, v # w PROVE req'[v] = req[v] /\ ops'[v] = ops[v]
    BY <1>4 DEF Request, StartVerification, Create, Attach, NothingToVerify, QueueCases, ResumeReconciliation, LinkScan,
           ScheduleRequest, Resume, rows, Scans, Base, TypeOK
<1>5. CASE ScheduleRequest(w) \/ Resume(w)
    <2>1. /\ Schedule(w) /\ UNCHANGED <<status, ops>> /\ status[w] # "absent"
          /\ req'[w] = req[w] \/ (req[w] # "link" /\ req'[w] = "none")
          /\ req[w] = "link" => w \in unlinked'
        BY <1>5 DEF ScheduleRequest, Resume, NotedUnlinked, rows, Scans, Base, Asked, TypeOK, Active, ACTIVE
    <2>2. ASSUME NEW t \in Threads, NEW v \in Workflows
          PROVE  v # w => Harmless(t, v)
        <3>1. CASE UNCHANGED thread
            BY <3>1 DEF Harmless
        <3>2. ASSUME NEW u \in Threads, Others(u), thread'[u] = [IdleThread EXCEPT !.pc = "waiting", !.w = w]
              PROVE  v # w => Harmless(t, v)
            <4>1. thread'[u].w = w
                BY <3>2 DEF IdleThread
            <4> QED BY <3>2, <4>1 DEF Others, Harmless
        <3> QED BY <2>1, <3>1, <3>2, ScheduleEffect DEF Scans, Base
    <2>3. ASSUME NEW t \in Threads, thread'[t].w = w
          PROVE  thread'[t].pc = "waiting" \/ thread'[t] = thread[t]
        <3>1. CASE UNCHANGED thread
            BY <3>1
        <3>2. ASSUME NEW u \in Threads, Others(u), thread'[u] = [IdleThread EXCEPT !.pc = "waiting", !.w = w]
              PROVE  thread'[t].pc = "waiting" \/ thread'[t] = thread[t]
            <4>1. thread'[u].pc = "waiting"
                BY <3>2 DEF IdleThread
            <4> QED BY <3>2, <4>1 DEF Others
        <3> QED BY <2>1, <3>1, <3>2, ScheduleEffect DEF Scans, Base
    <2>4. Tracked(w)'
        BY <1>2, <2>1, <2>3 DEF Scans, Tracked, Begins
    <2>5. \A v \in Workflows : v # w => Tracked(v)'
        BY <1>2, <1>3, <1>4, <2>2, TrackedKept DEF Scans
    <2> QED BY <1>1, <2>4, <2>5 DEF Scans
<1>6. CASE Request(w) /\ ~ScheduleRequest(w)
    <2>1. UNCHANGED thread
        BY <1>6 DEF Request, StartVerification, Attach, NothingToVerify, QueueCases, ResumeReconciliation, LinkScan
    <2>2. \A t \in Threads, v \in Workflows : Harmless(t, v)
        BY <2>1 DEF Harmless
    <2>3. \A v \in Workflows : v # w => Tracked(v)'
        BY <1>2, <1>3, <1>4, <2>2, TrackedKept DEF Scans
    <2>4. CASE ~LinkScan(w)
        <3>1. req[w] \notin {"none", "link", "monitor_only"}
            BY <1>6, <2>4 DEF Request, StartVerification, Attach, NothingToVerify, QueueCases, ResumeReconciliation
        <3>2. launches[<<w, Existing>>] = 0
            BY <3>1 DEF Scans, Tracked
        <3> QED BY <1>1, <1>2, <2>3, <3>2 DEF Scans, Tracked
    <2>5. CASE LinkScan(w)
        <3>1. req[w] = "link" /\ req'[w] = "monitor_only" /\ ops'[w] # {}
            BY <2>5 DEF LinkScan, Scans, Base, TypeOK
        <3>2. status'[w] # "absent"
            BY <1>3, <3>1 DEF Grows, Scans, Base, Asked
        <3>3. Tracked(w)'
            BY <1>2, <2>1, <3>1, <3>2 DEF Scans, Tracked
        <3> QED BY <1>1, <2>3, <3>3 DEF Scans
    <2> QED BY <2>4, <2>5
<1> QED BY <1>5, <1>6

LEMMA ScansBetween == ASSUME Scans, NEW t \in Threads, Between(t) PROVE Scans'
<1>0. thread[t].pc # "idle"
    BY DEF Between, Run, Open, Begin, Start, CompleteWithoutOperations, MonitorCancelled, MonitorLooks,
           MonitorWaits, MonitorFinished, Reconcile, Finalize, Complete, FinishCancelled, Fail, Tell, DatabaseFails
<1>1. PICK w \in Workflows : thread[t].w = w
    BY <1>0, WorkflowOf DEF Scans, Base
<1>2. Base' /\ BetweenStep(t)
    BY <1>1, BaseBetween, BetweenEffect DEF Scans, Base
<1>3. Grows /\ UNCHANGED <<launches, req, ops>> /\ Others(t) /\ thread'[t].w = w
    BY <1>1, <1>2 DEF BetweenStep, Moved, StatusOf, Grows
<1>4. UNCHANGED unlinked
    BY DEF Between, Run, Open, Begin, Start, CompleteWithoutOperations, MonitorCancelled, MonitorLooks,
           MonitorWaits, MonitorFinished, Reconcile, Finalize, Complete, FinishCancelled, Fail, Tell, DatabaseFails,
           Beside, history
<1>5. thread[t] \in ThreadType /\ thread \in [Threads -> ThreadType]
    BY DEF Scans, Base, TypeOK, ThreadType
\* From "begin" on only a thread without operations goes to the start.
<1>6. thread'[t].pc \in Begins =>
         \/ thread[t].pc = "waiting" /\ thread'[t].pc = "begin" /\ thread'[t].got = ops[w]
         \/ thread[t].pc = "begin" /\ thread[t].got = {}
         \/ thread[t].pc = "start"
    <2>1. CASE Open(t)
        <3> DEFINE pc == IF ~Active(w) THEN "done" ELSE IF cancel[w] THEN "cancelling" ELSE "begin"
        <3>1. thread' = [thread EXCEPT ![t] = [thread[t] EXCEPT
                            !.token = FALSE, !.camp = campaign[w], !.got = ops[w], !.pc = pc]]
            BY <1>1, <2>1 DEF Open
        <3>2. pc \in {"done", "cancelling", "begin"}
            OBVIOUS
        <3> HIDE DEF pc
        <3>3. thread'[t].pc = pc /\ thread'[t].got = ops[w]
            BY <1>5, <3>1 DEF ThreadType
        <3> QED BY <2>1, <3>2, <3>3 DEF Open, Begins
    <2>2. CASE Begin(t)
        <3>1. thread[t].got # {} => thread'[t].pc = "monitor"
            BY <2>2, GoEffect DEF Begin, ThreadPoints, Moved, Scans, Base
        <3> QED BY <2>2, <3>1 DEF Begin, Begins
    <2>3. CASE Start(t)
        BY <2>3 DEF Start
    <2>4. CASE MonitorCancelled(t) \/ MonitorLooks(t) \/ MonitorFinished(t) \/ (Fail(t) /\ status[w] \notin TERMINAL)
        <3>1. CASE MonitorFinished(t)
            <4> DEFINE lost == {o[2] : o \in Unsuccessful(thread[t].got)} \cup errors[w]
            <4>1. thread' = [thread EXCEPT ![t] = [thread[t] EXCEPT !.pc = "reconcile", !.failed = lost]]
                BY <1>1, <3>1 DEF MonitorFinished
            <4> HIDE DEF lost
            <4> QED BY <1>5, <4>1 DEF ThreadType, Begins
        <3>2. CASE ~MonitorFinished(t)
            <4>1. PICK pc \in {"cancelling", "reading", "tell_failed"} :
                     thread' = [thread EXCEPT ![t] = [thread[t] EXCEPT !.pc = pc, !.camp = campaign[w]]]
                BY <1>1, <1>5, <2>4, <3>2 DEF MonitorCancelled, MonitorLooks, Fail, ThreadType
            <4> QED BY <1>5, <4>1 DEF ThreadType, Begins
        <3> QED BY <3>1, <3>2
    <2>5. CASE \E pc \in {"complete", "monitor", "finalize", "done", "tell_cancelled", "raised"} : Go(t, pc)
        <3>1. PICK pc \in {"complete", "monitor", "finalize", "done", "tell_cancelled", "raised"} : Go(t, pc)
            BY <2>5
        <3> QED BY <3>1, GoEffect DEF ThreadPoints, Moved, Begins, Scans, Base
    <2> QED BY <1>1, <2>1, <2>2, <2>3, <2>4, <2>5
            DEF Between, Run, CompleteWithoutOperations, MonitorWaits, Reconcile, Finalize, Complete, FinishCancelled,
                Fail, Tell, DatabaseFails
<1>7. ASSUME NEW v \in Workflows, v # w PROVE Tracked(v)'
    <2>1. \A u \in Threads : Harmless(u, v)
        BY <1>3, <1>7 DEF Others, Harmless
    <2> QED BY <1>3, <1>4, <2>1, TrackedKept DEF Scans
<1>8. Tracked(w)'
    <2>1. \A u \in Threads : thread'[u].w = w => thread[u].w = w /\ (u = t \/ thread'[u] = thread[u])
        BY <1>1, <1>3 DEF Others
    <2> QED BY <1>1, <1>3, <1>4, <1>6, <2>1 DEF Scans, Tracked, Begins, Grows
<1> QED BY <1>2, <1>7, <1>8 DEF Scans

\* Only a thread whose workflow has no link comes to the start of the children.
LEMMA ScansLaunch == ASSUME Scans, NEW t \in Threads, Launch(t) PROVE Scans'
<1>1. Base' /\ LaunchStep(t) /\ ChildStep(t)
    BY BaseLaunch, LaunchEffect DEF Scans, Base
<1>2. PICK w \in Workflows : thread[t].w = w
    BY <1>1, WorkflowOf DEF LaunchStep, Starting, Scans, Base
<1>3. /\ Others(t) /\ thread'[t].w = w /\ UNCHANGED <<req, status>> /\ thread[t].pc \in Begins \ {"begin"}
      /\ Grows
    BY <1>1, <1>2 DEF LaunchStep, Starting, Begins, Grows
<1>4. UNCHANGED unlinked /\ \A v \in Workflows : v # w => ops'[v] = ops[v]
    BY <1>2 DEF Launch, Replay, CheckChild, RefuseChild, DropChild, CreateChild, SendChild, SendFails,
                Record, Beside, history, rows, Scans, Base, TypeOK
<1>5. \A v \in Workflows :
         /\ launches'[<<v, Existing>>] = launches[<<v, Existing>>]
         /\ v # w => launches'[<<v, Task>>] = launches[<<v, Task>>]
    <2> DEFINE o == <<w, thread[t].at>>
    <2>1. launches \in [Children -> Nat] /\ \A v \in Workflows : <<v, Existing>> \in Children /\ <<v, Task>> \in Children
        BY DEF Scans, Base, TypeOK, Children, Units
    <2>2. CASE launches' = launches
        BY <2>2
    <2>3. CASE thread[t].pc = "sending" /\ launches' = [launches EXCEPT ![o] = @ + 1]
        <3>1. thread[t].at # Existing
            BY <2>3 DEF Scans, Base, Shape
        <3>2. \A v \in Workflows : <<v, Existing>> # o /\ (v # w => <<v, Task>> # o)
            BY <3>1
        <3> HIDE DEF o
        <3> QED BY <2>1, <2>3, <3>2
    <2> QED BY <1>1, <1>2, <2>2, <2>3 DEF ChildStep
<1>6. ASSUME NEW v \in Workflows, v # w PROVE Tracked(v)'
    <2>1. \A u \in Threads : Harmless(u, v)
        BY <1>3, <1>6 DEF Others, Harmless
    <2>2. /\ launches'[<<v, Existing>>] = launches[<<v, Existing>>] /\ launches'[<<v, Task>>] = launches[<<v, Task>>]
          /\ req'[v] = req[v] /\ ops'[v] = ops[v] /\ unlinked \subseteq unlinked'
        BY <1>3, <1>4, <1>5, <1>6
    <2> QED BY <1>3, <2>1, <2>2, TrackedKept DEF Scans
<1>7. Tracked(w)'
    <2>1. Tracked(w) /\ launches'[<<w, Existing>>] = launches[<<w, Existing>>] /\ UNCHANGED <<status, req, unlinked>>
        BY <1>3, <1>4, <1>5 DEF Scans
    <2>2. launches[<<w, Existing>>] = 0 \/ w \in unlinked
        BY <1>2, <1>3, <2>1 DEF Tracked
    <2> QED BY <2>1, <2>2 DEF Tracked
<1> QED BY <1>1, <1>6, <1>7 DEF Scans

LEMMA ScansForget == ASSUME Scans, NEW t \in Threads, Forget(t) PROVE Scans'
<1>1. Base' /\ Others(t) /\ thread'[t] = IdleThread
    BY BaseForget, ForgetEffect DEF Scans, Base
<1>2. UNCHANGED <<launches, req, ops, unlinked>> /\ Grows
    BY DEF Forget, rows, history, Grows
<1>3. \A u \in Threads, w \in Workflows : Harmless(u, w)
    BY <1>1, UnitsDistinct DEF Others, IdleThread, Harmless
<1> QED BY <1>1, <1>2, <1>3, TrackedKept DEF Scans

LEMMA ScansWorld ==
    ASSUME Scans, \/ \E o \in Children : ChildEnds(o) \/ CancelChild(o)
                  \/ \E a \in Assets : CaseResolved(a)
                  \/ UNCHANGED vars
    PROVE  Scans'
<1>1. Base'
    BY BaseWorld, BaseStep DEF Scans
<1>2. UNCHANGED <<launches, status, req, ops, unlinked, thread>>
    BY DEF ChildEnds, CancelChild, CaseResolved, rows, process, history, vars
<1> QED BY <1>1, <1>2 DEF Scans, Tracked

\* A request that is cut off before its link is noted.
LEMMA ScansStop == ASSUME Scans, Shutdown \/ Crash \/ Exit PROVE Scans'
<1>1. Base'
    BY BaseShutdown, BaseRestart DEF Scans
<1>2. CASE Shutdown
    <2>1. UNCHANGED <<launches, req, ops, unlinked>> /\ Grows
        BY <1>2 DEF Shutdown, rows, history, Grows
    <2>2. ASSUME NEW t \in Threads, NEW w \in Workflows PROVE Harmless(t, w)
        <3>1. thread[t] \in ThreadType
            BY DEF Scans, Base, TypeOK, ThreadType
        <3>2. CASE thread[t].pc = "waiting" /\ thread'[t] = [thread[t] EXCEPT !.pc = "done"]
            <4>1. thread'[t].pc = "done" /\ thread'[t].w = thread[t].w
                BY <3>1, <3>2 DEF ThreadType
            <4> QED BY <4>1 DEF Harmless, Begins
        <3>3. CASE thread'[t] = IdleThread
            BY <3>3, UnitsDistinct DEF IdleThread, Harmless
        <3> QED BY <1>2, <3>2, <3>3, ShutdownEffect, SameHarmless DEF Scans, Base
    <2> QED BY <1>1, <2>1, <2>2, TrackedKept DEF Scans
<1>3. CASE Restart
    <2>1. /\ UNCHANGED <<launches, status, ops>> /\ unlinked' = unlinked \cup {w \in Workflows : req[w] = "link"}
          /\ \A w \in Workflows : req'[w] = "none"
          /\ \A t \in Threads : thread'[t].w \notin Workflows
        BY <1>3, UnitsDistinct DEF Restart, NotedUnlinked, IdleThread, rows
    <2> QED BY <1>1, <2>1 DEF Scans, Tracked
<1> QED BY <1>2, <1>3 DEF Crash, Exit

LEMMA ScansStep == ASSUME Scans, [Next]_vars PROVE Scans'
<1>1. ASSUME NEW w \in Workflows, Ask(w) \/ Request(w) \/ Resume(w) PROVE Scans'
    BY <1>1, ScansAsk, ScansRequest
<1>2. ASSUME NEW t \in Threads, Run(t) \/ DatabaseFails(t) PROVE Scans'
    BY <1>2, ScansBetween, ScansLaunch, ScansForget DEF Between
<1> QED BY <1>1, <1>2, ScansWorld, ScansStop DEF Next

\* Threads, crashes, resumes and cancellations repeat neither the start of a child nor the
\* work on a workflow: the row of the child and its key come before the start, and a
\* workflow is scheduled until the callback of its one thread.  A workflow that tracks a
\* scan starts no second one, but when a thread runs it before it has the link.
THEOREM NothingRepeats == Spec => []NothingRunsTwice
<1>1. ASSUME Base PROVE ChildLaunchedOnce
    <2>1. \A o \in Children : \E w \in Workflows, c \in Units : o = <<w, c>>
        BY DEF Children
    <2> QED BY <1>1, <2>1 DEF Base, Sent, ChildLaunchedOnce
<1>2. ASSUME Base PROVE OneThreadPerWorkflow
    <2>1. ASSUME NEW w \in Workflows PROVE Cardinality({t \in Threads : thread[t].w = w}) <= 1
        <3> DEFINE T == {t \in Threads : thread[t].w = w}
        <3>1. \A t, u \in T : t = u
            BY <1>2, UnitsDistinct DEF Base, Owned
        <3>2. CASE T = {}
            BY <3>2, FS_EmptySet
        <3>3. ASSUME NEW t \in T PROVE Cardinality(T) <= 1
            <4>1. T = {t}
                BY <3>1
            <4>2. Cardinality({t}) = 1
                BY FS_Singleton
            <4> HIDE DEF T
            <4> QED BY <4>1, <4>2
        <3> QED BY <3>2, <3>3
    <2> QED BY <2>1 DEF OneThreadPerWorkflow
<1>3. ASSUME Scans PROVE TrackedScanNotRepeated
    <2>1. ASSUME NEW w \in Workflows PROVE launches[<<w, Existing>>] + launches[<<w, Task>>] <= 1 \/ w \in unlinked
        <3>1. /\ launches[<<w, Existing>>] \in Nat /\ launches[<<w, Task>>] \in Nat
              /\ launches[<<w, Existing>>] <= 1 /\ launches[<<w, Task>>] <= 1
            BY <1>3 DEF Scans, Base, Sent, TypeOK, Children, Units
        <3> QED BY <1>3, <3>1 DEF Scans, Tracked
    <2> QED BY <2>1 DEF TrackedScanNotRepeated
<1>4. Scans => NothingRunsTwice
    BY <1>1, <1>2, <1>3 DEF NothingRunsTwice, Scans
<1> HIDE DEF Scans
<1> QED BY <1>4, ScansStart, ScansStep, PTL DEF Spec

-----------------------------------------------------------------------------
(* What a workflow reports at its end is what happened.  This is proved when   *)
(* no session is connected while a request is at work on a row, as such a      *)
(* connection gives a thread a row that its request goes on with.              *)

Working == {"waiting", "begin", "start", "launch", "creating", "sending", "no_operations", "monitor",
            "reading", "reconcile", "finalize", "complete", "cancelling"}
Before == {"attach", "queue", "empty", "reuse", "link", "schedule"}

AllDone(w) == errors[w] = {} /\ \A o \in ops[w] : child[o] = "done"

\* A thread works on an active workflow and knows its operations; from the end of the
\* monitoring on it knows of every failure.
Knows(t, w) ==
    LET pc == thread[t].pc IN
    /\ req[w] = "none"
    /\ pc \in Working => Active(w)
    /\ pc \in {"begin", "start", "monitor", "reading", "reconcile", "finalize"} => thread[t].got = ops[w]
    /\ pc = "no_operations" => ops[w] = {} /\ thread[t].failed # {}
    /\ pc \in {"reconcile", "finalize", "complete"} /\ thread[t].failed = {} => AllDone(w)
    /\ pc \in Deciding /\ cancel[w] => w \in tooLate \/ ops[w] = {}

\* A request works on an active workflow without operations, until it gives it some.
Begun(w) ==
    /\ req[w] \notin {"none", "checked"} => Active(w)
    /\ status[w] = "absent" \/ req[w] \in Before => ops[w] = {} /\ errors[w] = {}
    /\ status[w] = "absent" => ~cancel[w]
    /\ cancel[w] /\ status[w] \in {"completed", "completed_with_errors"} => w \in tooLate \/ ops[w] = {}
    /\ status[w] = "completed" => AllDone(w)

Truth ==
    /\ Base
    /\ \A w \in Workflows : Begun(w)
    /\ \A t \in Threads, w \in Workflows : thread[t].w = w => Knows(t, w)

LEMMA TruthStart == Init => Truth
<1> SUFFICES ASSUME Init PROVE Truth
    OBVIOUS
<1>1. \A t \in Threads : thread[t].w \notin Workflows
    BY UnitsDistinct DEF Init, IdleThread
<1>2. \A w \in Workflows : Begun(w)
    BY DEF Init, Begun
<1> QED BY <1>1, <1>2, BaseStart DEF Truth

\* A success is final, and so is it to be too late.
Final ==
    /\ \A o \in Children : child[o] = "done" => child'[o] = "done"
    /\ tooLate \subseteq tooLate'

LEMMA WriteKeeps ==
    ASSUME Base, NEW o \in Children, NEW s, child[o] # "done", child' = [child EXCEPT ![o] = s]
    PROVE  \A p \in Children : child[p] = "done" => child'[p] = "done"
    BY DEF Base, TypeOK

LEMMA AskFinal == ASSUME Base, NEW w \in Workflows, Ask(w) PROVE Final
<1>1. CASE TrackScan(w)
    <2>1. <<w, Existing>> \in Children /\ Existing \in Units
        BY DEF Children, Units
    <2>2. child[<<w, Existing>>] = "none"
        BY <1>1, <2>1 DEF TrackScan, Create, Base, Sent
    <2> QED BY <1>1, <2>1, <2>2, WriteKeeps DEF TrackScan, history, Final
<1>2. CASE ~TrackScan(w)
    BY <1>2 DEF Ask, StartScan, StartGroup, CheckCampaign, Retry, Cancel, Outside, history, Final
<1> QED BY <1>1, <1>2

LEMMA RequestFinal == ASSUME NEW w \in Workflows, Request(w) \/ Resume(w) PROVE Final
    BY DEF Request, Resume, StartVerification, Attach, NothingToVerify, QueueCases, ResumeReconciliation,
           LinkScan, ScheduleRequest, Outside, history, Final

LEMMA ThreadFinal ==
    ASSUME Base, NEW t \in Threads, Run(t) \/ DatabaseFails(t), ~MonitorWaits(t) PROVE Final
<1>1. CASE Launch(t)
    <2> DEFINE o == <<thread[t].w, thread[t].at>>
    <2>1. ChildStep(t) /\ thread[t].pc # "idle"
        BY <1>1, LaunchEffect DEF LaunchStep, Starting, Base
    <2>2. UNCHANGED tooLate
        BY <1>1 DEF Launch, Replay, CheckChild, RefuseChild, DropChild, CreateChild, SendChild, SendFails,
                    Record, Beside, history
    <2>3. thread[t].pc \in {"creating", "sending"} => o \in Children
        BY <2>1, WorkflowOf DEF Base, Shape, Children
    <2>4. thread[t].pc = "sending" => child[o] # "done"
        BY DEF Base, Sent
    <2>5. CASE UNCHANGED child
        BY <2>2, <2>5 DEF Final
    <2>6. ASSUME NEW s, thread[t].pc \in {"creating", "sending"}, child[o] # "done",
                 child' = [child EXCEPT ![o] = s]
          PROVE  Final
        <3> HIDE DEF o
        <3> QED BY <2>2, <2>3, <2>6, WriteKeeps DEF Final
    <2> QED BY <2>1, <2>4, <2>5, <2>6 DEF ChildStep
<1>2. CASE ~Launch(t)
    BY <1>2 DEF Run, Open, Begin, Start, CompleteWithoutOperations, MonitorCancelled, MonitorLooks, MonitorWaits, MonitorFinished,
                Reconcile, Finalize, Complete, FinishCancelled, Fail, Tell, Forget, DatabaseFails,
                Beside, history, Final
<1> QED BY <1>1, <1>2

LEMMA WorldFinal ==
    ASSUME Base,
           \/ \E o \in Children : ChildEnds(o) \/ CancelChild(o)
           \/ \E a \in Assets : CaseResolved(a)
           \/ Shutdown \/ Crash \/ Exit
    PROVE  Final
<1>1. ASSUME NEW o \in Children, ChildEnds(o) PROVE Final
    <2>1. child[o] # "done" /\ (\E s : child' = [child EXCEPT ![o] = s]) /\ UNCHANGED tooLate
        BY <1>1 DEF ChildEnds, history
    <2> QED BY <2>1, WriteKeeps DEF Final
<1>2. ASSUME NEW o \in Children, CancelChild(o) PROVE Final
    BY <1>2 DEF CancelChild, ChildActive, Base, TypeOK, history, Final
<1>3. CASE \E a \in Assets : CaseResolved(a)
    BY <1>3 DEF CaseResolved, history, Final
<1>4. CASE Shutdown \/ Crash \/ Exit
    BY <1>4 DEF Shutdown, Crash, Exit, Restart, history, Final
<1> QED BY <1>1, <1>2, <1>3, <1>4

\* The columns that the end of a workflow is read from.
SameRow(w) ==
    /\ status'[w] = status[w] /\ cancel'[w] = cancel[w] /\ req'[w] = req[w]
    /\ ops'[w] = ops[w] /\ errors'[w] = errors[w]

LEMMA AllDoneKept ==
    ASSUME TypeOK, Final, NEW w \in Workflows, ops'[w] = ops[w], errors'[w] = errors[w], AllDone(w)
    PROVE  AllDone(w)'
<1>1. ops[w] \subseteq Children
    BY DEF TypeOK
<1> QED BY <1>1 DEF AllDone, Final

LEMMA BegunKept ==
    ASSUME TypeOK, Final, NEW w \in Workflows, SameRow(w), Begun(w) PROVE Begun(w)'
<1>1. AllDone(w) => AllDone(w)'
    BY AllDoneKept DEF SameRow
<1> QED BY <1>1 DEF Begun, SameRow, Active, Final

LEMMA KnowsKept ==
    ASSUME TypeOK, Final, NEW t \in Threads, NEW w \in Workflows, Same(t), SameRow(w), Knows(t, w)
    PROVE  Knows(t, w)'
<1>1. AllDone(w) => AllDone(w)'
    BY AllDoneKept DEF SameRow
<1>2. Active(w) => Active(w)'
    BY DEF SameRow, Active
<1> QED BY <1>1, <1>2 DEF Knows, SameRow, Same, Final

\* A request, or a row that is made, has no thread.
LEMMA RowStep ==
    ASSUME Truth, Base', Final, NEW w \in Workflows, Begun(w)',
           \A t \in Threads : thread[t].w # w,
           \A t \in Threads : Same(t),
           \A v \in Workflows : v # w => SameRow(v)
    PROVE  Truth'
<1>1. \A v \in Workflows : Begun(v)'
    BY BegunKept DEF Truth, Base
<1>2. ASSUME NEW t \in Threads, NEW v \in Workflows, thread'[t].w = v PROVE Knows(t, v)'
    <2>1. thread[t].w = v /\ v # w
        BY <1>2 DEF Same
    <2> QED BY <2>1, KnowsKept DEF Truth, Base
<1> QED BY <1>1, <1>2 DEF Truth

\* A thread has its workflow to itself.
LEMMA ThreadStep ==
    ASSUME Truth, Base', Final, NEW t \in Threads, NEW w \in Workflows, thread[t].w = w,
           Others(t), thread'[t].w = w => Knows(t, w)', thread'[t].w \in {w, None}, Begun(w)',
           \A v \in Workflows : v # w => SameRow(v)
    PROVE  Truth'
<1>1. \A v \in Workflows : Begun(v)'
    BY BegunKept DEF Truth, Base
<1>2. ASSUME NEW u \in Threads, NEW v \in Workflows, thread'[u].w = v PROVE Knows(u, v)'
    <2>1. CASE u = t
        BY <1>2, <2>1, UnitsDistinct
    <2>2. CASE u # t
        <3>1. Same(u)
            BY <2>2 DEF Others, Same
        <3>2. thread[u].w = v /\ v # w
            BY <1>2, <2>2, <3>1, UnitsDistinct DEF Same, Truth, Base, Owned
        <3> QED BY <3>1, <3>2, KnowsKept DEF Truth, Base
    <2> QED BY <2>1, <2>2
<1> QED BY <1>1, <1>2 DEF Truth

LEMMA Unheld ==
    ASSUME Truth, NEW w \in Workflows, status[w] = "absent" \/ req[w] # "none"
    PROVE  \A t \in Threads : thread[t].w # w
    BY UnitsDistinct DEF Truth, Base, Owned, Knows

LEMMA TruthNewRow ==
    ASSUME Truth, Base', Final, NEW w \in Workflows, NEW k, NEW units, NEW source, NEW pc \in Before,
           Create(w, k, units, source, pc), UNCHANGED thread
    PROVE  Truth'
<1>1. status[w] = "absent"
    BY DEF Create
<1>2. \A t \in Threads : thread[t].w # w /\ Same(t)
    BY <1>1, Unheld DEF Same
<1>3. /\ status'[w] = "queued" /\ req'[w] = pc /\ UNCHANGED <<cancel, ops, errors>>
      /\ \A v \in Workflows : v # w => status'[v] = status[v] /\ req'[v] = req[v]
    BY DEF Create, SetStatus, Truth, Base, TypeOK
<1>4. Begun(w)
    BY DEF Truth
<1>5. Begun(w)'
    BY <1>1, <1>3, <1>4 DEF Begun, Active, ACTIVE, Before
<1>6. \A v \in Workflows : v # w => SameRow(v)
    BY <1>3 DEF SameRow
<1> QED BY <1>2, <1>5, <1>6, RowStep

\* A cancellation is noted in the row before anything can find it too late.
LEMMA TruthCancel == ASSUME Truth, NEW w \in Workflows, Cancel(w) PROVE Truth'
<1>0. Base' /\ Final
    BY BaseAsk, AskFinal DEF Ask, Truth
<1>1. (\A t \in Threads : Same(t)) /\ UNCHANGED <<ops, errors, child, req>>
    BY CancelEffect DEF Cancel, Truth, Base
<1>2. \A v \in Workflows : v # w => SameRow(v)
    BY <1>1 DEF Cancel, SetStatus, SameRow, Truth, Base, TypeOK
<1>3. \A v \in Workflows : v # w => Begun(v)'
    BY <1>0, <1>2, BegunKept DEF Truth, Base
<1>4. \A t \in Threads, v \in Workflows : v # w /\ thread'[t].w = v => Knows(t, v)'
    BY <1>0, <1>1, <1>2, KnowsKept DEF Truth, Base, Same
<1>5. CASE ~Active(w)
    <2>1. SameRow(w)
        BY <1>1, <1>5 DEF Cancel, SameRow
    <2>2. Begun(w)' /\ \A t \in Threads : thread'[t].w = w => Knows(t, w)'
        BY <1>0, <1>1, <2>1, BegunKept, KnowsKept DEF Truth, Base, Same
    <2> QED BY <1>0, <1>3, <1>4, <2>2 DEF Truth
<1>6. CASE Active(w)
    <2>1. /\ status'[w] = "cancelling" /\ Active(w)'
          /\ tooLate' = IF \E t \in Threads : thread[t].w = w /\ thread[t].pc \in Deciding
                        THEN tooLate \cup {w} ELSE tooLate
        BY <1>6 DEF Cancel, SetStatus, Active, ACTIVE, Truth, Base, TypeOK
    <2>2. Begun(w)'
        BY <1>1, <1>6, <2>1 DEF Begun, Active, ACTIVE, Truth
    <2>3. ASSUME NEW t \in Threads, thread'[t].w = w PROVE Knows(t, w)'
        <3>1. Knows(t, w) /\ thread[t].w = w /\ Same(t)
            BY <1>1, <2>3 DEF Truth, Same
        <3>2. thread[t].pc \in Deciding => w \in tooLate'
            BY <2>1, <3>1
        <3>3. AllDone(w)' <=> AllDone(w)
            BY <1>1 DEF AllDone
        <3> QED BY <1>1, <2>1, <3>1, <3>2, <3>3 DEF Knows, Same
    <2> QED BY <1>0, <1>3, <1>4, <2>2, <2>3 DEF Truth
<1> QED BY <1>5, <1>6

LEMMA TruthAsk == ASSUME Truth, NEW w \in Workflows, Ask(w) PROVE Truth'
<1>0. Base' /\ Final
    BY BaseAsk, AskFinal DEF Truth
<1>1. CASE StartScan(w)
    BY <1>0, <1>1, TruthNewRow DEF StartScan, Before
<1>2. CASE TrackScan(w)
    BY <1>0, <1>2, TruthNewRow DEF TrackScan, Before
<1>3. CASE StartGroup(w)
    BY <1>0, <1>3, TruthNewRow DEF StartGroup, Before
<1>4. CASE CheckCampaign(w)
    <2>1. /\ status[w] = "absent" /\ req'[w] = "checked"
          /\ UNCHANGED <<status, cancel, ops, errors, child, thread>>
        BY <1>4 DEF CheckCampaign, Outside, Truth, Base, TypeOK
    <2>2. \A t \in Threads : thread[t].w # w /\ Same(t)
        BY <2>1, Unheld DEF Same
    <2>3. Begun(w)'
        BY <2>1 DEF Begun, Before, Truth
    <2>4. \A v \in Workflows : v # w => SameRow(v)
        BY <1>4, <2>1 DEF CheckCampaign, SameRow, Truth, Base, TypeOK
    <2> QED BY <1>0, <2>2, <2>3, <2>4, RowStep
<1>5. CASE Cancel(w)
    BY <1>5, TruthCancel
<1>6. ASSUME NEW v \in Workflows, Retry(w, v) PROVE Truth'
    <2> DEFINE pc == IF kind[v] = "campaign" THEN "attach" ELSE IF Reusable(v) THEN "reuse" ELSE "schedule"
    <2>1. Create(w, kind[v], targets[v], v, pc) /\ UNCHANGED thread /\ pc \in Before
        BY <1>6 DEF Retry, Before
    <2> HIDE DEF pc
    <2> QED BY <1>0, <2>1, TruthNewRow
<1> QED BY <1>1, <1>2, <1>3, <1>4, <1>5, <1>6 DEF Ask

\* The steps of a request before it schedules its workflow.
LEMMA TruthRequest == ASSUME Truth, NEW w \in Workflows, Request(w), ~ScheduleRequest(w) PROVE Truth'
<1>0. Base' /\ Final
    BY BaseRequest, RequestFinal DEF Truth
<1>1. CASE StartVerification(w)
    BY <1>0, <1>1, TruthNewRow DEF StartVerification, Before
<1>2. CASE Attach(w) \/ NothingToVerify(w) \/ QueueCases(w) \/ ResumeReconciliation(w) \/ LinkScan(w)
    <2>1. req[w] \in Before /\ UNCHANGED <<thread, child>>
        BY <1>2 DEF Attach, NothingToVerify, QueueCases, ResumeReconciliation, LinkScan, Before, Outside
    <2>2. \A t \in Threads : thread[t].w # w /\ Same(t)
        BY <2>1, Unheld DEF Same, Before
    <2>3. \A v \in Workflows : v # w => SameRow(v)
        BY <1>2 DEF Attach, NothingToVerify, QueueCases, ResumeReconciliation, LinkScan, SetStatus, rows,
                    SameRow, Truth, Base, TypeOK
    <2>4. Begun(w) /\ Active(w) /\ ops[w] = {} /\ errors[w] = {} /\ status[w] # "absent"
        BY <2>1 DEF Truth, Begun, Before, Active, ACTIVE
    <2>5. CASE Attach(w) \/ QueueCases(w)
        <3>1. UNCHANGED <<status, cancel, ops, errors>> /\ req'[w] \in Before
            BY <2>5 DEF Attach, QueueCases, AfterAttach, Before, rows, Truth, Base, TypeOK
        <3>2. Begun(w)'
            BY <2>1, <2>4, <3>1 DEF Begun, Active, ACTIVE
        <3> QED BY <1>0, <2>2, <2>3, <3>2, RowStep
    <2>6. CASE NothingToVerify(w)
        <3>1. /\ UNCHANGED <<cancel, ops, errors>> /\ status'[w] = "completed" /\ req'[w] = "none"
            BY <2>6 DEF NothingToVerify, SetStatus, Truth, Base, TypeOK
        <3>2. Begun(w)'
            BY <2>4, <3>1 DEF Begun, AllDone, Before
        <3> QED BY <1>0, <2>2, <2>3, <3>2, RowStep
    <2>7. CASE ResumeReconciliation(w) \/ LinkScan(w)
        <3>1. /\ UNCHANGED <<cancel, errors>> /\ status'[w] = "running" /\ req'[w] = "monitor_only"
            BY <2>7 DEF ResumeReconciliation, LinkScan, SetStatus, Truth, Base, TypeOK
        <3>2. Begun(w)'
            BY <3>1 DEF Begun, Active, ACTIVE, Before
        <3> QED BY <1>0, <2>2, <2>3, <3>2, RowStep
    <2> QED BY <1>2, <2>5, <2>6, <2>7
<1> QED BY <1>1, <1>2 DEF Request

\* A thread that is scheduled finds the request ended.
LEMMA TruthSchedule ==
    ASSUME Truth, NEW w \in Workflows, ScheduleRequest(w) \/ (Resume(w) /\ req[w] = "none") PROVE Truth'
<1>0. Base' /\ Final
    BY BaseRequest, RequestFinal DEF Truth, Request
<1>1. /\ Schedule(w) /\ Active(w) /\ req'[w] = "none"
      /\ UNCHANGED <<status, cancel, ops, errors, child>>
      /\ \A v \in Workflows : v # w => req'[v] = req[v]
    BY DEF ScheduleRequest, Resume, Truth, Begun, Base, TypeOK, rows, Outside
<1>2. \A v \in Workflows : v # w => SameRow(v)
    BY <1>1 DEF SameRow
<1>3. Begun(w)'
    <2>1. Begun(w) /\ status[w] \in ACTIVE
        BY <1>1 DEF Truth, Active
    <2> QED BY <1>1, <2>1 DEF Begun, ACTIVE, Before
<1>4. CASE UNCHANGED <<thread, scheduled>> /\ w \in scheduled
    <2>1. ASSUME NEW t \in Threads, NEW v \in Workflows, thread'[t].w = v PROVE Knows(t, v)'
        <3>1. Same(t) /\ thread[t].w = v /\ Knows(t, v)
            BY <1>4, <2>1 DEF Same, Truth
        <3>2. SameRow(v)
            BY <1>1, <1>2, <3>1 DEF Knows, SameRow
        <3> QED BY <1>0, <3>1, <3>2, KnowsKept DEF Truth, Base
    <2> QED BY <1>0, <1>2, <1>3, <2>1, BegunKept DEF Truth, Base
<1>5. ASSUME NEW t \in Threads, thread[t].pc = "idle", Others(t), w \notin scheduled,
             thread'[t] = [IdleThread EXCEPT !.pc = "waiting", !.w = w]
      PROVE  Truth'
    <2>1. thread'[t].pc = "waiting" /\ thread'[t].w = w
        BY <1>5 DEF IdleThread
    <2>2. Knows(t, w)'
        BY <1>1, <2>1 DEF Knows, Active, Deciding
    <2>3. ASSUME NEW u \in Threads, NEW v \in Workflows, thread'[u].w = v, u # t PROVE Knows(u, v)'
        <3>1. Same(u) /\ thread[u].w = v
            BY <1>5, <2>3 DEF Others, Same
        <3>2. v # w
            BY <1>5, <3>1, UnitsDistinct DEF Truth, Base, Owned
        <3> QED BY <1>0, <1>2, <3>1, <3>2, KnowsKept DEF Truth, Base
    <2>4. \A v \in Workflows : Begun(v)'
        BY <1>0, <1>2, <1>3, BegunKept DEF Truth, Base
    <2> QED BY <1>0, <2>1, <2>2, <2>3, <2>4 DEF Truth
<1> QED BY <1>1, <1>4, <1>5, ScheduleEffect DEF Truth, Base

\* The threads, one step after another.
LEMMA TruthBetween == ASSUME Truth, NEW t \in Threads, Between(t), ~MonitorWaits(t) PROVE Truth'
<1>0. Base' /\ Final /\ thread[t].pc # "idle"
    BY BaseBetween, ThreadFinal
    DEF Truth, Between, Run, Open, Begin, Start, CompleteWithoutOperations, MonitorCancelled,
        MonitorLooks, MonitorWaits, MonitorFinished, Reconcile, Finalize, Complete, FinishCancelled, Fail, Tell, DatabaseFails
<1>1. PICK w \in Workflows : thread[t].w = w
    BY <1>0, WorkflowOf DEF Truth, Base
<1>2. BetweenStep(t)
    BY <1>1, BetweenEffect DEF Truth, Base
<1>3. /\ Others(t) /\ thread'[t].w = w /\ UNCHANGED <<req, ops, errors, child>>
      /\ \A v \in Workflows : v # w => status'[v] = status[v]
    BY <1>1, <1>2 DEF BetweenStep, Moved, StatusOf
<1>4. UNCHANGED <<cancel, tooLate>>
    BY DEF Between, Run, Open, Begin, Start, CompleteWithoutOperations, MonitorCancelled,
           MonitorLooks, MonitorWaits, MonitorFinished, Reconcile, Finalize, Complete, FinishCancelled, Fail, Tell, DatabaseFails,
           rows, Beside, history
<1>5. \A v \in Workflows : v # w => SameRow(v)
    BY <1>3, <1>4 DEF SameRow
<1>6. Begun(w) /\ Knows(t, w) /\ req'[w] = "none" /\ (AllDone(w) <=> AllDone(w)')
    BY <1>1, <1>3 DEF Truth, Knows, AllDone
<1>7. thread[t] \in ThreadType /\ thread \in [Threads -> ThreadType]
      /\ status \in [Workflows -> ACTIVE \cup TERMINAL \cup {"absent"}]
    BY DEF Truth, Base, TypeOK, ThreadType
<1>8. CASE UNCHANGED status /\ ~(Begin(t) \/ Complete(t) \/ FinishCancelled(t) \/ (Fail(t) /\ status[w] \notin TERMINAL))
    <2>1. Begun(w)'
        BY <1>0, <1>3, <1>4, <1>8, BegunKept DEF SameRow, Truth, Base
    <2>2. Active(w)' <=> Active(w)
        BY <1>8 DEF Active
    <2>3. CASE Open(t)
        <3> DEFINE pc == IF ~Active(w) THEN "done" ELSE IF cancel[w] THEN "cancelling" ELSE "begin"
        <3>1. thread' = [thread EXCEPT ![t] = [thread[t] EXCEPT
                            !.token = FALSE, !.camp = campaign[w], !.got = ops[w], !.pc = pc]]
            BY <1>1, <2>3 DEF Open
        <3>2. (pc = "done") \/ (Active(w) /\ pc \in {"cancelling", "begin"})
            OBVIOUS
        <3> HIDE DEF pc
        <3>3. thread'[t].pc = pc /\ thread'[t].got = ops[w]
            BY <1>7, <3>1 DEF ThreadType
        <3>4. Knows(t, w)'
            BY <1>3, <1>4, <1>6, <2>2, <3>2, <3>3 DEF Knows, Working, Deciding
        <3> QED BY <1>0, <1>1, <1>3, <1>5, <2>1, <3>4, ThreadStep
    <2>4. CASE Start(t)
        <3>1. thread'[t].pc = "launch" /\ thread[t].pc = "start"
            BY <2>4 DEF Start, Truth, Base, TypeOK
        <3>2. Knows(t, w)'
            BY <1>6, <2>2, <3>1 DEF Knows, Working, Deciding
        <3> QED BY <1>0, <1>1, <1>3, <1>5, <2>1, <3>2, ThreadStep
    <2>5. CASE CompleteWithoutOperations(t)
        <3>1. /\ thread[t].pc = "no_operations" /\ thread'[t].pc = "complete"
              /\ thread'[t].failed = thread[t].failed
            BY <2>5, GoEffect DEF CompleteWithoutOperations, ThreadPoints, Moved, Truth, Base
        <3>2. Knows(t, w)'
            BY <1>3, <1>4, <1>6, <2>2, <3>1 DEF Knows, Working, Deciding
        <3> QED BY <1>0, <1>1, <1>3, <1>5, <2>1, <3>2, ThreadStep
    <2>6. CASE MonitorCancelled(t)
        <3>1. thread[t].pc = "monitor" /\ thread'[t].pc = "cancelling"
            BY <2>6 DEF MonitorCancelled, Truth, Base, TypeOK
        <3>2. Knows(t, w)'
            BY <1>6, <2>2, <3>1 DEF Knows, Working, Deciding
        <3> QED BY <1>0, <1>1, <1>3, <1>5, <2>1, <3>2, ThreadStep
    <2>12. CASE MonitorLooks(t)
        <3>1. /\ thread[t].pc = "monitor" /\ ~cancel[w]
              /\ thread' = [thread EXCEPT ![t] = [thread[t] EXCEPT !.pc = "reading", !.camp = campaign[w]]]
            BY <1>1, <1>7, <2>12 DEF MonitorLooks, CancelSeen, ThreadType
        <3>2. thread'[t].pc = "reading" /\ thread'[t].got = thread[t].got
            BY <1>7, <3>1 DEF ThreadType
        <3>3. Knows(t, w)'
            BY <1>3, <1>4, <1>6, <2>2, <3>1, <3>2 DEF Knows, Working, Deciding
        <3> QED BY <1>0, <1>1, <1>3, <1>5, <2>1, <3>3, ThreadStep
    <2>7. CASE MonitorFinished(t)
        <3> DEFINE bad == {o[2] : o \in Unsuccessful(thread[t].got)} \cup errors[w]
        <3>1. /\ thread[t].pc = "reading"
              /\ thread' = [thread EXCEPT ![t] = [thread[t] EXCEPT !.pc = "reconcile", !.failed = bad]]
            BY <1>1, <2>7 DEF MonitorFinished
        <3>2. bad = {} => AllDone(w)
            <4>1. thread[t].got = ops[w]
                BY <1>6, <3>1 DEF Knows
            <4> QED BY <4>1 DEF Unsuccessful, AllDone
        <3> HIDE DEF bad
        <3>3. thread'[t].pc = "reconcile" /\ thread'[t].failed = bad /\ thread'[t].got = thread[t].got
            BY <1>7, <3>1 DEF ThreadType
        <3>4. Knows(t, w)'
            BY <1>3, <1>4, <1>6, <2>2, <3>1, <3>2, <3>3 DEF Knows, Working, Deciding
        <3> QED BY <1>0, <1>1, <1>3, <1>5, <2>1, <3>4, ThreadStep
    <2>8. CASE Reconcile(t)
        <3>1. /\ thread[t].pc = "reconcile" /\ thread'[t].pc = "finalize"
              /\ thread'[t].failed = thread[t].failed /\ thread'[t].got = thread[t].got
            BY <2>8, GoEffect DEF Reconcile, ThreadPoints, Moved, Truth, Base
        <3>2. Knows(t, w)'
            BY <1>3, <1>4, <1>6, <2>2, <3>1 DEF Knows, Working, Deciding
        <3> QED BY <1>0, <1>1, <1>3, <1>5, <2>1, <3>2, ThreadStep
    <2>9. CASE Finalize(t)
        <3>1. /\ thread[t].pc = "finalize" /\ thread'[t].pc = "complete"
              /\ thread'[t].failed = thread[t].failed
            BY <2>9, GoEffect DEF Finalize, ThreadPoints, Moved, Truth, Base
        <3>2. Knows(t, w)'
            BY <1>3, <1>4, <1>6, <2>2, <3>1 DEF Knows, Working, Deciding
        <3> QED BY <1>0, <1>1, <1>3, <1>5, <2>1, <3>2, ThreadStep
    <2>10. CASE thread'[t].pc \in {"done", "raised"}
        <3>1. Knows(t, w)'
            BY <1>6, <2>10 DEF Knows, Working, Deciding
        <3> QED BY <1>0, <1>1, <1>3, <1>5, <2>1, <3>1, ThreadStep
    <2>11. Tell(t) \/ DatabaseFails(t) \/ Fail(t) => thread'[t].pc \in {"done", "raised"}
        <3>1. Tell(t) \/ DatabaseFails(t) \/ Fail(t) => \E pc \in {"done", "raised"} : Go(t, pc)
            BY <1>1, <1>8 DEF Tell, DatabaseFails, Fail
        <3> QED BY <3>1, GoEffect DEF ThreadPoints, Moved, Truth, Base
    <2> QED BY <1>8, <2>3, <2>4, <2>5, <2>6, <2>7, <2>8, <2>9, <2>10, <2>11, <2>12 DEF Between, Run
<1>9. CASE Begin(t)
    <2>1. PICK pc \in {"start", "monitor"} : Go(t, pc)
        BY <1>9 DEF Begin
    <2>2. thread'[t].pc = pc /\ thread'[t].got = thread[t].got /\ thread[t].pc = "begin"
        BY <1>9, <2>1, GoEffect DEF Begin, ThreadPoints, Moved, Truth, Base
    <2>3. status'[w] = "running" /\ Active(w)'
        BY <1>1, <1>7, <1>9 DEF Begin, SetStatus, Active, ACTIVE
    <2>4. Knows(t, w)'
        BY <1>3, <1>6, <2>2, <2>3 DEF Knows, Working, Deciding
    <2>5. Begun(w)'
        BY <1>6, <2>3 DEF Begun, Before
    <2> QED BY <1>0, <1>1, <1>3, <1>5, <2>4, <2>5, ThreadStep
<1>10. CASE Complete(t)
    <2>1. thread[t].pc = "complete" /\ thread'[t].pc = "done"
        BY <1>10, GoEffect DEF Complete, ThreadPoints, Moved, Truth, Base
    <2>2. status'[w] = IF thread[t].failed = {} THEN "completed" ELSE "completed_with_errors"
        BY <1>1, <1>7, <1>10 DEF Complete, SetStatus
    <2>3. (thread[t].failed = {} => AllDone(w)) /\ (cancel[w] => w \in tooLate \/ ops[w] = {})
        BY <1>6, <2>1 DEF Knows, Deciding
    <2>4. Begun(w)'
        BY <1>3, <1>4, <1>6, <2>2, <2>3 DEF Begun, Before
    <2>5. Knows(t, w)'
        BY <1>6, <2>1 DEF Knows, Working, Deciding
    <2> QED BY <1>0, <1>1, <1>3, <1>5, <2>4, <2>5, ThreadStep
<1>11. CASE FinishCancelled(t) \/ (Fail(t) /\ status[w] \notin TERMINAL)
    <2>1. /\ thread'[t].pc \in {"tell_cancelled", "tell_failed"}
          /\ status'[w] \in {"cancelled", "failed"}
        <3>1. CASE FinishCancelled(t)
            <4>1. thread'[t].pc = "tell_cancelled"
                BY <3>1, GoEffect DEF FinishCancelled, ThreadPoints, Moved, Truth, Base
            <4>2. status'[w] = "cancelled"
                BY <1>1, <1>7, <3>1 DEF FinishCancelled, SetStatus
            <4> QED BY <4>1, <4>2
        <3>2. CASE Fail(t) /\ status[w] \notin TERMINAL
            <4>1. thread' = [thread EXCEPT ![t] = [thread[t] EXCEPT !.pc = "tell_failed", !.camp = campaign[w]]]
                BY <1>1, <1>7, <3>2 DEF Fail, ThreadType
            <4>2. thread'[t].pc = "tell_failed"
                BY <1>7, <4>1 DEF ThreadType
            <4>3. status'[w] = "failed"
                BY <1>1, <1>7, <3>2 DEF Fail, SetStatus
            <4> QED BY <4>2, <4>3
        <3> QED BY <1>11, <3>1, <3>2
    <2>2. Knows(t, w)'
        BY <1>6, <2>1 DEF Knows, Working, Deciding
    <2>3. Begun(w)'
        BY <1>6, <2>1 DEF Begun, Before
    <2> QED BY <1>0, <1>1, <1>3, <1>5, <2>2, <2>3, ThreadStep
<1>12. UNCHANGED status \/ Begin(t) \/ Complete(t) \/ FinishCancelled(t) \/ (Fail(t) /\ status[w] \notin TERMINAL)
    BY <1>1 DEF Between, Run, Open, Start, CompleteWithoutOperations, MonitorCancelled, MonitorLooks, MonitorWaits, MonitorFinished,
                Reconcile, Finalize, Fail, Tell, DatabaseFails, rows
<1> QED BY <1>8, <1>9, <1>10, <1>11, <1>12

\* The next round looks at the flag again: a cancellation that was too late no longer is.
LEMMA TruthWaits == ASSUME Truth, NEW t \in Threads, MonitorWaits(t) PROVE Truth'
<1>1. thread[t].pc = "reading" /\ Between(t)
    BY DEF MonitorWaits, Between, Run, Launch, Replay, CheckChild, RefuseChild, DropChild, CreateChild, Upcoming,
           SendChild, SendFails, Record, Forget
<1>2. PICK w \in Workflows : thread[t].w = w
    BY <1>1, WorkflowOf DEF Truth, Base
<1>3. Base'
    BY <1>1, BaseBetween DEF Truth
<1>4. /\ Others(t) /\ thread'[t].pc = "monitor" /\ thread'[t].w = w /\ thread'[t].got = thread[t].got
    BY <1>2, GoEffect DEF MonitorWaits, ThreadPoints, Moved, Truth, Base
<1>5. UNCHANGED <<status, cancel, req, ops, errors, child>> /\ \A v \in Workflows : v # w /\ v \in tooLate => v \in tooLate'
    BY <1>2 DEF MonitorWaits, rows
<1>6. \A v \in Workflows : AllDone(v)' <=> AllDone(v)
    BY <1>5 DEF AllDone
<1>7. Begun(w) /\ Knows(t, w) /\ Active(w)
    BY <1>1, <1>2 DEF Truth, Knows, Working
<1>8. ASSUME NEW v \in Workflows PROVE Begun(v)'
    <2>1. CASE v = w
        BY <1>5, <1>6, <1>7, <2>1 DEF Begun, Active, ACTIVE
    <2>2. CASE v # w
        BY <1>5, <1>6, <2>2 DEF Truth, Begun, Active
    <2> QED BY <2>1, <2>2
<1>9. ASSUME NEW u \in Threads, NEW v \in Workflows, thread'[u].w = v PROVE Knows(u, v)'
    <2>1. CASE u = t
        BY <1>1, <1>4, <1>5, <1>7, <1>9, <2>1 DEF Knows, Working, Deciding, Active
    <2>2. CASE u # t
        <3>1. thread'[u] = thread[u] /\ v # w
            BY <1>2, <1>4, <1>9, <2>2, UnitsDistinct DEF Others, Truth, Base, Owned
        <3>2. Knows(u, v)
            BY <1>9, <3>1 DEF Truth
        <3> QED BY <1>5, <1>6, <3>1, <3>2 DEF Knows, Active
    <2> QED BY <2>1, <2>2
<1> QED BY <1>3, <1>8, <1>9 DEF Truth

LEMMA TruthLaunch == ASSUME Truth, NEW t \in Threads, Launch(t) PROVE Truth'
<1>1. LaunchStep(t)
    BY LaunchEffect DEF Truth, Base
<1>2. Base' /\ Final /\ thread[t].pc # "idle"
    BY <1>1, BaseLaunch, ThreadFinal DEF Truth, Run, LaunchStep, Starting, MonitorWaits
<1>3. PICK w \in Workflows : thread[t].w = w
    BY <1>2, WorkflowOf DEF Truth, Base
<1>4. /\ Others(t) /\ thread'[t].w = w /\ UNCHANGED <<status, cancel, req>>
      /\ thread[t].pc \in Starting
    BY <1>1, <1>3 DEF LaunchStep
<1>5. Begun(w) /\ Knows(t, w) /\ Active(w) /\ Active(w)' /\ req'[w] = "none"
    BY <1>3, <1>4 DEF Truth, Knows, Starting, Working, Active
<1>6. CASE UNCHANGED <<ops, errors>> /\ thread'[t].pc \in Starting \cup {"raised"}
    <2>1. \A v \in Workflows : SameRow(v)
        BY <1>4, <1>6 DEF SameRow
    <2>2. Begun(w)'
        BY <1>2, <1>5, <2>1, BegunKept DEF Truth, Base
    <2>3. Knows(t, w)'
        BY <1>5, <1>6 DEF Knows, Starting, Deciding
    <2> QED BY <1>2, <1>3, <1>4, <2>1, <2>2, <2>3, ThreadStep
<1>7. CASE Record(t)
    <2> DEFINE got == thread[t].got
               failed == thread[t].failed
               pc == IF got # {} THEN "monitor" ELSE IF failed # {} THEN "no_operations" ELSE "raised"
    <2>1. /\ ops' = [ops EXCEPT ![w] = got] /\ errors' = [errors EXCEPT ![w] = failed] /\ Go(t, pc)
        BY <1>3, <1>7 DEF Record
    <2>2. /\ ops'[w] = got /\ \A v \in Workflows : v # w => SameRow(v)
        BY <1>4, <2>1 DEF SameRow, Truth, Base, TypeOK
    <2>3. /\ thread'[t].pc = pc /\ thread'[t].got = got /\ thread'[t].failed = failed
        BY <2>1, GoEffect DEF ThreadPoints, Moved, Truth, Base
    <2> HIDE DEF got, failed
    <2>4. Knows(t, w)'
        <3>1. CASE got # {}
            BY <1>5, <2>2, <2>3, <3>1 DEF Knows, Deciding
        <3>2. CASE got = {}
            BY <1>5, <2>2, <2>3, <3>2 DEF Knows, Working, Deciding
        <3> QED BY <3>1, <3>2
    <2>5. Begun(w)'
        BY <1>4, <1>5 DEF Begun, Before, Active, ACTIVE
    <2> QED BY <1>2, <1>3, <1>4, <2>2, <2>4, <2>5, ThreadStep
<1>8. CASE ~Record(t)
    <2>1. UNCHANGED <<ops, errors>>
        BY <1>8 DEF Launch, Replay, CheckChild, RefuseChild, DropChild, CreateChild, SendChild, SendFails, rows
    <2>2. thread'[t].pc \in Starting \cup {"raised"}
        <3>1. thread[t] \in ThreadType /\ thread \in [Threads -> ThreadType]
            BY DEF Truth, Base, TypeOK, ThreadType
        <3>2. ASSUME NEW c, NEW found, NEW refused, Settled(t, c, found, refused)
              PROVE  thread'[t].pc \in {"launch", "raised"}
            BY <3>2, SettledEffect DEF Truth, Base
        <3>3. ASSUME NEW c \in Units, CheckChild(t, c) PROVE thread'[t].pc = "creating"
            <4>1. thread' = [thread EXCEPT ![t] = [thread[t] EXCEPT !.pc = "creating", !.at = c]]
                BY <3>1, <3>3 DEF CheckChild, ThreadType
            <4> QED BY <3>1, <4>1 DEF ThreadType
        <3>4. Go(t, "sending") => thread'[t].pc = "sending"
            BY GoEffect DEF ThreadPoints, Moved, Truth, Base
        <3> QED BY <1>8, <3>2, <3>3, <3>4
                DEF Launch, Replay, RefuseChild, DropChild, CreateChild, SendChild, SendFails, Starting
    <2> QED BY <1>6, <2>1, <2>2
<1> QED BY <1>7, <1>8

LEMMA TruthForget == ASSUME Truth, NEW t \in Threads, Forget(t) PROVE Truth'
<1>1. Base' /\ Final
    BY BaseForget, ThreadFinal DEF Truth, Run, Forget, MonitorWaits
<1>2. PICK w \in Workflows : thread[t].w = w
    BY WorkflowOf DEF Forget, Truth, Base
<1>3. Others(t) /\ thread'[t].w = None
    BY ForgetEffect DEF IdleThread, Truth, Base
<1>4. \A v \in Workflows : SameRow(v)
    BY DEF Forget, SameRow, rows
<1>5. Begun(w)'
    BY <1>1, <1>4, BegunKept DEF Truth, Base
<1> QED BY <1>1, <1>2, <1>3, <1>4, <1>5, ThreadStep, UnitsDistinct

LEMMA TruthWorld ==
    ASSUME Truth, \/ \E o \in Children : ChildEnds(o) \/ CancelChild(o)
                  \/ \E a \in Assets : CaseResolved(a)
    PROVE  Truth'
<1>1. Base' /\ Final
    BY BaseWorld, WorldFinal DEF Truth
<1>2. (\A w \in Workflows : SameRow(w)) /\ \A t \in Threads : Same(t)
    BY DEF ChildEnds, CancelChild, CaseResolved, rows, process, SameRow, Same
<1>3. ASSUME NEW t \in Threads, NEW w \in Workflows, thread'[t].w = w PROVE Knows(t, w)'
    BY <1>1, <1>2, <1>3, KnowsKept DEF Same, Truth, Base
<1> QED BY <1>1, <1>2, <1>3, BegunKept DEF Truth, Base

LEMMA TruthShutdown == ASSUME Truth, Shutdown PROVE Truth'
<1>1. Base' /\ Final
    BY BaseShutdown, WorldFinal DEF Truth
<1>2. \A w \in Workflows : SameRow(w)
    BY DEF Shutdown, rows, SameRow
<1>3. ASSUME NEW t \in Threads, NEW w \in Workflows, thread'[t].w = w PROVE Knows(t, w)'
    <2>0. thread[t] \in ThreadType
        BY DEF Truth, Base, TypeOK, ThreadType
    <2>1. CASE thread[t].pc = "waiting" /\ thread'[t] = [thread[t] EXCEPT !.pc = "done"]
        <3>1. thread'[t].pc = "done" /\ thread[t].w = w
            BY <1>3, <2>0, <2>1 DEF ThreadType
        <3>2. Knows(t, w)
            BY <3>1 DEF Truth
        <3> QED BY <1>2, <3>1, <3>2 DEF Knows, Working, Deciding, SameRow
    <2>2. CASE thread'[t] = IdleThread
        BY <1>3, <2>2, UnitsDistinct DEF IdleThread
    <2>3. CASE Same(t)
        BY <1>1, <1>2, <1>3, <2>3, KnowsKept DEF Same, Truth, Base
    <2> QED BY <2>1, <2>2, <2>3, ShutdownEffect DEF Truth, Base
<1> QED BY <1>1, <1>2, <1>3, BegunKept DEF Truth, Base

\* A restart drops every request: a workflow that it has made stays active and is resumed.
LEMMA TruthRestart == ASSUME Truth, Crash \/ Exit PROVE Truth'
<1>1. Base' /\ Final
    BY BaseRestart, WorldFinal DEF Truth
<1>2. /\ \A t \in Threads : thread'[t] = IdleThread
      /\ \A w \in Workflows : req'[w] = "none"
      /\ UNCHANGED <<status, cancel, ops, errors, child>>
    BY DEF Crash, Exit, Restart, rows
<1>3. \A w \in Workflows : Begun(w)'
    <2>1. ASSUME NEW w \in Workflows PROVE Begun(w)'
        <3>1. Begun(w) /\ (AllDone(w) => AllDone(w)')
            BY <1>2 DEF Truth, AllDone
        <3> QED BY <1>1, <1>2, <3>1 DEF Begun, Before, Final
    <2> QED BY <2>1
<1>4. \A t \in Threads : thread'[t].w \notin Workflows
    BY <1>2, UnitsDistinct DEF IdleThread
<1> QED BY <1>1, <1>3, <1>4 DEF Truth

LEMMA TruthStep == ASSUME ~ConnectDuringRequest, Truth, [Next]_vars PROVE Truth'
<1>1. CASE UNCHANGED vars
    <2>1. Base' /\ Final
        BY <1>1, BaseStep DEF vars, history, Truth, Final
    <2>2. (\A w \in Workflows : SameRow(w)) /\ \A t \in Threads : Same(t)
        BY <1>1 DEF vars, rows, process, SameRow, Same
    <2>3. ASSUME NEW t \in Threads, NEW w \in Workflows, thread'[t].w = w PROVE Knows(t, w)'
        BY <2>1, <2>2, <2>3, KnowsKept DEF Same, Truth, Base
    <2> QED BY <2>1, <2>2, <2>3, BegunKept DEF Truth, Base
<1>2. ASSUME NEW w \in Workflows, Ask(w) \/ Request(w) \/ Resume(w) PROVE Truth'
    <2>1. CASE Resume(w)
        BY <2>1, TruthSchedule DEF Resume
    <2>2. CASE Request(w)
        BY <2>2, TruthSchedule, TruthRequest
    <2> QED BY <1>2, <2>1, <2>2, TruthAsk
<1>3. ASSUME NEW t \in Threads, Run(t) \/ DatabaseFails(t) PROVE Truth'
    BY <1>3, TruthBetween, TruthWaits, TruthLaunch, TruthForget DEF Between
<1>4. CASE \/ \E o \in Children : ChildEnds(o) \/ CancelChild(o)
           \/ \E a \in Assets : CaseResolved(a)
    BY <1>4, TruthWorld
<1>5. CASE Shutdown \/ Crash \/ Exit
    BY <1>5, TruthShutdown, TruthRestart
<1> QED BY <1>1, <1>2, <1>3, <1>4, <1>5 DEF Next

LEMMA TruthAlways == ASSUME ~ConnectDuringRequest PROVE Spec => []Truth
<1>1. Truth /\ [Next]_vars => Truth'
    BY TruthStep
<1> HIDE DEF Truth
<1> QED BY TruthStart, <1>1, PTL DEF Spec

\* A cancellation that comes before the last look at the flag is not lost, and no
\* failure of a child or of its start is hidden in 'completed': over any overlap of
\* requests, threads, cancellations, failing queries and restarts.
THEOREM EndsAreTrue == ASSUME ~ConnectDuringRequest PROVE Spec => []EndIsTruthful
<1>1. Truth => EndIsTruthful
    BY DEF Truth, Begun, AllDone, EndIsTruthful, CancelBeforeEndWins, CompletedHidesNoFailure
<1> QED BY <1>1, TruthAlways, PTL

-----------------------------------------------------------------------------
(* A case that waits has a workflow that will tell it.                         *)

Waits(a, w) == owner[a] = w /\ open[a] /\ verdict[a] \in {"queued", "running"}

Tells(w) == \E t \in Threads : thread[t].w = w /\ thread[t].pc \in Telling

\* The thread knows whether the workflow has cases; when it gives up, somebody else sees to
\* them or none waits.
Minds(t, w) ==
    /\ thread[t].pc \in (Working \ {"waiting"}) \cup Telling => thread[t].camp = campaign[w]
    /\ thread[t].pc = "complete" => \A a \in Assets : ~Waits(a, w)
    /\ thread[t].pc = "raised" => Active(w) \/ w \in cutOff \/ \A a \in Assets : ~Waits(a, w)

\* A case belongs to a workflow that has attached itself to the campaign.
Cared(w) ==
    /\ \A a \in Assets :
          /\ owner[a] = w => status[w] # "absent"
          /\ Waits(a, w) =>
                /\ campaign[w] /\ req[w] \notin {"attach", "empty"}
                /\ Active(w) \/ w \in cutOff \/ req[w] # "none" \/ Tells(w)
    /\ req[w] = "queue" => campaign[w]
    /\ \A t \in Threads : thread[t].w = w => Minds(t, w)

Owners == \A a \in Assets : verdict[a] \in {"queued", "running"} => owner[a] \in Workflows

Care == Truth /\ Owners /\ \A w \in Workflows : Cared(w)

LEMMA CareStart == Init => Care
<1> SUFFICES ASSUME Init PROVE Care
    OBVIOUS
<1>1. Owners
    BY DEF Init, Owners
<1>2. ASSUME NEW w \in Workflows PROVE Cared(w)
    <2>1. (\A a \in Assets : owner[a] # w) /\ (\A t \in Threads : thread[t].w # w) /\ req[w] = "none"
        BY UnitsDistinct DEF Init, IdleThread
    <2> QED BY <2>1 DEF Cared, Waits
<1> QED BY <1>1, <1>2, TruthStart DEF Care

\* The cases that a workflow takes leave their former one; those that it finalizes wait no more.
LEMMA TakeEffect ==
    ASSUME TypeOK, Owners, NEW w \in Workflows, NEW s, SetCampaignVerification(w, s)
    PROVE  /\ Owners'
           /\ \A a \in Assets, v \in Workflows : v # w => ~Waits(a, v)' /\ (owner'[a] = v => owner[a] = v)
           /\ s \notin {"queued", "running"} => \A a \in Assets, v \in Workflows : ~Waits(a, v)'
<1>1. \A a \in Assets : /\ open[a] => owner'[a] = w /\ verdict'[a] = s
                        /\ ~open[a] => owner'[a] = owner[a] /\ verdict'[a] = verdict[a]
    BY DEF SetCampaignVerification
<1>2. open' = open
    BY DEF SetCampaignVerification
<1>3. Owners'
    BY <1>1 DEF Owners
<1> QED BY <1>1, <1>2, <1>3 DEF Waits

LEMMA FinalizeEffect ==
    ASSUME Owners, NEW w \in Workflows, NEW bad, FinalizeCampaignVerification(w, bad)
    PROVE  /\ Owners'
           /\ \A a \in Assets, v \in Workflows : (Waits(a, v)' => Waits(a, v)) /\ (owner'[a] = v => owner[a] = v)
           /\ \A a \in Assets : ~Waits(a, w)'
<1>1. \A a \in Assets : /\ owner[a] # w => verdict'[a] = verdict[a]
                        /\ owner[a] = w => verdict'[a] \in {"failed", "passed"}
    BY DEF FinalizeCampaignVerification
<1>2. open' = open /\ owner' = owner
    BY DEF FinalizeCampaignVerification
<1> QED BY <1>1, <1>2 DEF Waits, Owners

\* Somebody else's row, threads and cases.
CaresKept(w) ==
    /\ status'[w] = status[w] /\ req'[w] = req[w] /\ campaign'[w] = campaign[w]
    /\ \A a \in Assets : (Waits(a, w)' => Waits(a, w)) /\ (owner'[a] = w => owner[a] = w)

LEMMA CaredKept ==
    ASSUME NEW w \in Workflows, Cared(w), CaresKept(w), cutOff \subseteq cutOff',
           \A t \in Threads : thread[t].w = w \/ thread'[t].w = w => Same(t)
    PROVE  Cared(w)'
<1>1. Active(w)' <=> Active(w)
    BY DEF CaresKept, Active
<1>2. Tells(w) => Tells(w)'
    BY DEF Tells, Same
<1>3. ASSUME NEW t \in Threads, thread'[t].w = w PROVE Minds(t, w)'
    <2>1. Same(t) /\ thread[t].w = w /\ Minds(t, w)
        BY <1>3 DEF Same, Cared
    <2> QED BY <1>1, <2>1 DEF Minds, Same, CaresKept
<1> QED BY <1>1, <1>2, <1>3 DEF Cared, CaresKept

\* A step of a request, on its own row.
LEMMA CareRow ==
    ASSUME Care, Truth', Owners', NEW w \in Workflows, Cared(w)', cutOff \subseteq cutOff',
           \A t \in Threads : Same(t),
           \A v \in Workflows : v # w => CaresKept(v)
    PROVE  Care'
    BY CaredKept DEF Care

\* A step of a thread, on its own workflow.
LEMMA CareThread ==
    ASSUME Care, Truth', Owners', NEW t \in Threads, NEW w \in Workflows, thread[t].w = w,
           Others(t), thread'[t].w \in {w, None}, Cared(w)', cutOff \subseteq cutOff',
           \A v \in Workflows : v # w => CaresKept(v)
    PROVE  Care'
<1>1. ASSUME NEW v \in Workflows, v # w PROVE Cared(v)'
    <2>1. \A u \in Threads : thread[u].w = v \/ thread'[u].w = v => Same(u)
        BY <1>1, UnitsDistinct DEF Others, Same
    <2> QED BY <1>1, <2>1, CaredKept DEF Care
<1> QED BY <1>1 DEF Care

\* Where the row, the cases and the threads of every workflow stay.
LEMMA CareAll ==
    ASSUME Care, Truth', UNCHANGED <<verdict, owner>>, cutOff \subseteq cutOff', \A t \in Threads : Same(t),
           \A v \in Workflows : CaresKept(v)
    PROVE  Care'
<1>1. Owners'
    BY DEF Owners, Care
<1> QED BY <1>1, CaredKept DEF Care

LEMMA CareNewRow ==
    ASSUME Care, Truth', NEW w \in Workflows, NEW k, NEW units, NEW source, NEW pc \in Before \ {"queue"},
           Create(w, k, units, source, pc), UNCHANGED <<thread, cases, cutOff>>
    PROVE  Care'
<1>1. status[w] = "absent" /\ \A a \in Assets : owner[a] # w
    BY DEF Create, Care, Cared
<1>2. \A t \in Threads : thread[t].w # w /\ Same(t)
    BY <1>1, Unheld DEF Same, Care
<1>3. req'[w] = pc /\ \A v \in Workflows : v # w => CaresKept(v)
    BY DEF Create, SetStatus, CaresKept, Waits, cases, Care, Truth, Base, TypeOK
<1>4. Cared(w)'
    BY <1>1, <1>2, <1>3 DEF Cared, Waits, cases
<1>5. Owners'
    BY DEF Owners, cases, Care
<1> QED BY <1>2, <1>3, <1>4, <1>5, CareRow

LEMMA CareAsk == ASSUME Care, NEW w \in Workflows, Ask(w) PROVE Care'
<1>0. Truth'
    BY TruthAsk DEF Care
<1>1. CASE StartScan(w)
    BY <1>0, <1>1, CareNewRow DEF StartScan, Before, Outside, history
<1>2. CASE TrackScan(w)
    BY <1>0, <1>2, CareNewRow DEF TrackScan, Before, history
<1>3. CASE StartGroup(w)
    BY <1>0, <1>3, CareNewRow DEF StartGroup, Before, Outside, history
<1>4. CASE CheckCampaign(w)
    <2>1. /\ status[w] = "absent" /\ req'[w] = "checked"
          /\ UNCHANGED <<status, campaign, cases, thread, cutOff>>
        BY <1>4 DEF CheckCampaign, Outside, history, Care, Truth, Base, TypeOK
    <2>2. \A a \in Assets : owner[a] # w
        BY <2>1 DEF Care, Cared
    <2>3. \A t \in Threads : thread[t].w # w /\ Same(t)
        BY <2>1, Unheld DEF Same, Care
    <2>4. Cared(w)' /\ Owners'
        BY <2>1, <2>2, <2>3 DEF Cared, Waits, Owners, cases, Care
    <2>5. \A v \in Workflows : v # w => CaresKept(v)
        BY <1>4, <2>1 DEF CheckCampaign, CaresKept, Waits, cases, Care, Truth, Base, TypeOK
    <2> QED BY <1>0, <2>1, <2>3, <2>4, <2>5, CareRow
<1>5. CASE Cancel(w)
    <2>1. (\A t \in Threads : Same(t)) /\ UNCHANGED <<req, campaign, cases, cutOff>>
        BY <1>5, CancelEffect DEF Cancel, Care, Truth, Base
    <2>2. \A v \in Workflows : v # w => CaresKept(v)
        BY <1>5, <2>1 DEF Cancel, SetStatus, CaresKept, Waits, cases, Care, Truth, Base, TypeOK
    <2>3. (Active(w) => Active(w)') /\ status'[w] # "absent"
        BY <1>5 DEF Cancel, SetStatus, Active, ACTIVE, Care, Truth, Base, TypeOK
    <2>4. \A a \in Assets : Waits(a, w)' <=> Waits(a, w)
        BY <2>1 DEF Waits, cases
    <2>5. Tells(w) => Tells(w)'
        BY <2>1 DEF Tells, Same
    <2>6. ASSUME NEW t \in Threads, thread'[t].w = w PROVE Minds(t, w)'
        <3>1. Minds(t, w) /\ Same(t)
            BY <2>1, <2>6 DEF Care, Cared, Same
        <3> QED BY <2>1, <2>3, <2>4, <3>1 DEF Minds, Same
    <2>7. Cared(w)' /\ Owners'
        BY <2>1, <2>3, <2>4, <2>5, <2>6 DEF Care, Cared, Owners, cases
    <2> QED BY <1>0, <2>1, <2>2, <2>7, CareRow
<1>6. ASSUME NEW v \in Workflows, Retry(w, v) PROVE Care'
    <2> DEFINE pc == IF kind[v] = "campaign" THEN "attach" ELSE IF Reusable(v) THEN "reuse" ELSE "schedule"
    <2>1. Create(w, kind[v], targets[v], v, pc) /\ UNCHANGED <<thread, cases, cutOff>> /\ pc \in Before \ {"queue"}
        BY <1>6 DEF Retry, Before, Outside, history
    <2> HIDE DEF pc
    <2> QED BY <1>0, <2>1, CareNewRow
<1> QED BY <1>1, <1>2, <1>3, <1>4, <1>5, <1>6 DEF Ask

LEMMA CareRequest == ASSUME Care, NEW w \in Workflows, Request(w), ~ScheduleRequest(w) PROVE Care'
<1>0. Truth'
    BY TruthRequest DEF Care
<1>1. CASE StartVerification(w)
    BY <1>0, <1>1, CareNewRow DEF StartVerification, Before, Outside, history
<1>2. CASE Attach(w) \/ NothingToVerify(w) \/ QueueCases(w) \/ ResumeReconciliation(w) \/ LinkScan(w)
    <2>1. req[w] \in Before /\ UNCHANGED <<thread, cutOff>>
        BY <1>2 DEF Attach, NothingToVerify, QueueCases, ResumeReconciliation, LinkScan, Before, Outside, history
    <2>2. \A t \in Threads : thread[t].w # w /\ Same(t)
        BY <2>1, Unheld DEF Same, Before, Care
    <2>3. \A v \in Workflows : v # w => status'[v] = status[v] /\ req'[v] = req[v] /\ campaign'[v] = campaign[v]
        BY <1>2 DEF Attach, NothingToVerify, QueueCases, ResumeReconciliation, LinkScan, SetStatus, rows,
                    Care, Truth, Base, TypeOK
    <2>4. Cared(w) /\ Active(w) /\ status[w] # "absent" /\ Owners
        BY <2>1 DEF Care, Truth, Begun, Before, Active, ACTIVE
    <2>5. CASE QueueCases(w)
        <3>1. /\ req[w] = "queue" /\ SetCampaignVerification(w, "queued") /\ UNCHANGED <<status, campaign>>
              /\ req'[w] \in {"reuse", "schedule"}
            BY <2>5 DEF QueueCases, AfterAttach, rows, Care, Truth, Base, TypeOK
        <3>2. Owners' /\ \A v \in Workflows : v # w => CaresKept(v)
            BY <2>3, <3>1, TakeEffect DEF CaresKept, Care, Truth, Base
        <3>3. campaign'[w] /\ Active(w)' /\ status'[w] # "absent"
            BY <2>4, <3>1 DEF Cared, Active
        <3>4. Cared(w)'
            BY <2>1, <2>2, <3>1, <3>3 DEF Cared
        <3> QED BY <1>0, <2>1, <2>2, <3>2, <3>4, CareRow
    <2>6. CASE ~QueueCases(w)
        <3>1. UNCHANGED cases
            BY <1>2, <2>6 DEF Attach, NothingToVerify, ResumeReconciliation, LinkScan
        <3>2. Owners' /\ \A v \in Workflows : v # w => CaresKept(v)
            BY <2>3, <2>4, <3>1 DEF CaresKept, Waits, Owners, cases
        <3>3. \A a \in Assets : (Waits(a, w)' <=> Waits(a, w)) /\ owner'[a] = owner[a]
            BY <3>1 DEF Waits, cases
        <3>4. CASE Attach(w)
            <4>1. /\ \A a \in Assets : ~Waits(a, w)
                  /\ campaign'[w] /\ status' = status
                BY <2>4, <3>4 DEF Attach, Cared, Care, Truth, Base, TypeOK
            <4>2. Cared(w)'
                BY <2>1, <2>2, <2>4, <3>3, <4>1 DEF Cared
            <4> QED BY <1>0, <2>1, <2>2, <3>2, <4>2, CareRow
        <3>5. CASE NothingToVerify(w)
            <4>1. /\ \A a \in Assets : ~Waits(a, w)
                  /\ status'[w] = "completed" /\ req'[w] = "none"
                BY <2>4, <3>5 DEF NothingToVerify, SetStatus, Cared, Care, Truth, Base, TypeOK
            <4>2. Cared(w)'
                BY <2>1, <2>2, <3>3, <4>1 DEF Cared
            <4> QED BY <1>0, <2>1, <2>2, <3>2, <4>2, CareRow
        <3>6. CASE ResumeReconciliation(w) \/ LinkScan(w)
            <4>1. status'[w] = "running" /\ req'[w] = "monitor_only" /\ campaign' = campaign
                BY <3>6 DEF ResumeReconciliation, LinkScan, SetStatus, Care, Truth, Base, TypeOK
            <4>2. Cared(w)'
                BY <2>1, <2>2, <2>4, <3>3, <4>1 DEF Cared
            <4> QED BY <1>0, <2>1, <2>2, <3>2, <4>2, CareRow
        <3> QED BY <1>2, <2>6, <3>4, <3>5, <3>6
    <2> QED BY <2>5, <2>6
<1> QED BY <1>1, <1>2 DEF Request

LEMMA CareSchedule ==
    ASSUME Care, NEW w \in Workflows, ScheduleRequest(w) \/ (Resume(w) /\ req[w] = "none") PROVE Care'
<1>0. Truth'
    BY TruthSchedule DEF Care
<1>1. /\ Schedule(w) /\ Active(w) /\ req'[w] = "none"
      /\ UNCHANGED <<status, campaign, cases, cutOff>>
      /\ \A v \in Workflows : v # w => req'[v] = req[v]
    BY DEF ScheduleRequest, Resume, Care, Truth, Begun, Base, TypeOK, rows, Outside, history
<1>2. \A v \in Workflows : v # w => CaresKept(v)
    BY <1>1 DEF CaresKept, Waits, cases
<1>3. Owners' /\ Active(w)' /\ status'[w] # "absent" /\ \A a \in Assets : Waits(a, w)' <=> Waits(a, w)
    BY <1>1 DEF Owners, Active, ACTIVE, Waits, cases, Care
<1>4. CASE UNCHANGED <<thread, scheduled>> /\ w \in scheduled
    <2>1. \A t \in Threads : Same(t)
        BY <1>4 DEF Same
    <2>2. \A t \in Threads : thread[t].w = w => Minds(t, w)'
        BY <1>1, <1>3, <1>4 DEF Minds, Care, Cared
    <2>3. Cared(w)'
        BY <1>1, <1>3, <1>4, <2>2 DEF Cared, Care
    <2> QED BY <1>0, <1>1, <1>2, <1>3, <2>1, <2>3, CareRow
<1>5. ASSUME NEW t \in Threads, thread[t].pc = "idle", Others(t), w \notin scheduled,
             thread'[t] = [IdleThread EXCEPT !.pc = "waiting", !.w = w]
      PROVE  Care'
    <2>1. thread'[t].pc = "waiting" /\ thread'[t].w = w /\ thread[t].w = None
        BY <1>5 DEF IdleThread, Care, Truth, Base, Shape
    <2>2. \A u \in Threads : thread[u].w # w
        BY <1>5, UnitsDistinct DEF Care, Truth, Base, Owned
    <2>3. \A u \in Threads : thread'[u].w = w => u = t
        BY <1>5, <2>2 DEF Others
    <2>4. Minds(t, w)'
        BY <2>1 DEF Minds, Working, Telling
    <2>5. Cared(w)'
        BY <1>1, <1>3, <2>3, <2>4 DEF Cared, Care
    <2>6. ASSUME NEW v \in Workflows, v # w PROVE Cared(v)'
        <3>1. \A u \in Threads : thread[u].w = v \/ thread'[u].w = v => Same(u)
            BY <1>5, <2>1, <2>6, UnitsDistinct DEF Others, Same
        <3> QED BY <1>1, <1>2, <2>6, <3>1, CaredKept DEF Care
    <2> QED BY <1>0, <1>3, <2>5, <2>6 DEF Care
<1> QED BY <1>1, <1>4, <1>5, ScheduleEffect DEF Care, Truth, Base

\* The one thread of a workflow answers for its cases.
LEMMA CaredByThread ==
    ASSUME Care, NEW t \in Threads, NEW w \in Workflows, thread[t].w = w,
           Others(t), thread'[t].w = w, req'[w] = "none", status'[w] # "absent",
           \A a \in Assets : Waits(a, w)' =>
              campaign'[w] /\ (Active(w)' \/ w \in cutOff' \/ thread'[t].pc \in Telling),
           Minds(t, w)'
    PROVE  Cared(w)'
<1>1. \A u \in Threads : thread'[u].w = w => u = t
    BY UnitsDistinct DEF Others, Care, Truth, Base, Owned
<1>2. thread'[t].pc \in Telling => Tells(w)'
    BY DEF Tells
<1> QED BY <1>1, <1>2 DEF Cared

LEMMA ThreadCares ==
    ASSUME Care, NEW t \in Threads, NEW w \in Workflows, thread[t].w = w
    PROVE  /\ req[w] = "none" /\ status[w] # "absent" /\ Minds(t, w)
           /\ thread[t].pc \in Working => Active(w)
           /\ \A a \in Assets : Waits(a, w) =>
                 campaign[w] /\ (Active(w) \/ w \in cutOff \/ thread[t].pc \in Telling)
<1>1. \A u \in Threads : thread[u].w = w => u = t
    BY UnitsDistinct DEF Care, Truth, Base, Owned
<1>2. Knows(t, w) /\ Cared(w) /\ status[w] # "absent"
    BY UnitsDistinct DEF Care, Truth, Base, Owned
<1> QED BY <1>1, <1>2 DEF Knows, Cared, Tells

LEMMA CareBetween == ASSUME Care, NEW t \in Threads, Between(t) PROVE Care'
<1>0. Truth' /\ Owners /\ thread[t].pc # "idle"
    BY TruthBetween, TruthWaits
    DEF Care, Between, Run, Open, Begin, Start, CompleteWithoutOperations, MonitorCancelled,
        MonitorLooks, MonitorWaits, MonitorFinished, Reconcile, Finalize, Complete, FinishCancelled, Fail, Tell, DatabaseFails
<1>1. PICK w \in Workflows : thread[t].w = w
    BY <1>0, WorkflowOf DEF Care, Truth, Base
<1>2. BetweenStep(t)
    BY <1>1, BetweenEffect DEF Care, Truth, Base
<1>3. /\ Others(t) /\ thread'[t].w = w /\ req' = req
      /\ \A v \in Workflows : v # w => status'[v] = status[v]
      /\ status'[w] = "absent" => status[w] = "absent"
    BY <1>1, <1>2 DEF BetweenStep, Moved, StatusOf
<1>4. UNCHANGED campaign /\ cutOff \subseteq cutOff'
    BY DEF Between, Run, Open, Begin, Start, CompleteWithoutOperations, MonitorCancelled,
           MonitorLooks, MonitorWaits, MonitorFinished, Reconcile, Finalize, Complete, FinishCancelled, Fail, Tell, DatabaseFails,
           rows, Beside, history
<1>5. /\ req'[w] = "none" /\ status'[w] # "absent" /\ Minds(t, w)
      /\ thread[t].pc \in Working => Active(w)
      /\ \A a \in Assets : Waits(a, w) =>
            campaign[w] /\ (Active(w) \/ w \in cutOff \/ thread[t].pc \in Telling)
    BY <1>1, <1>3, ThreadCares
<1>6. thread[t] \in ThreadType /\ thread \in [Threads -> ThreadType] /\ TypeOK
      /\ status \in [Workflows -> ACTIVE \cup TERMINAL \cup {"absent"}]
    BY DEF Care, Truth, Base, TypeOK, ThreadType
\* It is enough to look at the cases, and at the workflow of the thread.
<1>7. ASSUME Owners', \A a \in Assets, v \in Workflows : v # w => (Waits(a, v)' => Waits(a, v)) /\ (owner'[a] = v => owner[a] = v),
             \A a \in Assets : Waits(a, w)' =>
                campaign'[w] /\ (Active(w)' \/ w \in cutOff' \/ thread'[t].pc \in Telling),
             Minds(t, w)'
      PROVE  Care'
    <2>1. Cared(w)'
        BY <1>1, <1>3, <1>5, <1>7, CaredByThread
    <2>2. \A v \in Workflows : v # w => CaresKept(v)
        BY <1>3, <1>4, <1>7 DEF CaresKept
    <2> QED BY <1>0, <1>1, <1>3, <1>4, <1>7, <2>1, <2>2, CareThread
<1>8. ASSUME UNCHANGED <<verdict, owner>>, \A a \in Assets : open'[a] => open[a], Active(w)', Minds(t, w)'
      PROVE  Care'
    <2>1. Owners' /\ \A a \in Assets, v \in Workflows : (Waits(a, v)' => Waits(a, v)) /\ (owner'[a] = v => owner[a] = v)
        BY <1>0, <1>8 DEF Owners, Waits
    <2> QED BY <1>4, <1>5, <1>7, <1>8, <2>1
<1>9. CASE Open(t)
    <2> DEFINE pc == IF ~Active(w) THEN "done" ELSE IF cancel[w] THEN "cancelling" ELSE "begin"
    <2>1. thread' = [thread EXCEPT ![t] = [thread[t] EXCEPT
                        !.token = FALSE, !.camp = campaign[w], !.got = ops[w], !.pc = pc]]
        BY <1>1, <1>9 DEF Open
    <2>2. pc \in {"done", "cancelling", "begin"}
        OBVIOUS
    <2> HIDE DEF pc
    <2>3. thread'[t].pc = pc /\ thread'[t].camp = campaign[w]
        BY <1>6, <2>1 DEF ThreadType
    <2>4. Minds(t, w)' /\ Active(w)'
        BY <1>4, <1>5, <1>9, <2>2, <2>3 DEF Open, Minds, Working, Active, rows
    <2> QED BY <1>8, <1>9, <2>4 DEF Open, cases
<1>10. CASE Begin(t)
    <2>1. PICK pc \in {"start", "monitor"} : Go(t, pc)
        BY <1>10 DEF Begin
    <2>2. thread'[t].pc = pc /\ thread'[t].camp = thread[t].camp /\ thread[t].pc = "begin"
        BY <1>6, <1>10, <2>1, GoEffect DEF Begin, ThreadPoints, Moved
    <2>3. Minds(t, w)' /\ Active(w)'
        <3>1. status'[w] = "running"
            BY <1>1, <1>6, <1>10 DEF Begin, SetStatus
        <3> QED BY <1>4, <1>5, <2>2, <3>1 DEF Minds, Working, Active, ACTIVE
    <2> QED BY <1>8, <1>10, <2>3 DEF Begin, cases
<1>11. CASE Start(t)
    <2>1. thread'[t].pc = "launch" /\ thread'[t].camp = thread[t].camp /\ thread[t].pc = "start"
        <3>1. thread' = [thread EXCEPT ![t] = [thread[t] EXCEPT !.pc = "launch", !.todo = targets[thread[t].w]]]
            BY <1>6, <1>11 DEF Start, ThreadType
        <3> QED BY <1>6, <1>11, <3>1 DEF Start, ThreadType
    <2>2. Minds(t, w)' /\ Active(w)' /\ thread[t].camp = campaign[w]
        BY <1>4, <1>5, <1>11, <2>1 DEF Start, Minds, Working, Active
    <2>3. CASE ~thread[t].camp
        BY <1>8, <1>11, <2>2, <2>3 DEF Start, cases
    <2>4. CASE thread[t].camp
        <3>1. SetCampaignVerification(w, "running")
            BY <1>1, <1>11, <2>4 DEF Start
        <3>2. /\ Owners'
              /\ \A a \in Assets, v \in Workflows : v # w => ~Waits(a, v)' /\ (owner'[a] = v => owner[a] = v)
            BY <1>0, <1>6, <3>1, TakeEffect
        <3> QED BY <1>4, <1>7, <2>2, <2>4, <3>2
    <2> QED BY <2>3, <2>4
\* No case of the workflow waits after its finalization, nor where it has none.
<1>12. ASSUME thread[t].pc \in {"no_operations", "finalize"}, Go(t, "complete"),
              \/ \E bad : FinalizeCampaignVerification(w, bad)
              \/ UNCHANGED cases /\ ~campaign[w]
       PROVE  Care'
    <2>1. /\ Owners' /\ \A a \in Assets : ~Waits(a, w)'
          /\ \A a \in Assets, v \in Workflows : (Waits(a, v)' => Waits(a, v)) /\ (owner'[a] = v => owner[a] = v)
        <3>1. CASE \E bad : FinalizeCampaignVerification(w, bad)
            BY <1>0, <3>1, FinalizeEffect
        <3>2. CASE UNCHANGED cases /\ ~campaign[w]
            BY <1>0, <1>5, <3>2 DEF Owners, Waits, cases
        <3> QED BY <1>12, <3>1, <3>2
    <2>2. thread'[t].pc = "complete" /\ thread'[t].camp = thread[t].camp
        BY <1>6, <1>12, GoEffect DEF ThreadPoints, Moved
    <2>3. Minds(t, w)'
        BY <1>4, <1>5, <1>12, <2>1, <2>2 DEF Minds, Working
    <2> QED BY <1>7, <2>1, <2>3
<1>13. CASE CompleteWithoutOperations(t)
    BY <1>1, <1>12, <1>13 DEF CompleteWithoutOperations
<1>14. CASE Finalize(t)
    <2>1. thread[t].camp = campaign[w]
        BY <1>5, <1>14 DEF Finalize, Minds, Working
    <2> QED BY <1>1, <1>12, <1>14, <2>1 DEF Finalize
<1>15. CASE MonitorCancelled(t)
    <2>1. thread'[t].pc = "cancelling" /\ thread'[t].camp = campaign[w]
        <3>1. thread' = [thread EXCEPT ![t] = [thread[t] EXCEPT !.pc = "cancelling", !.camp = campaign[w]]]
            BY <1>1, <1>6, <1>15 DEF MonitorCancelled, ThreadType
        <3> QED BY <1>6, <3>1 DEF ThreadType
    <2>2. Minds(t, w)' /\ Active(w)'
        BY <1>4, <1>5, <1>15, <2>1 DEF MonitorCancelled, Minds, Working, Active, rows
    <2> QED BY <1>8, <1>15, <2>2 DEF MonitorCancelled, cases
<1>24. CASE MonitorLooks(t)
    <2>1. thread'[t].pc = "reading" /\ thread'[t].camp = campaign[w]
        <3>1. thread' = [thread EXCEPT ![t] = [thread[t] EXCEPT !.pc = "reading", !.camp = campaign[w]]]
            BY <1>1, <1>6, <1>24 DEF MonitorLooks, ThreadType
        <3> QED BY <1>6, <3>1 DEF ThreadType
    <2>2. Minds(t, w)' /\ Active(w)'
        BY <1>4, <1>5, <1>24, <2>1 DEF MonitorLooks, Minds, Working, Active, rows
    <2> QED BY <1>8, <1>24, <2>2 DEF MonitorLooks, cases
<1>25. CASE MonitorWaits(t)
    <2>1. /\ thread[t].pc = "reading" /\ thread'[t].pc = "monitor" /\ thread'[t].camp = thread[t].camp
        BY <1>6, <1>25, GoEffect DEF MonitorWaits, ThreadPoints, Moved
    <2>2. Minds(t, w)' /\ Active(w)'
        BY <1>4, <1>5, <1>25, <2>1 DEF MonitorWaits, Minds, Working, Active, rows
    <2> QED BY <1>8, <1>25, <2>2 DEF MonitorWaits, cases
<1>16. CASE MonitorFinished(t)
    <2> DEFINE bad == {o[2] : o \in Unsuccessful(thread[t].got)} \cup errors[w]
    <2>1. thread' = [thread EXCEPT ![t] = [thread[t] EXCEPT !.pc = "reconcile", !.failed = bad]]
        BY <1>1, <1>16 DEF MonitorFinished
    <2> HIDE DEF bad
    <2>2. thread[t].pc = "reading" /\ thread'[t].pc = "reconcile" /\ thread'[t].camp = thread[t].camp
        BY <1>6, <1>16, <2>1 DEF MonitorFinished, ThreadType
    <2>3. Minds(t, w)' /\ Active(w)'
        BY <1>4, <1>5, <1>16, <2>2 DEF MonitorFinished, Minds, Working, Active
    <2> QED BY <1>8, <1>16, <2>3 DEF MonitorFinished, cases
<1>17. CASE Reconcile(t)
    <2>1. /\ thread[t].pc = "reconcile" /\ thread'[t].pc = "finalize" /\ thread'[t].camp = thread[t].camp
        BY <1>6, <1>17, GoEffect DEF Reconcile, ThreadPoints, Moved
    <2>2. Minds(t, w)' /\ Active(w)'
        BY <1>4, <1>5, <1>17, <2>1 DEF Reconcile, Minds, Working, Active
    <2>3. \A a \in Assets : open'[a] => open[a]
        BY <1>17 DEF Reconcile
    <2> QED BY <1>8, <1>17, <2>2, <2>3 DEF Reconcile
\* The end of the workflow, and the record of it in the cases.
<1>18. ASSUME UNCHANGED cases,
              \A a \in Assets : Waits(a, w) => Active(w)' \/ w \in cutOff' \/ thread'[t].pc \in Telling,
              Minds(t, w)'
       PROVE  Care'
    <2>1. \A a \in Assets, v \in Workflows : (Waits(a, v)' <=> Waits(a, v)) /\ owner'[a] = owner[a]
        BY <1>18 DEF Waits, cases
    <2>2. Owners'
        BY <1>0, <1>18 DEF Owners, cases
    <2>3. \A a \in Assets : Waits(a, w)' =>
             campaign'[w] /\ (Active(w)' \/ w \in cutOff' \/ thread'[t].pc \in Telling)
        BY <1>4, <1>5, <1>18, <2>1
    <2> QED BY <1>7, <1>18, <2>1, <2>2, <2>3
<1>19. CASE Complete(t)
    <2>1. thread[t].pc = "complete" /\ thread'[t].pc = "done" /\ UNCHANGED cases
        BY <1>6, <1>19, GoEffect DEF Complete, ThreadPoints, Moved
    <2>2. Minds(t, w)' /\ \A a \in Assets : ~Waits(a, w)
        BY <1>5, <2>1 DEF Minds, Working, Telling
    <2> QED BY <1>18, <2>1, <2>2
<1>20. CASE FinishCancelled(t)
    <2>1. /\ thread[t].pc = "cancelling" /\ thread'[t].pc = "tell_cancelled"
          /\ thread'[t].camp = thread[t].camp /\ UNCHANGED cases
        BY <1>6, <1>20, GoEffect DEF FinishCancelled, ThreadPoints, Moved
    <2>2. Minds(t, w)'
        BY <1>4, <1>5, <2>1 DEF Minds, Working, Telling
    <2> QED BY <1>18, <2>1, <2>2 DEF Telling
<1>21. CASE Fail(t)
    <2>1. UNCHANGED cases /\ thread[t].pc = "raised"
        BY <1>21 DEF Fail
    <2>2. CASE status[w] \in TERMINAL
        <3>1. thread'[t].pc = "done"
            BY <1>1, <1>6, <1>21, <2>2, GoEffect DEF Fail, ThreadPoints, Moved
        <3>2. ~Active(w)
            BY <2>2 DEF Active, ACTIVE, TERMINAL
        <3>3. Minds(t, w)' /\ \A a \in Assets : Waits(a, w) => w \in cutOff'
            BY <1>4, <1>5, <2>1, <3>1, <3>2 DEF Minds, Working, Telling
        <3> QED BY <1>18, <2>1, <3>3
    <2>3. CASE status[w] \notin TERMINAL
        <3>1. thread' = [thread EXCEPT ![t] = [thread[t] EXCEPT !.pc = "tell_failed", !.camp = campaign[w]]]
            BY <1>1, <1>6, <1>21, <2>3 DEF Fail, ThreadType
        <3>2. thread'[t].pc = "tell_failed" /\ thread'[t].camp = campaign[w]
            BY <1>6, <3>1 DEF ThreadType
        <3>3. Minds(t, w)'
            BY <1>4, <3>2 DEF Minds, Working, Telling
        <3> QED BY <1>18, <2>1, <3>2, <3>3 DEF Telling
    <2> QED BY <2>2, <2>3
<1>22. CASE Tell(t)
    <2>1. thread[t].pc \in Telling /\ thread'[t].pc = "done"
        BY <1>6, <1>22, GoEffect DEF Tell, ThreadPoints, Moved, Telling
    <2>2. Minds(t, w)' /\ thread[t].camp = campaign[w]
        BY <1>5, <2>1 DEF Minds, Working, Telling
    <2>3. CASE thread[t].camp
        <3>1. SetCampaignVerification(w, "failed")
            BY <1>1, <1>22, <2>3 DEF Tell
        <3>2. /\ Owners' /\ \A a \in Assets, v \in Workflows : ~Waits(a, v)'
              /\ \A a \in Assets, v \in Workflows : v # w => (owner'[a] = v => owner[a] = v)
            BY <1>0, <1>6, <3>1, TakeEffect
        <3> QED BY <1>7, <2>2, <3>2
    <2>4. CASE ~thread[t].camp
        <3>1. UNCHANGED cases /\ \A a \in Assets : ~Waits(a, w)
            BY <1>5, <1>22, <2>2, <2>4 DEF Tell
        <3> QED BY <1>18, <2>2, <3>1
    <2> QED BY <2>3, <2>4
<1>23. CASE DatabaseFails(t)
    <2>1. PICK pc \in {"done", "raised"} : Go(t, pc) /\ (thread[t].pc = "raised" => pc = "done")
        BY <1>23 DEF DatabaseFails
    <2>2. thread'[t].pc = pc
        BY <1>6, <2>1, GoEffect DEF ThreadPoints, Moved
    <2>3. UNCHANGED <<status, cases>> /\ (thread[t].pc \in Telling => w \in cutOff')
        BY <1>1, <1>23 DEF DatabaseFails, rows
    <2>4. thread[t].pc \in Working \cup Telling \cup {"raised"}
        BY <1>6, <1>23 DEF DatabaseFails, ThreadType, ThreadPoints, Working, Telling
    <2>5. Active(w)' \/ w \in cutOff' \/ \A a \in Assets : ~Waits(a, w)
        BY <1>4, <1>5, <2>3, <2>4 DEF Minds, Active
    <2>6. \A a \in Assets : Waits(a, w)' <=> Waits(a, w)
        BY <2>3 DEF Waits, cases
    <2>7. Minds(t, w)'
        BY <2>2, <2>5, <2>6 DEF Minds, Working, Telling
    <2> QED BY <1>18, <2>3, <2>5, <2>7
<1> QED
    BY <1>9, <1>10, <1>11, <1>13, <1>14, <1>15, <1>16, <1>17, <1>19, <1>20, <1>21, <1>22, <1>23,
       <1>24, <1>25 DEF Between, Run

LEMMA CareLaunch == ASSUME Care, NEW t \in Threads, Launch(t) PROVE Care'
<1>1. LaunchStep(t) /\ UNCHANGED cutOff
    BY LaunchEffect DEF Care, Truth, Base, Launch, Replay, CheckChild, RefuseChild, DropChild, CreateChild,
                        SendChild, SendFails, Record, Beside, history
<1>2. Truth' /\ thread[t].pc \in Starting /\ thread[t].pc # "idle"
    BY <1>1, TruthLaunch DEF Care, LaunchStep, Starting
<1>3. PICK w \in Workflows : thread[t].w = w
    BY <1>2, WorkflowOf DEF Care, Truth, Base
<1>4. /\ Others(t) /\ thread'[t].w = w /\ thread'[t].camp = thread[t].camp
      /\ thread'[t].pc \in Starting \cup {"monitor", "no_operations", "raised"}
      /\ UNCHANGED <<status, req, campaign, cases>>
    BY <1>1, <1>3 DEF LaunchStep
<1>5. /\ req[w] = "none" /\ status[w] # "absent" /\ Minds(t, w) /\ Active(w)
      /\ \A a \in Assets : Waits(a, w) => campaign[w]
    BY <1>2, <1>3, ThreadCares DEF Starting, Working
<1>6. Active(w)' /\ \A a \in Assets, v \in Workflows : Waits(a, v)' <=> Waits(a, v)
    BY <1>4, <1>5 DEF Active, Waits, cases
<1>7. Minds(t, w)'
    BY <1>2, <1>4, <1>5, <1>6 DEF Minds, Starting, Working, Telling
<1>8. Cared(w)'
    BY <1>3, <1>4, <1>5, <1>6, <1>7, CaredByThread
<1>9. Owners' /\ \A v \in Workflows : CaresKept(v)
    BY <1>4, <1>6 DEF Care, Owners, CaresKept, cases
<1> QED BY <1>1, <1>2, <1>3, <1>4, <1>8, <1>9, CareThread

LEMMA CareForget == ASSUME Care, NEW t \in Threads, Forget(t) PROVE Care'
<1>1. Truth' /\ thread[t].pc = "done" /\ UNCHANGED <<status, req, campaign, cases, cutOff>>
    BY TruthForget DEF Care, Forget, rows, history
<1>2. PICK w \in Workflows : thread[t].w = w
    BY <1>1, WorkflowOf DEF Care, Truth, Base
<1>3. Others(t) /\ thread'[t].w = None
    BY ForgetEffect DEF IdleThread, Care, Truth, Base
<1>4. Owners' /\ \A v \in Workflows : CaresKept(v)
    BY <1>1 DEF Care, Owners, CaresKept, Waits, cases
<1>5. Cared(w)'
    <2>1. \A u \in Threads : thread'[u].w # w
        BY <1>2, <1>3, UnitsDistinct DEF Others, Care, Truth, Base, Owned
    <2>2. ~Tells(w)
        BY <1>1, <1>2, UnitsDistinct DEF Tells, Telling, Care, Truth, Base, Owned
    <2>3. Active(w)' <=> Active(w)
        BY <1>1 DEF Active
    <2> QED BY <1>1, <1>4, <2>1, <2>2, <2>3 DEF Care, Cared, CaresKept
<1> QED BY <1>1, <1>2, <1>3, <1>4, <1>5, CareThread

LEMMA CareWorld ==
    ASSUME Care, \/ \E o \in Children : ChildEnds(o) \/ CancelChild(o)
                 \/ \E a \in Assets : CaseResolved(a)
    PROVE  Care'
<1>1. Truth'
    BY TruthWorld DEF Care
<1>2. UNCHANGED <<status, req, campaign, thread, verdict, owner, cutOff>>
    BY DEF ChildEnds, CancelChild, CaseResolved, rows, cases, process, history
<1>3. \A a \in Assets : open'[a] => open[a]
    BY DEF ChildEnds, CancelChild, CaseResolved, cases, Care, Truth, Base, TypeOK
<1>4. (\A v \in Workflows : CaresKept(v)) /\ \A t \in Threads : Same(t)
    BY <1>2, <1>3 DEF CaresKept, Waits, Same
<1> QED BY <1>1, <1>2, <1>4, CareAll

\* A waiting future that is dropped leaves its workflow active.
LEMMA CareShutdown == ASSUME Care, Shutdown PROVE Care'
<1>1. Truth' /\ UNCHANGED <<status, req, campaign, cases, cutOff>>
    BY TruthShutdown DEF Care, Shutdown, rows, history
<1>2. Owners' /\ \A w \in Workflows : CaresKept(w) /\ (Active(w)' <=> Active(w))
    BY <1>1 DEF Care, Owners, CaresKept, Waits, cases, Active
<1>3. ASSUME NEW w \in Workflows PROVE Cared(w)'
    <2>1. ASSUME NEW t \in Threads
          PROVE  \/ Same(t) \/ thread'[t].w = None
                 \/ thread[t].pc = "waiting" /\ thread'[t].pc = "done" /\ thread'[t].w = thread[t].w
        <3>1. thread[t] \in ThreadType
            BY DEF Care, Truth, Base, TypeOK, ThreadType
        <3>2. CASE thread[t].pc = "waiting" /\ thread'[t] = [thread[t] EXCEPT !.pc = "done"]
            BY <3>1, <3>2 DEF ThreadType
        <3>3. CASE thread'[t] = IdleThread
            BY <3>3 DEF IdleThread
        <3> QED BY <3>2, <3>3, ShutdownEffect DEF Care, Truth, Base
    <2>2. \A t \in Threads : thread'[t].w = w => thread[t].w = w
        BY <2>1, UnitsDistinct DEF Same
    <2>3. ASSUME NEW t \in Threads, thread'[t].w = w PROVE Minds(t, w)'
        <3>1. thread[t].w = w /\ Minds(t, w) /\ thread'[t].w # None
            BY <2>2, <2>3, UnitsDistinct DEF Care, Cared
        <3>2. CASE Same(t)
            BY <1>1, <1>2, <3>1, <3>2 DEF Minds, Same, CaresKept
        <3>3. CASE thread'[t].pc = "done"
            BY <3>3 DEF Minds, Working, Telling
        <3> QED BY <2>1, <3>1, <3>2, <3>3
    <2>4. Tells(w) => Tells(w)'
        <3>1. ASSUME NEW t \in Threads, thread[t].w = w, thread[t].pc \in Telling PROVE Same(t)
            BY <3>1, ShutdownEffect, UnitsDistinct DEF Telling, Care, Truth, Base
        <3> QED BY <3>1 DEF Tells, Same
    <2> QED BY <1>1, <1>2, <2>3, <2>4 DEF Care, Cared, CaresKept
<1> QED BY <1>1, <1>2, <1>3 DEF Care

\* A request that a restart drops has left its workflow active, and a thread that was to
\* tell the cases is noted as cut off.
LEMMA CareRestart == ASSUME Care, Crash \/ Exit PROVE Care'
<1>1. /\ Truth'
      /\ \A t \in Threads : thread'[t] = IdleThread
      /\ \A w \in Workflows : req'[w] = "none"
      /\ UNCHANGED <<status, campaign, cases>>
      /\ cutOff' = cutOff \cup {thread[t].w : t \in {u \in Threads : thread[u].pc \in Telling}}
    BY TruthRestart DEF Care, Crash, Exit, Restart, rows
<1>2. \A t \in Threads : thread'[t].w \notin Workflows
    BY <1>1, UnitsDistinct DEF IdleThread
<1>3. Owners'
    BY <1>1 DEF Care, Owners, cases
<1>4. ASSUME NEW w \in Workflows PROVE Cared(w)'
    <2>1. Cared(w) /\ Begun(w) /\ (req[w] = "checked" => status[w] = "absent")
        BY DEF Care, Truth, Base, Asked
    <2>2. \A a \in Assets : (Waits(a, w)' <=> Waits(a, w)) /\ owner'[a] = owner[a]
        BY <1>1 DEF Waits, cases
    <2>3. Active(w)' <=> Active(w)
        BY <1>1 DEF Active
    <2>4. Tells(w) => w \in cutOff'
        BY <1>1 DEF Tells
    <2>5. \A a \in Assets : Waits(a, w) /\ req[w] # "none" => Active(w)
        BY <2>1 DEF Begun, Cared, Waits
    <2> QED BY <1>1, <1>2, <2>1, <2>2, <2>3, <2>4, <2>5 DEF Cared
<1> QED BY <1>1, <1>3, <1>4 DEF Care

LEMMA CareStep == ASSUME ~ConnectDuringRequest, Care, [Next]_vars PROVE Care'
<1>1. CASE UNCHANGED vars
    <2>1. Truth' /\ UNCHANGED <<verdict, owner, cutOff>>
        BY <1>1, TruthStep DEF vars, cases, history, Care
    <2>2. (\A w \in Workflows : CaresKept(w)) /\ \A t \in Threads : Same(t)
        BY <1>1 DEF vars, rows, process, cases, CaresKept, Waits, Same
    <2> QED BY <2>1, <2>2, CareAll
<1>2. ASSUME NEW w \in Workflows, Ask(w) \/ Request(w) \/ Resume(w) PROVE Care'
    <2>1. CASE Resume(w)
        BY <2>1, CareSchedule DEF Resume
    <2>2. CASE Request(w)
        BY <2>2, CareSchedule, CareRequest
    <2> QED BY <1>2, <2>1, <2>2, CareAsk
<1>3. ASSUME NEW t \in Threads, Run(t) \/ DatabaseFails(t) PROVE Care'
    BY <1>3, CareBetween, CareLaunch, CareForget DEF Between
<1>4. CASE \/ \E o \in Children : ChildEnds(o) \/ CancelChild(o)
           \/ \E a \in Assets : CaseResolved(a)
    BY <1>4, CareWorld
<1>5. CASE Shutdown \/ Crash \/ Exit
    BY <1>5, CareShutdown, CareRestart
<1> QED BY <1>1, <1>2, <1>3, <1>4, <1>5 DEF Next

\* A case that waits for a verification has a workflow that is active, at work on its request
\* or about to tell it, or one that was cut off after its end: however verifications of the
\* campaign overlap, are cancelled, fail or are restarted.
THEOREM NoCaseIsForgotten == ASSUME ~ConnectDuringRequest PROVE Spec => []WaitingCaseHasWorkflow
<1>1. Care /\ [Next]_vars => Care'
    BY CareStep
<1>2. Care => WaitingCaseHasWorkflow
    <2>1. SUFFICES ASSUME Care, NEW a \in Assets, open[a], verdict[a] \in {"queued", "running"}
                   PROVE  \/ Active(owner[a]) \/ owner[a] \in cutOff \/ req[owner[a]] # "none"
                          \/ \E t \in Threads : thread[t].w = owner[a] /\ thread[t].pc \in Telling
        BY DEF WaitingCaseHasWorkflow
    <2>2. PICK w \in Workflows : owner[a] = w
        BY <2>1 DEF Care, Owners
    <2>3. Waits(a, w) /\ Cared(w)
        BY <2>1, <2>2 DEF Waits, Care
    <2> QED BY <2>2, <2>3 DEF Cared, Tells
<1> HIDE DEF Care
<1> QED BY CareStart, <1>1, <1>2, PTL DEF Spec
=============================================================================

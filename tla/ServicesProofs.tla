--------------------------- MODULE ServicesProofs ---------------------------
(***************************************************************************)
(* The startup steps run once and in order, a ready answer is earned, and  *)
(* a scheduler that ran before the shutdown stays stopped: for any number  *)
(* of steps and of request threads.  Beside it, a card that was built      *)
(* without a warning lacks nothing: for any tree, any builders and any     *)
(* answers.                                                                *)
(***************************************************************************)
EXTENDS Services, Integers, FiniteSetTheorems, WellFoundedInduction, TLAPS

\* A thread inside check() holds the lock, so there is one at most.
Exclusive == \A t \in Threads : pc[t] # "idle" => lock = t

\* The checkpoints are the first steps, each of them done once and no other.
Checkpoints ==
    /\ \A s \in Steps : done[s] = IF s \in completed THEN 1 ELSE 0
    /\ \A s \in completed : \A u \in Steps : u <= s => u \in completed

\* The step in work is the one after the checkpoints.
InOrder ==
    \A t \in Threads : pc[t] = "running" =>
        /\ working[t] \notin completed
        /\ \A u \in Steps : u < working[t] => u \in completed

\* Whoever has seen the last step done, or says so, is right.
Earned ==
    /\ \A t \in Threads : pc[t] = "finishing" => completed = Steps
    /\ last = "ready" => completed = Steps
    /\ \A t \in Threads : answer[t] = "ready" => completed = Steps

IInv == TypeOK /\ Exclusive /\ Checkpoints /\ InOrder /\ Earned

LEMMA InitIInv == Init => IInv
<1> SUFFICES ASSUME Init PROVE IInv
  OBVIOUS
<1>1. 1 \in Steps
  BY StepCountPositive DEF Steps
<1>2. TypeOK
  <2>1. stage \in Stages /\ outages \in 0..MaxOutages /\ completed \subseteq Steps
    BY MaxOutagesNat DEF Init, Stages
  <2>2. monitoring \in BOOLEAN /\ connected \in BOOLEAN /\ schemaCurrent \in BOOLEAN
        /\ scheduler \in BOOLEAN
    BY Zenon DEF Init
  <2>3. /\ pc \in [Threads -> {"idle", "probing", "stepping", "running", "finishing"}]
        /\ working \in [Threads -> Steps]
        /\ answer \in [Threads -> {"none", "ready", "not_ready"}]
        /\ done \in [Steps -> Nat]
    BY <1>1 DEF Init
  <2> QED
    BY <2>1, <2>2, <2>3 DEF Init, TypeOK
<1>3. Exclusive /\ Checkpoints /\ InOrder /\ Earned
  BY DEF Init, Exclusive, Checkpoints, InOrder, Earned
<1> QED
  BY <1>2, <1>3 DEF IInv

\* A check that ends without a checkpoint keeps the invariant if its result is earned.
LEMMA ReturnStep ==
    ASSUME IInv, NEW t \in Threads, NEW result \in {"ready", "not_ready"},
           lock = t, Return(t, result), result = "ready" => completed = Steps,
           UNCHANGED <<stage, monitoring, completed, working, database, scheduler, done, missed>>
    PROVE  IInv'
<1> USE DEF IInv, Return, database
<1>1. TypeOK'
  BY DEF TypeOK
<1>2. Exclusive'
  BY DEF TypeOK, Exclusive
<1>3. Checkpoints'
  BY DEF Checkpoints
<1>4. InOrder'
  BY DEF TypeOK, InOrder
<1>5. Earned'
  BY DEF TypeOK, Earned
<1> QED
  BY <1>1, <1>2, <1>3, <1>4, <1>5

LEMMA CheckStep == ASSUME IInv, NEW t \in Threads, Check(t) PROVE IInv'
<1> USE DEF IInv, database
<1>1. CASE Acquire(t)
  <2> USE <1>1 DEF Acquire
  <2>1. TypeOK'
    BY DEF TypeOK
  <2>2. \A u \in Threads : pc[u] = "idle"
    BY ThreadsDistinct DEF Exclusive, Threads
  <2>3. Exclusive' /\ InOrder' /\ Earned'
    BY <2>2 DEF TypeOK, Exclusive, InOrder, Earned
  <2>4. Checkpoints'
    BY DEF Checkpoints
  <2> QED
    BY <2>1, <2>3, <2>4
<1>2. CASE AnswerBusy(t)
  <2> USE <1>2 DEF AnswerBusy
  <2>1. TypeOK'
    BY DEF TypeOK
  <2>2. Exclusive' /\ InOrder' /\ Checkpoints'
    BY DEF Exclusive, InOrder, Checkpoints
  <2>3. Earned'
    BY DEF TypeOK, Earned
  <2> QED
    BY <2>1, <2>2, <2>3
<1>3. CASE Probe(t)
  <2>1. CASE connected
    <3> USE <1>3, <2>1 DEF Probe
    <3>1. TypeOK'
      BY DEF TypeOK
    <3>2. Exclusive' /\ InOrder' /\ Earned'
      BY DEF TypeOK, Exclusive, InOrder, Earned
    <3>3. Checkpoints'
      BY DEF Checkpoints
    <3> QED
      BY <3>1, <3>2, <3>3
  <2>2. CASE ~connected
    BY <1>3, <2>2, ReturnStep DEF Probe, Exclusive
  <2> QED
    BY <2>1, <2>2
<1>4. CASE BeginStep(t)
  <2> USE <1>4 DEF BeginStep
  <2>1. TypeOK'
    BY DEF TypeOK
  <2>2. Exclusive' /\ Earned'
    BY DEF TypeOK, Exclusive, Earned
  <2>3. InOrder'
    BY StepCountPositive DEF TypeOK, InOrder, IsNext, Pending, Steps
  <2>4. Checkpoints'
    BY DEF Checkpoints
  <2> QED
    BY <2>1, <2>2, <2>3, <2>4
<1>5. CASE RunStep(t)
  <2> USE <1>5 DEF RunStep
  <2>1. TypeOK'
    BY DEF TypeOK
  <2>2. Exclusive'
    BY DEF TypeOK, Exclusive
  <2>3. working[t] \in Steps /\ working[t] \notin completed
    BY DEF TypeOK, InOrder
  <2>4. Checkpoints'
    <3>1. \A s \in Steps : done'[s] = IF s \in completed' THEN 1 ELSE 0
      BY <2>3 DEF TypeOK, Checkpoints
    <3>2. \A s \in completed' : \A u \in Steps : u <= s => u \in completed'
      BY <2>3, StepCountPositive DEF TypeOK, Checkpoints, InOrder, Steps
    <3> QED
      BY <3>1, <3>2 DEF Checkpoints
  <2>5. InOrder'
    BY DEF TypeOK, Exclusive, InOrder
  <2>6. Earned'
    BY <2>3 DEF TypeOK, Exclusive, Earned
  <2> QED
    BY <2>1, <2>2, <2>4, <2>5, <2>6
<1>6. CASE StepFails(t)
  BY <1>6, ReturnStep DEF StepFails, Exclusive
<1>7. CASE StepsDone(t)
  <2> USE <1>7 DEF StepsDone
  <2>1. TypeOK'
    BY DEF TypeOK
  <2>2. Exclusive' /\ InOrder'
    BY DEF TypeOK, Exclusive, InOrder
  <2>3. Earned'
    BY DEF TypeOK, Earned, Pending
  <2>4. Checkpoints'
    BY DEF Checkpoints
  <2> QED
    BY <2>1, <2>2, <2>3, <2>4
<1>8. CASE FinalProbe(t)
  <2>1. completed = Steps /\ lock = t
    BY <1>8 DEF FinalProbe, Earned, Exclusive
  <2>2. PICK result \in {"ready", "not_ready"} : Return(t, result)
    BY <1>8 DEF FinalProbe
  <2> QED
    BY <1>8, <2>1, <2>2, ReturnStep DEF FinalProbe
<1> QED
  BY <1>1, <1>2, <1>3, <1>4, <1>5, <1>6, <1>7, <1>8 DEF Check

LEMMA IInvStep == IInv /\ [Next]_vars => IInv'
<1> SUFFICES ASSUME IInv, [Next]_vars PROVE IInv'
  OBVIOUS
<1>1. ASSUME NEW t \in Threads, Check(t) PROVE IInv'
  BY <1>1, CheckStep
<1>2. CASE Serve \/ BeginShutdown \/ MonitorJoined \/ StopScheduler \/ ShutdownRunner
  BY <1>2 DEF Serve, BeginShutdown, MonitorJoined, StopScheduler, ShutdownRunner, database,
              Pending, IInv, TypeOK, Stages, Exclusive, Checkpoints, InOrder, Earned
<1>3. CASE Outage \/ DatabaseBack
  <2>1. connected' \in BOOLEAN
    BY <1>3, Zenon DEF Outage, DatabaseBack
  <2>2. outages' \in 0..MaxOutages
    BY <1>3, MaxOutagesNat DEF Outage, DatabaseBack, IInv, TypeOK
  <2>3. TypeOK'
    BY <1>3, <2>1, <2>2 DEF Outage, DatabaseBack, IInv, TypeOK
  <2>4. (Exclusive /\ Checkpoints /\ InOrder /\ Earned)'
    BY <1>3 DEF Outage, DatabaseBack, IInv, Exclusive, Checkpoints, InOrder, Earned
  <2> QED
    BY <2>3, <2>4 DEF IInv
<1>4. CASE Down \/ UNCHANGED vars
  BY <1>4 DEF Down, vars, database, IInv, TypeOK, Exclusive, Checkpoints, InOrder, Earned
<1> QED
  BY <1>1, <1>2, <1>3, <1>4 DEF Next

LEMMA Invariance == Spec => []IInv
  BY InitIInv, IInvStep, PTL DEF Spec

\* Every state of a lifecycle is well typed.
THEOREM TypeCorrect == Spec => []TypeOK
<1>1. IInv => TypeOK
  BY DEF IInv
<1> QED
  BY <1>1, Invariance, PTL

\* Each startup step is done at most once, and after all the steps before it.
THEOREM StepsRunOnce == Spec => []StepsOnceInOrder
<1>1. IInv => StepsOnceInOrder
  <2> SUFFICES ASSUME IInv, NEW s \in Steps
               PROVE  done[s] <= 1 /\ (done[s] = 1 => \A u \in 1..s : done[u] = 1)
    BY DEF StepsOnceInOrder
  <2>1. done[s] \in {0, 1}
    BY DEF IInv, Checkpoints
  <2>2. ASSUME done[s] = 1, NEW u \in 1..s PROVE done[u] = 1
    <3>1. s \in completed /\ u \in Steps /\ u <= s
      BY <2>2, StepCountPositive DEF IInv, Checkpoints, Steps
    <3> QED
      BY <3>1 DEF IInv, Checkpoints
  <2> QED
    BY <2>1, <2>2
<1> QED
  BY <1>1, Invariance, PTL

\* A process that any check reports as ready has done every startup step, and a
\* checkpoint always stands for a step that was done.
THEOREM ReadyIsEarned == Spec => [](ReadyMeansRecovered /\ CheckpointMeansDone)
<1>1. IInv => ReadyMeansRecovered /\ CheckpointMeansDone
  BY DEF IInv, TypeOK, Checkpoints, Earned, ReadyMeansRecovered, CheckpointMeansDone
<1> QED
  BY <1>1, Invariance, PTL

\* Together: the startup is sound for any number of steps and threads.
THEOREM StartupSound == Spec => []StartupIsSound
<1>1. StepsOnceInOrder /\ ReadyMeansRecovered /\ CheckpointMeansDone => StartupIsSound
  BY DEF StartupIsSound
<1> QED
  BY <1>1, StepsRunOnce, ReadyIsEarned, PTL

-----------------------------------------------------------------------------
(* Shutdown. *)

\* After the join only the monitor can be inside check(), with work that was missed, and no
\* thread can enter it again.
Quiescent ==
    /\ stage # "startup" => pc["startup"] = "idle"
    /\ stage \notin {"startup", "serving"} => ~monitoring /\ \A r \in Requests : pc[r] = "idle"
    /\ stage \in {"monitor_stopped", "scheduler_stopped", "down"} /\ pc["monitor"] # "idle"
         => Pending \subseteq missed

SInv == IInv /\ Quiescent /\ SchedulerStaysStopped

LEMMA StopStep == ASSUME SInv, [Next]_vars, IInv' PROVE SInv'
<1> USE DEF SInv, Pending
<1>1. ASSUME NEW t \in Threads, Check(t) PROVE SInv'
  <2>1. /\ UNCHANGED <<stage, monitoring, missed>> /\ completed \subseteq completed'
        /\ \A u \in Threads : u # t => pc'[u] = pc[u]
    BY <1>1 DEF Check, Acquire, AnswerBusy, Probe, BeginStep, RunStep, StepFails, StepsDone,
                FinalProbe, Return, IInv, TypeOK
  <2>2. pc[t] # "idle" \/ MayCheck(t)
    BY <1>1 DEF Check, Acquire, AnswerBusy, Probe, BeginStep, RunStep, StepFails, StepsDone, FinalProbe
  <2>3. t = "startup" \/ t = "monitor" \/ t \in Requests
    BY DEF Threads
  <2>4. stage \in {"monitor_stopped", "scheduler_stopped", "down"}
          => t = "monitor" /\ pc[t] # "idle" /\ Pending \subseteq missed
    BY <2>2, <2>3, ThreadsDistinct DEF MayCheck, Quiescent
  <2>5. Quiescent'
    BY <2>1, <2>2, <2>3, <2>4, ThreadsDistinct DEF MayCheck, Quiescent, Threads
  <2>6. SchedulerStaysStopped'
    <3>1. CASE RunStep(t)
      <4>1. working[t] \in Pending
        BY <3>1 DEF RunStep, IInv, TypeOK, InOrder
      <4>2. scheduler' => scheduler \/ working[t] = Scheduler
        BY <3>1, Zenon DEF RunStep
      <4> QED
        BY <2>1, <2>4, <4>1, <4>2 DEF SchedulerStaysStopped
    <3>2. CASE ~RunStep(t)
      <4>1. scheduler' = scheduler
        BY <1>1, <3>2 DEF Check, Acquire, AnswerBusy, Probe, BeginStep, StepFails, StepsDone, FinalProbe
      <4> QED
        BY <2>1, <4>1 DEF SchedulerStaysStopped
    <3> QED
      BY <3>1, <3>2
  <2> QED
    BY <2>5, <2>6
<1>2. CASE Serve
  BY <1>2 DEF Serve, Quiescent, SchedulerStaysStopped
<1>3. CASE BeginShutdown
  BY <1>3 DEF BeginShutdown, Quiescent, SchedulerStaysStopped
<1>4. CASE MonitorJoined
  BY <1>4 DEF MonitorJoined, Quiescent, SchedulerStaysStopped
<1>5. CASE StopScheduler
  BY <1>5 DEF StopScheduler, Quiescent, SchedulerStaysStopped
<1>6. CASE ShutdownRunner
  BY <1>6 DEF ShutdownRunner, Quiescent, SchedulerStaysStopped
<1>7. CASE Outage \/ DatabaseBack
  BY <1>7 DEF Outage, DatabaseBack, Quiescent, SchedulerStaysStopped
<1>8. CASE Down \/ UNCHANGED vars
  BY <1>8 DEF Down, vars, Quiescent, SchedulerStaysStopped
<1> QED
  BY <1>1, <1>2, <1>3, <1>4, <1>5, <1>6, <1>7, <1>8 DEF Next

\* Also when stop() gives up waiting for the monitor thread, and although the runner would
\* accept the scheduler again: a scheduler that ran before the shutdown stays stopped, and
\* only the check that outlived the join can start one that had not run.
THEOREM StoppedForGood == Spec => []SchedulerStaysStopped
<1>1. Init => SInv
  BY InitIInv DEF Init, SInv, Quiescent, SchedulerStaysStopped
<1>2. SInv /\ IInv' /\ [Next]_vars => SInv'
  BY StopStep
<1>3. SInv => SchedulerStaysStopped
  BY DEF SInv
<1> QED
  BY <1>1, <1>2, <1>3, Invariance, PTL DEF Spec

-----------------------------------------------------------------------------
(* The build of a card.                                                         *)

\* A nonempty set of natural numbers has a least member.
LEMMA LeastNumber ==
    ASSUME NEW S, S \subseteq Nat, S # {}
    PROVE  \E m \in S : \A n \in S : m <= n
<1> DEFINE Less == {p \in Nat \X Nat : p[1] < p[2]}
<1>1. OpToRel(<, Nat) = Less
    BY Zenon DEF OpToRel
<1>2. IsWellFoundedOn(OpToRel(<, Nat), Nat)
    BY NatLessThanWellFounded, Zenon
<1>3. IsWellFoundedOn(Less, Nat)
    BY <1>1, <1>2, Zenon
<1>4. PICK m \in S : \A n \in S : <<n, m>> \notin Less
    <2> HIDE DEF Less
    <2> QED BY <1>3, WFMin, Zenon
<1>5. \A n \in S : ~(n < m)
    BY <1>4
<1> QED BY <1>4, <1>5


-----------------------------------------------------------------------------
(* What a builder has to read.                                                 *)

\* What is below some nodes is below one of them.
LEMMA BelowOne ==
    ASSUME NEW b, NEW S
    PROVE  /\ \A m : m \in C!Below(b, S) <=> \E n \in S : m \in C!Below(b, {n})
           /\ S \subseteq C!Below(b, S)
<1>1. \A m : m \in C!Below(b, S) <=>
          m \in S \/ \E n \in S : m \in Refs[n] \cup UNION {Members[s] : s \in C!Branches(b, n)}
    BY DEF C!Below
<1>2. \A n : \A m : m \in C!Below(b, {n}) <=>
          m = n \/ m \in Refs[n] \cup UNION {Members[s] : s \in C!Branches(b, n)}
    BY DEF C!Below
<1> QED BY <1>1, <1>2

\* The nodes that a node leads to are nodes.
LEMMA BelowIsNode == ASSUME NEW b, NEW n \in DOMAIN Kind PROVE C!Below(b, {n}) \subseteq DOMAIN Kind
<1>1. Refs[n] \subseteq DOMAIN Kind
    BY NodesTyped
<1>2. \A s \in C!Branches(b, n) : Members[s] \subseteq DOMAIN Kind
    BY NodesTyped DEF C!Branches
<1> QED BY <1>1, <1>2 DEF C!Below

\* A way of d steps down from the root, some of which may stay where they are.
Path(b, d, p) ==
    /\ p \in [0 .. d -> DOMAIN Kind] /\ p[0] = Root[b]
    /\ \A i \in 1 .. d : p[i] \in C!Below(b, {p[i - 1]})

\* What such ways lead to.
LEMMA PathsReach == \A b, d, m : m \in C!Within(b, d) <=> \E p : Path(b, d, p) /\ m = p[d]
BY DEF C!Within, Path

\* No step leads to the root alone.
LEMMA RootIsWithin == ASSUME NEW b \in Builders PROVE C!Within(b, 0) = {Root[b]}
<1>1. Path(b, 0, [i \in 0 .. 0 |-> Root[b]])
    BY NodesTyped DEF Path
<1>2. \A p : Path(b, 0, p) => p[0] = Root[b]
    BY DEF Path
<1> QED BY <1>1, <1>2, PathsReach

\* One step more leads to what is below.
LEMMA OneFurther ==
    ASSUME NEW b, NEW d \in Nat
    PROVE  C!Within(b, d + 1) = C!Below(b, C!Within(b, d))
<1>1. ASSUME NEW m \in C!Within(b, d + 1) PROVE m \in C!Below(b, C!Within(b, d))
  <2>1. PICK p : Path(b, d + 1, p) /\ m = p[d + 1]
    BY PathsReach
  <2> DEFINE q == [i \in 0 .. d |-> p[i]]
  <2>2. Path(b, d, q)
    BY <2>1 DEF Path
  <2>3. q[d] \in C!Within(b, d)
    BY <2>2, PathsReach
  <2>4. m \in C!Below(b, {q[d]})
    BY <2>1 DEF Path
  <2> HIDE DEF q
  <2> QED BY <2>3, <2>4, BelowOne
<1>2. ASSUME NEW m \in C!Below(b, C!Within(b, d)) PROVE m \in C!Within(b, d + 1)
  <2>1. PICK n \in C!Within(b, d) : m \in C!Below(b, {n})
    BY <1>2, BelowOne
  <2>2. PICK p : Path(b, d, p) /\ n = p[d]
    BY <2>1, PathsReach
  <2>3. n \in DOMAIN Kind
    BY <2>2 DEF Path
  <2>4. m \in DOMAIN Kind
    BY <2>1, <2>3, BelowIsNode
  <2> DEFINE q == [i \in 0 .. d + 1 |-> IF i <= d THEN p[i] ELSE m]
  <2>5. Path(b, d + 1, q)
    <3>1. q \in [0 .. d + 1 -> DOMAIN Kind] /\ q[0] = Root[b]
      BY <2>2, <2>4 DEF Path
    <3>2. ASSUME NEW i \in 1 .. d + 1 PROVE q[i] \in C!Below(b, {q[i - 1]})
      <4>1. CASE i \in 1 .. d
        BY <2>2, <4>1 DEF Path
      <4>2. CASE i = d + 1
        BY <2>1, <2>2, <4>2
      <4> QED BY <4>1, <4>2
    <3> HIDE DEF q
    <3> QED BY <3>1, <3>2 DEF Path
  <2>6. q[d + 1] = m
    OBVIOUS
  <2> HIDE DEF q
  <2> QED BY <2>5, <2>6, PathsReach
<1> QED BY <1>1, <1>2

\* More steps lead no less far.
LEMMA ReachGrows ==
    ASSUME NEW b, NEW d \in Nat, NEW e \in Nat, d <= e
    PROVE  C!Within(b, d) \subseteq C!Within(b, e)
<1> SUFFICES ASSUME NEW m \in C!Within(b, d) PROVE m \in C!Within(b, e)
    OBVIOUS
<1>1. PICK p : Path(b, d, p) /\ m = p[d]
    BY PathsReach
<1> DEFINE q == [i \in 0 .. e |-> IF i <= d THEN p[i] ELSE m]
<1>2. q \in [0 .. e -> DOMAIN Kind] /\ q[0] = Root[b]
    BY <1>1 DEF Path
<1>3. ASSUME NEW i \in 1 .. e PROVE q[i] \in C!Below(b, {q[i - 1]})
  <2>1. CASE i <= d
    BY <1>1, <2>1 DEF Path
  <2>2. CASE i > d
    <3>1. q[i] = m /\ q[i - 1] = m
      BY <1>1, <2>2
    <3> HIDE DEF q
    <3> QED BY <3>1, BelowOne
  <2> QED BY <2>1, <2>2
<1>4. q[e] = m
    BY <1>1
<1> HIDE DEF q
<1>5. Path(b, e, q)
    BY <1>2, <1>3 DEF Path
<1> QED BY <1>4, <1>5, PathsReach

\* What nothing leads out of holds all that the root leads to.
LEMMA ClosedIsAll ==
    ASSUME NEW b, NEW S, Root[b] \in S, C!Below(b, S) \subseteq S, NEW d \in Nat
    PROVE  C!Within(b, d) \subseteq S
<1> SUFFICES ASSUME NEW p, Path(b, d, p), p[d] \notin S PROVE FALSE
    BY PathsReach
<1> DEFINE Outside == {i \in 0 .. d : p[i] \notin S}
<1>1. Outside \subseteq Nat /\ Outside # {}
    OBVIOUS
<1>2. PICK i \in Outside : \A j \in Outside : i <= j
    <2> HIDE DEF Outside
    <2> QED BY <1>1, LeastNumber
<1>3. i # 0
    BY DEF Path
<1>4. i - 1 \in 0 .. d /\ i \in 1 .. d /\ p[i - 1] \in S
    BY <1>2, <1>3
<1>5. p[i] \in C!Below(b, {p[i - 1]})
    BY <1>4 DEF Path
<1>6. p[i] \in S
    BY <1>4, <1>5, BelowOne
<1> QED BY <1>6

\* A traversal that finds nothing new before its greatest depth has found all.
LEMMA ClosedLevelIsAll ==
    ASSUME NEW b \in Builders, NEW d \in 0 .. MaxDepth, C!Below(b, C!Within(b, d)) \subseteq C!Within(b, d)
    PROVE  C!Within(b, d) = C!Reach(b)
<1>1. Root[b] \in C!Within(b, d)
    BY RootIsWithin, ReachGrows
<1>2. C!Within(b, MaxDepth) \subseteq C!Within(b, d)
    BY <1>1, ClosedIsAll, NodesTyped
<1>3. C!Within(b, d) \subseteq C!Within(b, MaxDepth)
    BY ReachGrows, NodesTyped
<1> QED BY <1>2, <1>3 DEF C!Reach

-----------------------------------------------------------------------------
(* The builders.                                                               *)

\* The metadata that shows a builder all that its host may have.
Right(b, metadata) == metadata = "full" \/ (metadata = "filtered" /\ b \in Windows)

\* A builder without a warning has read the tree down to its depth, but for the children of
\* the last level; it knows, claimed or awaits the type of every node of that level.
Sound(b, r) ==
    /\ r.depth \in 0 .. MaxDepth /\ r.nodes = C!Within(b, r.depth) /\ r.level \subseteq r.nodes
    /\ \A n \in r.nodes \ r.level : C!Below(b, {n}) \subseteq r.nodes
    /\ \A s \in r.colls : Members[s] \subseteq r.nodes
    /\ \A k \in Kinds : r.known[k] = "unknown" \/ Right(b, r.known[k])
    /\ \A n \in r.level : r.known[Kind[n]] = "unknown" =>
          \/ r.at = "claim"
          \/ r.at = "ask" /\ Kind[n] \in r.mine
          \/ r.at \in {"ask", "wait"} /\ \E t \in r.theirs : t[1] = Kind[n]

Whole(b, r) ==
    ~r.warned =>
        /\ r.at \in {"claim", "ask", "wait", "fetch"} => Sound(b, r)
        /\ r.at = "tree" => r.nodes = C!Reach(b)

Fields == {"at", "level", "depth", "nodes", "colls", "known", "mine", "theirs", "warned"}

BuildTypes ==
    /\ cache \in [Kinds -> {"none", "full", "filtered"}] /\ vulns \in [Builders -> Answers \cup {None}]
    /\ DOMAIN build = Builders /\ \A b \in Builders : DOMAIN build[b] = Fields

BuildInv == BuildTypes /\ \A b \in Builders \ blind : Whole(b, build[b])

\* A step of one builder.
LEMMA OneBuilds ==
    ASSUME BuildInv, NEW b \in Builders, DOMAIN build' = Builders, DOMAIN build'[b] = Fields,
           \A c \in Builders \ {b} : build'[c] = build[c],
           blind \subseteq blind', b \notin blind' => Whole(b, build'[b]),
           cache' \in [Kinds -> {"none", "full", "filtered"}], vulns' \in [Builders -> Answers \cup {None}]
    PROVE  BuildInv'
<1>1. BuildTypes'
    BY DEF BuildInv, BuildTypes
<1>2. \A c \in Builders \ blind' : Whole(c, build'[c])
    BY DEF BuildInv
<1> QED BY <1>1, <1>2 DEF BuildInv

\* What the root leads to are nodes.
LEMMA WithinIsNode == ASSUME NEW b, NEW d \in Nat PROVE C!Within(b, d) \subseteq DOMAIN Kind
<1> SUFFICES ASSUME NEW m \in C!Within(b, d) PROVE m \in DOMAIN Kind
    OBVIOUS
<1>1. PICK p : Path(b, d, p) /\ m = p[d]
    BY PathsReach
<1> QED BY <1>1 DEF Path

\* Under the lock a type is taken from the cache, claimed or awaited: none is forgotten.
LEMMA ClaimKeeps == ASSUME BuildInv, NEW b \in Builders, C!Claim(b) PROVE BuildInv'
<1> DEFINE r == build[b]
           hit == {k \in C!Wanted(b) : cache[k] # "none"}
           free == {k \in C!Wanted(b) \ hit : inflight[k] = None}
           left == {<<k, inflight[k]>> : k \in C!Wanted(b) \ (hit \cup free)}
           shown == [k \in Kinds |-> IF k \in hit THEN cache[k] ELSE r.known[k]]
           s == build'[b]
<1>1. /\ r.at = "claim" /\ cache' = cache /\ vulns' = vulns /\ blind \subseteq blind'
      /\ b \notin Windows /\ (\E k \in hit : cache[k] = "filtered") => b \in blind'
    BY DEF C!Claim
<1>2. build' = [build EXCEPT ![b].at = "ask", ![b].mine = free, ![b].theirs = left, ![b].known = shown]
    BY Zenon DEF C!Claim
<1>3. DOMAIN build = Builders /\ DOMAIN r = Fields
    BY DEF BuildInv, BuildTypes
<1>4. /\ DOMAIN build' = Builders /\ DOMAIN s = Fields /\ \A c \in Builders \ {b} : build'[c] = build[c]
      /\ s.at = "ask" /\ s.level = r.level /\ s.depth = r.depth /\ s.nodes = r.nodes
      /\ s.colls = r.colls /\ s.known = shown /\ s.mine = free /\ s.theirs = left /\ s.warned = r.warned
    <2> HIDE DEF hit, free, left, shown
    <2> QED BY <1>2, <1>3 DEF Fields
<1>5. cache \in [Kinds -> {"none", "full", "filtered"}]
    BY DEF BuildInv, BuildTypes
<1>6. ASSUME b \notin blind', ~r.warned PROVE Sound(b, s)
  <2>1. Sound(b, r)
    BY <1>1, <1>6 DEF BuildInv, Whole
  <2>2. \A k \in Kinds : shown[k] = "unknown" \/ Right(b, shown[k])
    BY <1>1, <1>5, <1>6, <2>1 DEF Sound, Right
  <2>3. ASSUME NEW n \in r.level, shown[Kind[n]] = "unknown"
        PROVE  Kind[n] \in free \/ \E t \in left : t[1] = Kind[n]
    <3>1. Kind[n] \in Kinds
      BY <2>1, WithinIsNode, NodesTyped DEF Sound
    <3>2. Kind[n] \notin hit /\ r.known[Kind[n]] = "unknown"
      BY <1>5, <2>3, <3>1
    <3>3. Kind[n] \in C!Wanted(b)
      BY <3>2 DEF C!Wanted
    <3>4. CASE Kind[n] \in free
      BY <3>4
    <3>5. CASE Kind[n] \notin free
      <4>1. <<Kind[n], inflight[Kind[n]]>> \in left
        <5> HIDE DEF hit, free
        <5> QED BY <3>2, <3>3, <3>5
      <4> HIDE DEF left
      <4> QED BY <4>1
    <3> QED BY <3>4, <3>5
  <2> HIDE DEF s, left, free, hit, shown
  <2> QED BY <1>4, <2>1, <2>2, <2>3 DEF Sound
<1>7. b \notin blind' => Whole(b, s)
    BY <1>4, <1>6 DEF Whole
<1>8. vulns' \in [Builders -> Answers \cup {None}]
    BY <1>1 DEF BuildInv, BuildTypes
<1>9. DOMAIN build' = Builders /\ DOMAIN build'[b] = Fields /\ \A c \in Builders \ {b} : build'[c] = build[c]
    BY <1>4
<1> QED BY <1>1, <1>5, <1>7, <1>8, <1>9, OneBuilds

\* What was asked for without a failure is the metadata of the builder's own host.
LEMMA AskKeeps == ASSUME BuildInv, NEW b \in Builders, NEW failed, C!Ask(b, failed) PROVE BuildInv'
<1> DEFINE r == build[b]
           got == [k \in Kinds |-> IF k \in failed THEN "empty" ELSE C!Shown(b, "full")]
           shown == [k \in Kinds |-> IF k \in r.mine THEN got[k] ELSE r.known[k]]
           lost == r.warned \/ failed # {}
           s == build'[b]
<1>1. r.at = "ask" /\ vulns' = vulns /\ blind' = blind
    BY DEF C!Ask
<1>2. build' = [build EXCEPT ![b].at = "wait", ![b].mine = {}, ![b].warned = lost, ![b].known = shown]
    BY Zenon DEF C!Ask
<1>3. DOMAIN build = Builders /\ DOMAIN r = Fields
    BY DEF BuildInv, BuildTypes
<1>4. /\ DOMAIN build' = Builders /\ DOMAIN s = Fields /\ \A c \in Builders \ {b} : build'[c] = build[c]
      /\ s.at = "wait" /\ s.level = r.level /\ s.depth = r.depth /\ s.nodes = r.nodes
      /\ s.colls = r.colls /\ s.known = shown /\ s.mine = {} /\ s.theirs = r.theirs /\ s.warned = lost
    <2> HIDE DEF got, shown, lost
    <2> QED BY <1>2, <1>3 DEF Fields
<1>5. cache' \in [Kinds -> {"none", "full", "filtered"}]
    <2>1. cache' = [k \in Kinds |-> IF k \in r.mine THEN C!Cached(cache[k], got[k]) ELSE cache[k]]
        BY Zenon DEF C!Ask
    <2>2. cache \in [Kinds -> {"none", "full", "filtered"}]
        BY DEF BuildInv, BuildTypes
    <2> QED BY <2>1, <2>2 DEF C!Cached, C!Shown
<1>6. ASSUME b \notin blind', ~lost PROVE Sound(b, s)
  <2>1. Sound(b, r) /\ failed = {}
    BY <1>1, <1>6 DEF BuildInv, Whole
  <2>2. \A k \in Kinds : got[k] # "unknown" /\ Right(b, got[k])
    BY <2>1 DEF C!Shown, Right
  <2>3. \A k \in Kinds : shown[k] = "unknown" \/ Right(b, shown[k])
    BY <2>1, <2>2 DEF Sound
  <2>4. ASSUME NEW n \in r.level, shown[Kind[n]] = "unknown"
        PROVE  \E t \in r.theirs : t[1] = Kind[n]
    <3>1. Kind[n] \in Kinds
      BY <2>1, WithinIsNode, NodesTyped DEF Sound
    <3>2. Kind[n] \notin r.mine /\ r.known[Kind[n]] = "unknown"
      BY <2>2, <2>4, <3>1
    <3> QED BY <1>1, <2>1, <3>2 DEF Sound
  <2> HIDE DEF s, shown, got
  <2> QED BY <1>4, <2>1, <2>3, <2>4 DEF Sound
<1>7. b \notin blind' => Whole(b, s)
    BY <1>4, <1>6 DEF Whole
<1>8. vulns' \in [Builders -> Answers \cup {None}]
    BY <1>1 DEF BuildInv, BuildTypes
<1> HIDE DEF got, shown, lost
<1> QED BY <1>1, <1>4, <1>5, <1>7, <1>8, OneBuilds

\* What others did not cache, or cached for another system, makes the builder blind.
LEMMA WaitKeeps == ASSUME BuildInv, NEW b \in Builders, C!Wait(b) PROVE BuildInv'
<1> DEFINE r == build[b]
           taken(k) == IF cache[k] = "none" THEN "empty" ELSE cache[k]
           shown == [k \in Kinds |-> IF k \notin C!Awaited(b) THEN r.known[k] ELSE taken(k)]
           s == build'[b]
<1>1. /\ r.at = "wait" /\ cache' = cache /\ vulns' = vulns /\ blind \subseteq blind'
      /\ (\E k \in C!Awaited(b) : cache[k] = "none" \/ (cache[k] = "filtered" /\ b \notin Windows))
            => b \in blind'
    BY DEF C!Wait
<1>2. build' = [build EXCEPT ![b].at = "fetch", ![b].theirs = {}, ![b].known = shown]
    BY DEF C!Wait
<1>3. DOMAIN build = Builders /\ DOMAIN r = Fields
    BY DEF BuildInv, BuildTypes
<1>4. /\ DOMAIN build' = Builders /\ DOMAIN s = Fields /\ \A c \in Builders \ {b} : build'[c] = build[c]
      /\ s.at = "fetch" /\ s.level = r.level /\ s.depth = r.depth /\ s.nodes = r.nodes
      /\ s.colls = r.colls /\ s.known = shown /\ s.mine = r.mine /\ s.theirs = {} /\ s.warned = r.warned
    <2> HIDE DEF shown
    <2> QED BY <1>2, <1>3 DEF Fields
<1>5. cache \in [Kinds -> {"none", "full", "filtered"}]
    BY DEF BuildInv, BuildTypes
<1>6. ASSUME b \notin blind', ~r.warned PROVE Sound(b, s)
  <2>1. Sound(b, r)
    BY <1>1, <1>6 DEF BuildInv, Whole
  <2>2. \A k \in Kinds : k \in C!Awaited(b) => shown[k] # "unknown" /\ Right(b, shown[k])
    BY <1>1, <1>5, <1>6 DEF Right
  <2>3. \A k \in Kinds : shown[k] = "unknown" \/ Right(b, shown[k])
    BY <2>1, <2>2 DEF Sound
  <2>4. ASSUME NEW n \in r.level PROVE shown[Kind[n]] # "unknown"
    <3>1. Kind[n] \in Kinds
      BY <2>1, WithinIsNode, NodesTyped DEF Sound
    <3>2. r.known[Kind[n]] = "unknown" => Kind[n] \in C!Awaited(b)
      BY <1>1, <2>1 DEF Sound, C!Awaited
    <3> QED BY <2>2, <3>1, <3>2
  <2> HIDE DEF s, shown
  <2> QED BY <1>4, <2>1, <2>3, <2>4 DEF Sound
<1>7. b \notin blind' => Whole(b, s)
    BY <1>4, <1>6 DEF Whole
<1>8. vulns' \in [Builders -> Answers \cup {None}]
    BY <1>1 DEF BuildInv, BuildTypes
<1>9. DOMAIN build' = Builders /\ DOMAIN build'[b] = Fields /\ \A c \in Builders \ {b} : build'[c] = build[c]
    BY <1>4
<1> QED BY <1>1, <1>5, <1>7, <1>8, <1>9, OneBuilds

\* The metadata of a builder that was shown the right one declares what it has to read.
LEMMA RightDeclares ==
    ASSUME NEW b, NEW n, Right(b, build[b].known[Kind[n]])
    PROVE  C!SpecsOf(b, n) = C!Branches(b, n)
<1>1. C!Collections(b, n) = Declared[Kind[n]] \ (IF b \in Windows THEN Excluded ELSE {})
    BY DEF Right, C!Collections
<1> QED BY <1>1 DEF C!SpecsOf, C!Branches

\* A level read without a loss is one step further.
LEMMA LevelRead ==
    ASSUME NEW b \in Builders, Sound(b, build[b]), build[b].at = "fetch", build[b].depth < MaxDepth
    PROVE  build[b].nodes \cup C!Children(b, C!Specs(b)) = C!Below(b, build[b].nodes)
<1> DEFINE r == build[b]
           found == UNION {Members[s] : s \in C!Specs(b)}
<1>1. \A n \in r.level : C!SpecsOf(b, n) = C!Branches(b, n)
  <2> TAKE n \in r.level
  <2>1. Kind[n] \in Kinds
    BY WithinIsNode, NodesTyped DEF Sound
  <2> QED BY <2>1, RightDeclares DEF Sound
<1>2. C!Children(b, C!Specs(b)) = (C!Direct(b) \cup found) \ r.nodes
    BY DEF C!Children, C!Deeper
<1>3. \A m : m \in C!Below(b, r.nodes) <=>
          m \in r.nodes \/ \E n \in r.nodes : m \in Refs[n] \/ \E s \in C!Branches(b, n) : m \in Members[s]
    BY DEF C!Below
<1>4. \A m : m \in C!Direct(b) <=> m \notin r.nodes /\ \E n \in r.level : m \in Refs[n]
    BY DEF C!Direct
<1>5. \A s : s \in C!Specs(b) <=> s \notin r.colls /\ \E n \in r.level : s \in C!Branches(b, n)
    BY <1>1 DEF C!Specs
<1>6. ASSUME NEW m \in C!Direct(b) \cup found PROVE m \in C!Below(b, r.nodes)
    BY <1>3, <1>4, <1>5, <1>6 DEF Sound
<1>7. ASSUME NEW m \in C!Below(b, r.nodes), m \notin r.nodes PROVE m \in C!Direct(b) \cup found
  <2>1. PICK n \in r.nodes : m \in Refs[n] \/ \E s \in C!Branches(b, n) : m \in Members[s]
    BY <1>3, <1>7
  <2>2. n \in r.level
    <3> SUFFICES ASSUME n \notin r.level PROVE FALSE
      OBVIOUS
    <3>1. m \in C!Below(b, {n})
      BY <2>1 DEF C!Below
    <3> QED BY <1>7, <3>1 DEF Sound
  <2>3. CASE m \in Refs[n]
    BY <1>4, <1>7, <2>2, <2>3
  <2>4. CASE \E s \in C!Branches(b, n) : m \in Members[s]
    <3>1. PICK s \in C!Branches(b, n) : m \in Members[s]
      BY <2>4
    <3>2. s \in C!Specs(b)
      BY <1>5, <1>7, <2>2, <3>1 DEF Sound
    <3> QED BY <3>1, <3>2
  <2> QED BY <2>1, <2>3, <2>4
<1>8. r.nodes \subseteq C!Below(b, r.nodes)
    BY <1>3
<1> HIDE DEF found, r
<1> QED BY <1>2, <1>6, <1>7, <1>8 DEF r

\* A level read, the greatest depth with it.
LEMMA FetchKeeps ==
    ASSUME BuildInv, NEW b \in Builders, build[b].at = "fetch",
           NEW lostColls, NEW lostNodes, NEW again, C!Fetch(b, lostColls, lostNodes, again)
    PROVE  BuildInv'
<1> DEFINE r == build[b]
           read == C!Reading(b) \ lostColls
           next == C!Children(b, read) \ lostNodes
           gap == r.warned \/ C!Gap(b, lostColls # {} \/ lostNodes \cup again # {})
           s == build'[b]
<1>1. cache' = cache /\ vulns' = vulns /\ blind' = blind
    BY DEF C!Fetch
<1>2. build' = [build EXCEPT
          ![b].at = IF next = {} THEN "tree" ELSE "claim", ![b].level = next, ![b].depth = r.depth + 1,
          ![b].nodes = r.nodes \cup next, ![b].colls = r.colls \cup read, ![b].warned = gap]
    BY Zenon DEF C!Fetch
<1>3. DOMAIN build = Builders /\ DOMAIN r = Fields
    BY DEF BuildInv, BuildTypes
<1>4. /\ DOMAIN build' = Builders /\ DOMAIN s = Fields /\ \A c \in Builders \ {b} : build'[c] = build[c]
      /\ s.at = (IF next = {} THEN "tree" ELSE "claim") /\ s.level = next /\ s.depth = r.depth + 1 /\ s.nodes = r.nodes \cup next
      /\ s.colls = r.colls \cup read /\ s.known = r.known /\ s.mine = r.mine /\ s.theirs = r.theirs /\ s.warned = gap
    <2> HIDE DEF read, next, gap
    <2> QED BY <1>2, <1>3 DEF Fields
<1>5. cache' \in [Kinds -> {"none", "full", "filtered"}]
    BY <1>1 DEF BuildInv, BuildTypes
<1>6. ASSUME b \notin blind', ~gap PROVE Whole(b, s)
  <2>1. Sound(b, r)
    BY <1>1, <1>6 DEF BuildInv, Whole
  <2>2. lostColls = {} /\ lostNodes = {}
    BY <1>6 DEF C!Gap
  <2>3. r.depth \in 0 .. MaxDepth /\ MaxDepth \in Nat
    BY <2>1, NodesTyped DEF Sound
  <2>4. CASE r.depth < MaxDepth
    <3>1. read = C!Specs(b)
      BY <2>2, <2>4 DEF C!Reading, C!Deeper
    <3>2. next = C!Children(b, read)
      BY <2>2
    <3>3. r.nodes \cup next = C!Below(b, r.nodes)
      <4> HIDE DEF read, next
      <4> QED BY <2>1, <2>4, <3>1, <3>2, LevelRead
    <3>4. r.nodes \cup next = C!Within(b, r.depth + 1)
      <4>1. r.depth \in Nat /\ r.nodes = C!Within(b, r.depth)
        BY <2>1, <2>3 DEF Sound
      <4>2. C!Within(b, r.depth + 1) = C!Below(b, C!Within(b, r.depth))
        <5> HIDE DEF r
        <5> QED BY <4>1, OneFurther
      <4> HIDE DEF r, next
      <4> QED BY <3>3, <4>1, <4>2
    <3>5. next \cap r.nodes = {}
      BY DEF C!Children
    <3>6. CASE next = {}
      <4>1. r.nodes = C!Reach(b)
        <5> HIDE DEF next
        <5> QED BY <2>1, <2>3, <3>3, <3>6, ClosedLevelIsAll DEF Sound
      <4>2. s.at = "tree" /\ s.nodes = r.nodes
        BY <1>4, <3>6
      <4> HIDE DEF s, next
      <4> QED BY <4>1, <4>2 DEF Whole
    <3>7. CASE next # {}
      <4>1. \A n \in (r.nodes \cup next) \ next : C!Below(b, {n}) \subseteq r.nodes \cup next
        <5> HIDE DEF next
        <5> QED BY <3>3, BelowOne
      <4>2. \A t \in r.colls \cup read : Members[t] \subseteq r.nodes \cup next
        <5>1. ASSUME NEW t \in read PROVE Members[t] \subseteq r.nodes \cup next
          <6>1. Members[t] \subseteq C!Children(b, read) \cup r.nodes
            BY <5>1 DEF C!Children
          <6> QED BY <3>2, <6>1
        <5> HIDE DEF next, read
        <5> QED BY <2>1, <5>1 DEF Sound
      <4>3. /\ s.at = "claim" /\ s.level = next /\ s.nodes = r.nodes \cup next /\ s.colls = r.colls \cup read
            /\ s.depth = r.depth + 1 /\ s.known = r.known
        BY <1>4, <3>7
      <4>4. r.depth + 1 \in 0 .. MaxDepth
        BY <2>3, <2>4
      <4> HIDE DEF s, next, read
      <4>5. Sound(b, s)
        BY <2>1, <3>4, <4>1, <4>2, <4>3, <4>4 DEF Sound
      <4> QED BY <4>3, <4>5 DEF Whole
    <3> QED BY <3>6, <3>7
  <2>5. CASE r.depth = MaxDepth
    <3>1. read = {}
      BY <2>3, <2>5 DEF C!Reading, C!Deeper
    <3>2. C!Children(b, {}) = {}
      BY <2>3, <2>5 DEF C!Children, C!Deeper
    <3>3. next = {}
      <4> HIDE DEF read
      <4> QED BY <3>1, <3>2
    <3>4. r.nodes = C!Reach(b)
      BY <2>1, <2>5 DEF Sound, C!Reach
    <3>5. s.at = "tree" /\ s.nodes = r.nodes
      BY <1>4, <3>3
    <3> HIDE DEF s, next
    <3> QED BY <3>4, <3>5 DEF Whole
  <2> QED BY <2>3, <2>4, <2>5
<1>7. b \notin blind' => Whole(b, s)
    <2> HIDE DEF gap
    <2> QED BY <1>4, <1>6 DEF Whole
<1>8. vulns' \in [Builders -> Answers \cup {None}]
    BY <1>1 DEF BuildInv, BuildTypes
<1>9. DOMAIN build' = Builders /\ DOMAIN build'[b] = Fields /\ \A c \in Builders \ {b} : build'[c] = build[c]
    BY <1>4
<1> QED BY <1>1, <1>5, <1>7, <1>8, <1>9, OneBuilds

\* A builder that is over keeps nothing.
LEMMA OverKeeps ==
    ASSUME BuildInv, NEW b \in Builders, NEW at \in {"done", "cancelled"},
           build' = [build EXCEPT ![b] = C!Started(b, at)], cache' = cache, blind' = blind,
           vulns' \in [Builders -> Answers \cup {None}]
    PROVE  BuildInv'
<1> DEFINE s == build'[b]
<1>1. DOMAIN build = Builders /\ \A c \in Builders : DOMAIN build[c] = Fields
    BY DEF BuildInv, BuildTypes
<1>2. DOMAIN build' = Builders /\ s = C!Started(b, at) /\ \A c \in Builders \ {b} : build'[c] = build[c]
    <2> DEFINE w == C!Started(b, at)
    <2> HIDE DEF w
    <2>1. build' = [build EXCEPT ![b] = w]
        BY DEF w
    <2>2. DOMAIN build' = Builders /\ s = w /\ \A c \in Builders \ {b} : build'[c] = build[c]
        BY <1>1, <2>1
    <2> QED BY <2>2 DEF w
<1>3. DOMAIN s = Fields /\ s.at = at
    BY <1>2 DEF C!Started, Fields
<1>4. Whole(b, s)
    BY <1>3 DEF Whole
<1>5. cache' \in [Kinds -> {"none", "full", "filtered"}]
    BY DEF BuildInv, BuildTypes
<1> QED BY <1>2, <1>3, <1>4, <1>5, OneBuilds

\* A builder begins with its root.
LEMMA BuildInit == C!Init => BuildInv
<1> SUFFICES ASSUME C!Init PROVE BuildInv
    OBVIOUS
<1>1. \A b \in Builders : build[b] = C!Started(b, "claim")
    BY DEF C!Init
<1>2. BuildTypes
    <2>1. DOMAIN build = Builders
        BY DEF C!Init
    <2>2. ASSUME NEW b \in Builders PROVE DOMAIN build[b] = Fields
        <3>1. build[b] = C!Started(b, "claim")
            BY <1>1
        <3> QED BY <3>1 DEF C!Started, Fields
    <2>3. cache \in [Kinds -> {"none", "full", "filtered"}] /\ vulns \in [Builders -> Answers \cup {None}]
        BY DEF C!Init
    <2> QED BY <2>1, <2>2, <2>3 DEF BuildTypes
<1>3. ASSUME NEW b \in Builders PROVE Whole(b, build[b])
  <2> DEFINE r == build[b]
  <2>1. /\ r.at = "claim" /\ r.level = {Root[b]} /\ r.depth = 0 /\ r.nodes = {Root[b]} /\ r.colls = {}
        /\ \A k \in Kinds : r.known[k] = "unknown"
    <3>1. r = C!Started(b, "claim")
      BY <1>1
    <3> HIDE DEF r
    <3> QED BY <3>1 DEF C!Started
  <2> HIDE DEF r
  <2>2. Sound(b, r)
    BY <2>1, RootIsWithin, NodesTyped DEF Sound
  <2> QED BY <2>1, <2>2 DEF Whole, r
<1> QED BY <1>2, <1>3 DEF BuildInv

\* No step of a builder disturbs the others.
LEMMA BuildNext == BuildInv /\ [C!Next]_C!vars => BuildInv'
<1> SUFFICES ASSUME BuildInv, [C!Next]_C!vars PROVE BuildInv'
    OBVIOUS
<1>0. vulns \in [Builders -> Answers \cup {None}]
    BY DEF BuildInv, BuildTypes
<1>1. CASE UNCHANGED C!vars
    BY <1>1 DEF C!vars, BuildInv, BuildTypes
<1>2. ASSUME NEW b \in Builders, C!Work(b) \/ C!Cancel(b) PROVE BuildInv'
  <2>1. CASE C!Claim(b)
    BY <2>1, ClaimKeeps
  <2>2. CASE C!AskAny(b)
    BY <2>2, AskKeeps DEF C!AskAny
  <2>3. CASE C!AskCancelled(b)
    BY <1>0, <2>3, OverKeeps DEF C!AskCancelled
  <2>4. CASE C!Wait(b)
    BY <2>4, WaitKeeps
  <2>5. CASE C!FetchAny(b)
    BY <2>5, FetchKeeps DEF C!FetchAny
  <2>6. CASE C!FetchCancelled(b)
    BY <1>0, <2>6, OverKeeps DEF C!FetchCancelled
  <2>7. CASE C!LoadAny(b)
    <3>1. PICK a \in Answers : C!LoadVulnerabilities(b, a)
      BY <2>7 DEF C!LoadAny
    <3>2. vulns' \in [Builders -> Answers \cup {None}]
      BY <1>0, <3>1 DEF C!LoadVulnerabilities
    <3> QED BY <3>1, <3>2, OverKeeps DEF C!LoadVulnerabilities
  <2>8. CASE C!VulnerabilitiesCancelled(b)
    BY <1>0, <2>8, OverKeeps DEF C!VulnerabilitiesCancelled
  <2>9. CASE C!Cancel(b)
    BY <2>9 DEF C!Cancel, BuildInv, BuildTypes
  <2> QED BY <1>2, <2>1, <2>2, <2>3, <2>4, <2>5, <2>6, <2>7, <2>8, <2>9 DEF C!Work
<1> QED BY <1>1, <1>2 DEF C!Next

\* A group of a widget that came without a warning has all its items.
LEMMA GroupComes ==
    ASSUME NEW a \in Answers, ~C!VulnerabilityWarned(a), NEW s \in {"os", "software"}, NEW i \in DOMAIN Widgets[s]
    PROVE  C!Group(Widgets[s][i], a.loaded[s][i]).items = C!Items(Widgets[s][i])
<1> DEFINE w == Widgets[s][i]
           load == a.loaded[s][i]
           cut == IF load.n # None /\ load.n > MaxItems THEN MaxItems ELSE load.n
<1>1. load.id /\ load.n # None /\ ~C!Group(w, load).truncated
    BY DEF C!VulnerabilityWarned
<1>2. load.n \in Nat /\ Len(w.items) \in Nat /\ DOMAIN w.items = 1 .. Len(w.items) /\ MaxItems \in Nat
    BY <1>1, AnswersTyped, NodesTyped
<1> HIDE DEF w, load
<1>3. cut \in Nat /\ cut # None
    BY <1>1, <1>2, NodesTyped
<1>4. C!Group(w, load) =
          [id |-> IF load.id THEN w.id ELSE None,
           items |-> IF ~load.id \/ cut = None THEN {}
                     ELSE {w.items[j] : j \in {k \in DOMAIN w.items : k <= cut}},
           truncated |-> ~(~load.id \/ cut = None) /\ cut < Len(w.items)]
    BY Zenon DEF C!Group
<1> HIDE DEF cut
<1>5. ~(cut < Len(w.items))
    <2> DEFINE x == IF load.id THEN w.id ELSE None
               y == IF ~load.id \/ cut = None THEN {}
                    ELSE {w.items[j] : j \in {k \in DOMAIN w.items : k <= cut}}
               z == ~(~load.id \/ cut = None) /\ cut < Len(w.items)
    <2>1. C!Group(w, load) = [id |-> x, items |-> y, truncated |-> z]
        BY <1>4
    <2> HIDE DEF x, y, z
    <2>2. C!Group(w, load).truncated = z
        BY <2>1
    <2> QED BY <1>1, <1>3, <2>2 DEF z
<1>6. {k \in DOMAIN w.items : k <= cut} = DOMAIN w.items
    BY <1>2, <1>3, <1>5
<1>7. C!Group(w, load).items = {w.items[j] : j \in {k \in DOMAIN w.items : k <= cut}}
    <2> DEFINE x == IF load.id THEN w.id ELSE None
               y == {w.items[j] : j \in {k \in DOMAIN w.items : k <= cut}}
               z == ~(~load.id \/ cut = None) /\ cut < Len(w.items)
    <2>1. C!Group(w, load) = [id |-> x, items |-> y, truncated |-> z]
        <3>1. (IF ~load.id \/ cut = None THEN {} ELSE y) = y
            BY <1>1, <1>3
        <3> HIDE DEF y
        <3> QED BY <1>4, <3>1 DEF y
    <2> HIDE DEF x, y, z
    <2>2. C!Group(w, load).items = y
        BY <2>1
    <2> QED BY <2>2 DEF y
<1>8. C!Group(w, load).items = C!Items(w)
    BY <1>6, <1>7, Zenon DEF C!Items
<1> QED BY <1>8 DEF w, load

\* Nothing that the widgets report is lost on the way to the snapshot, but what names a
\* Docker image, without a warning (build_docker_vulnerability_source).
LEMMA UnwarnedSourcesAreWhole ==
    ASSUME NEW a \in Answers, ~C!VulnerabilityWarned(a)
    PROVE  C!Reported \subseteq C!Found(C!Snapshot(a))
<1> SUFFICES ASSUME NEW s \in {"os", "software"}, NEW i \in DOMAIN Widgets[s],
                    NEW m \in C!Items(Widgets[s][i]), m \notin InImage
             PROVE  \E g \in C!Snapshot(a) : m \in g.items
    BY DEF C!Reported, C!Found
<1> DEFINE g == C!Group(Widgets[s][i], a.loaded[s][i])
<1>1. g.items = C!Items(Widgets[s][i])
    BY GroupComes
<1>2. g \in C!Source(s, a)
    BY Zenon DEF C!Source, C!VulnerabilityWarned
<1> HIDE DEF g
<1>3. CASE s = "os"
    BY <1>1, <1>2, <1>3 DEF C!Snapshot
<1>4. CASE s = "software"
  <2> DEFINE h == [g EXCEPT !.items = g.items \ InImage]
  <2>1. h \in C!Software(C!Source("software", a))
    BY <1>1, <1>2, <1>4 DEF C!Software
  <2>2. m \in h.items
    <3>1. g = C!Group(Widgets[s][i], a.loaded[s][i])
      BY DEF g
    <3>2. \E x, y, z : g = [id |-> x, items |-> y, truncated |-> z]
      BY <3>1 DEF C!Group
    <3> QED BY <1>1, <3>2
  <2> HIDE DEF h
  <2> QED BY <2>1, <2>2 DEF C!Snapshot
<1> QED BY <1>3, <1>4

\* What the builders keep is what the card promises.
LEMMA BuildInvIsEnough == BuildInv => UnwarnedIsWhole
BY UnwarnedSourcesAreWhole DEF BuildInv, BuildTypes, Whole, UnwarnedIsWhole, C!UnwarnedIsWhole

\* A card that was built without any warning lacks nothing: no node within the reach of its
\* root and no finding of the widgets (metadata_for_types, the traversal of build).
THEOREM CardsAreWhole == C!Init /\ [][C!Next]_C!vars => []UnwarnedIsWhole
<1>1. BuildInv /\ [C!Next]_C!vars => BuildInv'
    BY BuildNext
<1> QED BY <1>1, BuildInit, BuildInvIsEnough, PTL
=============================================================================

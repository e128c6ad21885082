--------------------------- MODULE AutomationProofs ---------------------------
(* A run has one execution, a step that is or may be done is not repeated, a    *)
(* cancelled run begins no further step, and no two scheduled runs execute at    *)
(* once: for any number of runs, threads, steps, keys, crashes and faults.       *)
EXTENDS Automation, FiniteSetTheorems, WellFoundedInduction, TLAPS

-----------------------------------------------------------------------------
(* The inductive invariant.  Its second half holds until the startup step that  *)
(* resumes is repeated while requests are served.                               *)

ThreadRecord ==
    [pc : {"idle", "opening", "check", "attempt", "executing", "finishing"},
     run : Runs \cup {None}, at : Steps, tries : Nat, done : SUBSET Steps,
     warned : BOOLEAN, outcome : Terminal \cup {None}]

Typed ==
    /\ status \in [Runs -> ActiveStatuses \cup Terminal \cup {"absent"}]
    /\ cancel \in [Runs -> BOOLEAN]
    /\ origin \in [Runs -> Keys \cup Nat \cup {None}]
    /\ step \in [Runs -> [Steps -> StepStatuses]]
    /\ next \in Nat /\ slot \in Nat /\ after \in Nat /\ now \in Nat
    /\ pending \in [Runs -> Nat] /\ requests \subseteq Runs
    /\ exec \in [Workers -> ThreadRecord]
    /\ \A w \in Workers :
          /\ exec[w].pc = "idle" <=> exec[w].run = None
          /\ exec[w].pc = "finishing" => exec[w].outcome \in Terminal
    /\ plan \in [Runs -> {"none", "cancel", "ambiguous", "submit"}]
    /\ interrupted \in [Runs -> SUBSET Steps] /\ late \in [Runs -> SUBSET Steps]
    /\ fired \subseteq Nat /\ early \subseteq Runs

Placed(r) == pending[r] > 0 \/ \E w \in Workers : exec[w].run = r
Waiting(r) == r \in requests \/ (spc = "submit" /\ origin[r] = slot)

\* A row is made once for its key or its cron point, and has no history before.
Rows ==
    /\ \A r \in Runs : status[r] = "absent" =>
          /\ origin[r] = None /\ ~Placed(r) /\ r \notin requests /\ plan[r] = "none"
          /\ interrupted[r] = {} /\ late[r] = {}
    /\ \A q, r \in Runs : origin[q] = origin[r] /\ origin[r] # None => q = r
    /\ \A r \in requests : origin[r] \notin Nat
    /\ spc \in {"submit", "advance"} => \E r \in Runs : origin[r] = slot
    /\ \A t \in fired : \E r \in Runs : origin[r] = t

\* A run that a crash cut in a step is not taken up again.
CutOff ==
    \A r \in Runs : interrupted[r] # {} =>
        /\ ~Placed(r) /\ ~Waiting(r) /\ plan[r] # "submit"
        /\ Active(r) => \E i \in Steps : step[r][i] = "running"

\* Runs are resumed before anything else may submit one.
Booting ==
    /\ boot = "pending" => \A r \in Runs : ~Placed(r) /\ plan[r] = "none"
    /\ boot # "done" => ~open /\ requests = {} /\ spc = "off"
    /\ boot = "done" => \A r \in Runs : plan[r] = "none"

\* A run is in one place: with a request, the scheduler or the plan that will submit it, in
\* the queue of the pool, or in one thread.
OnePlace ==
    \A r \in Runs :
        /\ pending[r] <= 1
        /\ pending[r] = 1 => \A w \in Workers : exec[w].run # r
        /\ \A v, w \in Workers : exec[v].run = r /\ exec[w].run = r => v = w
        /\ Waiting(r) \/ plan[r] # "none" => ~Placed(r)

\* The steps a thread has still to do are not completed.
StepsAhead ==
    \A w \in Workers :
        LET t == exec[w] IN
        /\ t.pc = "opening" => \A j \in Steps : step[t.run][j] = "completed" => j \in t.done
        /\ t.pc \in {"check", "attempt", "executing"} =>
              /\ t.at \notin t.done
              /\ \A j \in Steps : j >= t.at /\ j \notin t.done => step[t.run][j] # "completed"

\* A run that can still execute a step is active, unless it was cancelled in the queue.
Coming(r) ==
    \/ pending[r] > 0 \/ Waiting(r) \/ plan[r] # "none"
    \/ \E w \in Workers : exec[w].run = r /\ exec[w].pc = "opening"
Live ==
    /\ \A r \in Runs : Coming(r) => Active(r) \/ r \in early
    /\ \A w \in Workers : exec[w].pc \in {"check", "attempt", "executing"} => Active(exec[w].run)
    /\ \A w \in Workers : exec[w].pc \notin {"idle", "opening"} => status[exec[w].run] # "queued"

\* A cancelled run begins at most the step whose check came before the cancellation.
InStep(w) == exec[w].pc \in {"attempt", "executing"}
Stopped ==
    \A r \in Runs :
        /\ status[r] = "queued" => late[r] = {}
        /\ r \in early => cancel[r] /\ late[r] = {}
        /\ late[r] # {} => cancel[r] /\ \A i, j \in late[r] : i = j
        /\ \A w \in Workers : exec[w].run = r /\ InStep(w) =>
              r \notin early /\ \A i \in late[r] : i = exec[w].at

\* Of the scheduled runs one is active, but for those that were cancelled in the queue.
Hot(r) == origin[r] \in Nat /\ Active(r) /\ r \notin early
OneScheduled ==
    /\ \A q, r \in Runs : Hot(q) /\ Hot(r) => q = r
    /\ spc = "start" => \A r \in Runs : ~Hot(r)

Undisturbed == Booting /\ OnePlace /\ StepsAhead /\ Live /\ Stopped /\ OneScheduled

IInv == Typed /\ Rows /\ CutOff /\ (~retried => Undisturbed) /\ (retried => LateResume)

USE RunsNat, StepsNat, KeysDistinct DEF Runs, Steps

-----------------------------------------------------------------------------
(* The loop of a thread.                                                       *)

LEMMA LeastStep == ASSUME NEW S \in SUBSET Steps, S # {} PROVE \E j \in S : \A k \in S : j <= k
<1>1. PICK j \in S : \A k \in S : <<k, j>> \notin OpToRel(<, Nat)
    <2>1. S \subseteq Nat
        OBVIOUS
    <2> QED BY <2>1, NatLessThanWellFounded, WFMin, Zenon
<1>2. ASSUME NEW k \in S PROVE ~(k < j)
    <2>1. k \in Nat /\ j \in Nat
        OBVIOUS
    <2>2. <<k, j>> \in Nat \X Nat
        BY <2>1
    <2>3. k < j => <<k, j>> \in {ss \in Nat \X Nat : ss[1] < ss[2]}
        BY <2>1, <2>2
    <2> QED BY <1>1, <2>3 DEF OpToRel
<1> QED BY <1>2

LEMMA FinishingThread ==
    ASSUME NEW t \in ThreadRecord, NEW o \in Terminal
    PROVE  /\ Finishing(t, o) \in ThreadRecord /\ Finishing(t, o).run = t.run
           /\ Finishing(t, o).pc = "finishing" /\ Finishing(t, o).outcome = o
<1>1. IdleThread \in ThreadRecord
    BY DEF IdleThread, ThreadRecord
<1> HIDE DEF IdleThread
<1> QED BY <1>1 DEF Finishing, ThreadRecord

\* The thread goes on with a step that is not completed, or finishes.
LEMMA GoesOn ==
    ASSUME NEW t \in ThreadRecord, t.run \in Runs, NEW i \in Nat
    PROVE  /\ GoOn(t, i) \in ThreadRecord /\ GoOn(t, i).run = t.run
           /\ \/ GoOn(t, i).pc = "finishing" /\ GoOn(t, i).outcome \in Terminal
              \/ /\ GoOn(t, i).pc = "check" /\ GoOn(t, i).done = t.done
                 /\ GoOn(t, i).at >= i /\ GoOn(t, i).at \notin t.done
<1>1. CASE Remaining(t, i) = {}
    <2> DEFINE o == IF t.warned THEN "completed_with_warnings" ELSE "completed"
    <2>1. GoOn(t, i) = Finishing(t, o) /\ o \in Terminal
        BY <1>1 DEF GoOn, Terminal
    <2> HIDE DEF o
    <2> QED BY <2>1, FinishingThread
<1>2. CASE Remaining(t, i) # {}
    <2> DEFINE n == CHOOSE j \in Remaining(t, i) : \A k \in Remaining(t, i) : j <= k
    <2>1. n \in Remaining(t, i)
        BY <1>2, LeastStep DEF Remaining
    <2>2. n \in Steps /\ n >= i /\ n \notin t.done
        BY <2>1 DEF Remaining
    <2>3. GoOn(t, i) = [t EXCEPT !.pc = "check", !.tries = 0, !.at = n]
        BY <1>2 DEF GoOn
    <2> HIDE DEF n
    <2> DEFINE u == [t EXCEPT !.pc = "check", !.tries = 0, !.at = n]
    <2>4. u \in ThreadRecord
        BY <2>2 DEF ThreadRecord
    <2>5. u.run = t.run /\ u.done = t.done /\ u.at = n /\ u.pc = "check"
        BY DEF ThreadRecord
    <2> HIDE DEF u
    <2> QED BY <2>2, <2>3, <2>4, <2>5 DEF u
<1> QED BY <1>1, <1>2

-----------------------------------------------------------------------------
(* What a thread does with the run it holds.                                   *)

ThreadFrame ==
    UNCHANGED <<cancel, origin, next, pending, requests, scheduler, startup, now, crashes,
                interrupted, early, fired, retried>>

\* A thread w goes on as u and leaves its run with status s, steps f and late steps l.
Moves(w, u, s, f, l) ==
    LET r == exec[w].run IN
    /\ exec[w].pc # "idle" /\ u.pc # "opening"
    /\ u.run = r \/ u = IdleThread
    /\ u.pc = "idle" <=> u.run = None
    /\ u.pc = "finishing" => u.outcome \in Terminal
    /\ exec' = [exec EXCEPT ![w] = u] /\ status' = [status EXCEPT ![r] = s]
    /\ step' = [step EXCEPT ![r] = f] /\ late' = [late EXCEPT ![r] = l]
    /\ ThreadFrame

\* What is written of a run that is held by one thread only.
Fits(w, u, s, f, l) ==
    LET r == exec[w].run
        t == exec[w] IN
    /\ s \in ActiveStatuses => Active(r) \/ r \in early
    /\ s = "queued" => u.pc = "idle" /\ status[r] = "queued"
    /\ u.pc \in {"check", "attempt", "executing"} =>
          /\ s \in ActiveStatuses /\ u.at \notin u.done
          /\ \A j \in Steps : j >= u.at /\ j \notin u.done => f[j] # "completed"
    /\ u.pc \in {"attempt", "executing"} => (InStep(w) /\ u.at = t.at) \/ (~cancel[r] /\ l = {})
    /\ \/ l = late[r]
       \/ l = late[r] \cup {t.at} /\ cancel[r] /\ InStep(w) /\ u.at = t.at

LEMMA ThreadKeeps ==
    ASSUME IInv, NEW w \in Workers, NEW u \in ThreadRecord,
           NEW s \in ActiveStatuses \cup Terminal, NEW f \in [Steps -> StepStatuses],
           NEW l \in SUBSET Steps, Moves(w, u, s, f, l), ~retried => Fits(w, u, s, f, l)
    PROVE  IInv'
<1> DEFINE r == exec[w].run
<1> USE DEF IInv, Moves, ThreadFrame, scheduler, startup
<1>0. r \in Runs /\ Placed(r) /\ interrupted[r] = {} /\ status[r] # "absent"
    BY DEF Typed, Placed, ThreadRecord, Rows, CutOff
<1>1. Typed'
    BY <1>0 DEF Typed
<1>2. \A q \in Runs : Placed(q)' => Placed(q)
    BY DEF Typed, Placed, ThreadRecord, IdleThread
<1>3. Rows'
    BY <1>0, <1>2 DEF Rows, Typed, ActiveStatuses, Terminal
<1>4. CutOff'
    BY <1>0, <1>2 DEF CutOff, Typed, Waiting, Active
<1>5. ASSUME ~retried PROVE Booting' /\ OnePlace'
    <2>1. Undisturbed
        BY <1>5
    <2>2. Booting'
        BY <1>2, <2>1 DEF Undisturbed, Booting
    <2>3. \A q \in Runs : Waiting(q)' <=> Waiting(q)
        BY DEF Waiting
    <2>4. \A q \in Runs, v \in Workers : exec'[v].run = q => exec[v].run = q
        BY DEF Typed, IdleThread, ThreadRecord
    <2>5. OnePlace'
        BY <1>2, <2>1, <2>3, <2>4 DEF Undisturbed, OnePlace
    <2> QED BY <2>2, <2>5
<1>6. ASSUME ~retried PROVE \A v \in Workers : v # w => exec[v].run # r /\ exec'[v] = exec[v]
    BY <1>0, <1>6 DEF Undisturbed, OnePlace, Typed
<1>7. exec'[w] = u /\ status'[r] = s /\ step'[r] = f /\ late'[r] = l
    BY <1>0 DEF Typed
<1>8. \A q \in Runs \ {r} : status'[q] = status[q] /\ step'[q] = step[q] /\ late'[q] = late[q]
    BY DEF Typed
<1>9. ASSUME ~retried PROVE StepsAhead'
    <2> SUFFICES ASSUME NEW v \in Workers PROVE
            /\ exec'[v].pc = "opening" =>
                  \A j \in Steps : step'[exec'[v].run][j] = "completed" => j \in exec'[v].done
            /\ exec'[v].pc \in {"check", "attempt", "executing"} =>
                  /\ exec'[v].at \notin exec'[v].done
                  /\ \A j \in Steps : j >= exec'[v].at /\ j \notin exec'[v].done
                                      => step'[exec'[v].run][j] # "completed"
        BY DEF StepsAhead
    <2>1. CASE v = w
        BY <1>7, <1>9, <2>1 DEF Fits, IdleThread
    <2>2. CASE v # w
        <3>1. exec'[v] = exec[v] /\ (exec[v].pc # "idle" => exec[v].run \in Runs \ {r})
            BY <1>6, <1>9, <2>2 DEF Typed, ThreadRecord
        <3> QED BY <1>8, <1>9, <3>1 DEF Undisturbed, StepsAhead
    <2> QED BY <2>1, <2>2
<1>10. ASSUME ~retried PROVE Live'
    <2>1. ASSUME NEW q \in Runs, Coming(q)' PROVE Active(q)' \/ q \in early
        <3>1. q # r
            BY <1>0, <1>6, <1>7, <1>10, <2>1
               DEF Coming, Waiting, Undisturbed, OnePlace, Booting, Typed, Placed
        <3> QED BY <1>6, <1>7, <1>8, <1>10, <2>1, <3>1
                DEF Coming, Waiting, Undisturbed, Live, Active, Typed
    <2>2. ASSUME NEW v \in Workers PROVE
              /\ exec'[v].pc \in {"check", "attempt", "executing"} => status'[exec'[v].run] \in ActiveStatuses
              /\ exec'[v].pc \notin {"idle", "opening"} => status'[exec'[v].run] # "queued"
        <3>1. CASE v = w
            BY <1>7, <1>10, <3>1 DEF Fits, Active, IdleThread
        <3>2. CASE v # w
            <4>1. exec'[v] = exec[v] /\ (exec[v].pc # "idle" => exec[v].run \in Runs \ {r})
                BY <1>6, <1>10, <3>2 DEF Typed, ThreadRecord
            <4> QED BY <1>8, <1>10, <4>1 DEF Undisturbed, Live, Active
        <3> QED BY <3>1, <3>2
    <2> QED BY <2>1, <2>2 DEF Live, Active
<1>11. ASSUME ~retried PROVE Stopped'
    <2> SUFFICES ASSUME NEW q \in Runs PROVE
            /\ status'[q] = "queued" => late'[q] = {}
            /\ q \in early => cancel[q] /\ late'[q] = {}
            /\ late'[q] # {} => cancel[q] /\ \A i, j \in late'[q] : i = j
            /\ \A v \in Workers : exec'[v].run = q /\ exec'[v].pc \in {"attempt", "executing"} =>
                  q \notin early /\ \A i \in late'[q] : i = exec'[v].at
        BY DEF Stopped, InStep
    <2>1. CASE q # r
        <3>1. ASSUME NEW v \in Workers, exec'[v].run = q PROVE exec'[v] = exec[v]
            <4>1. CASE v = w
                BY <1>7, <2>1, <3>1, <4>1 DEF IdleThread
            <4>2. CASE v # w
                BY <1>6, <1>11, <4>2
            <4> QED BY <4>1, <4>2
        <3>2. status'[q] = status[q] /\ late'[q] = late[q]
            BY <1>8, <2>1
        <3> HIDE DEF Moves, ThreadFrame, r
        <3> QED BY <1>11, <3>1, <3>2 DEF Undisturbed, Stopped, InStep
    <2>2. CASE q = r
        BY <1>0, <1>6, <1>7, <1>11, <2>2 DEF Undisturbed, Stopped, InStep, IdleThread, Fits, Live
    <2> QED BY <2>1, <2>2
<1>12. ASSUME ~retried PROVE OneScheduled'
    <2>1. \A q \in Runs : Hot(q)' => Hot(q)
        BY <1>0, <1>7, <1>8, <1>12 DEF Hot, Active, Fits
    <2> QED BY <1>12, <2>1 DEF Undisturbed, OneScheduled
<1> QED BY <1>1, <1>3, <1>4, <1>5, <1>9, <1>10, <1>11, <1>12 DEF Undisturbed

\* A thread writes the step it is at; what it leaves alone is written as it was.
LEMMA WriteNothing == ASSUME NEW S, NEW T, NEW F \in [S -> T], NEW x \in S
                      PROVE  F = [F EXCEPT ![x] = F[x]]
OBVIOUS

LEMMA ThreadSteps ==
    ASSUME IInv, NEW w \in Workers,
           \/ Begin(w) \/ CheckCancelled(w) \/ CheckPassed(w) \/ Attempt(w)
           \/ StepSucceeds(w) \/ StepRetried(w) \/ StepFails(w) \/ StepRaisesEmpty(w)
           \/ StepCancelled(w) \/ FinishRun(w) \/ WriteRaises(w)
    PROVE  IInv'
<1> DEFINE t == exec[w]
           r == exec[w].run
           Written(x) == [step[r] EXCEPT ![t.at] = x]
<1> USE DEF IInv
<1>1. t \in ThreadRecord /\ t.pc # "idle"
    BY DEF Typed, Begin, CheckCancelled, CheckPassed, Attempt, StepSucceeds, StepRetried, StepFails,
           StepRaisesEmpty, StepCancelled, FinishRun, WriteRaises
<1>2. r \in Runs /\ t.at \in Steps /\ t.at + 1 \in Nat /\ 1 \in Nat /\ status[r] # "absent"
    BY <1>1 DEF Typed, ThreadRecord, Rows, Placed
<1>3. /\ status[r] \in ActiveStatuses \cup Terminal /\ step[r] \in [Steps -> StepStatuses]
      /\ late[r] \in SUBSET Steps
    BY <1>2 DEF Typed
<1>4. /\ status = [status EXCEPT ![r] = status[r]] /\ step = [step EXCEPT ![r] = step[r]]
      /\ late = [late EXCEPT ![r] = late[r]]
    BY <1>2, WriteNothing DEF Typed
<1>5. \A x \in StepStatuses : Written(x) \in [Steps -> StepStatuses]
    BY <1>2, <1>3
<1>6. IdleThread \in ThreadRecord /\ IdleThread.pc = "idle" /\ IdleThread.run = None
    BY DEF IdleThread, ThreadRecord
<1>7. ASSUME ~retried PROVE
          /\ t.pc = "opening" => Active(r) \/ r \in early
          /\ t.pc = "opening" => \A j \in Steps : step[r][j] = "completed" => j \in t.done
          /\ t.pc \in {"check", "attempt", "executing"} => Active(r)
          /\ t.pc \in {"check", "attempt", "executing"} =>
                \A j \in Steps : j >= t.at /\ j \notin t.done => step[r][j] # "completed"
          /\ t.pc # "opening" => status[r] # "queued"
          /\ t.pc \in {"check", "attempt", "executing"} => t.at \notin t.done
    BY <1>1, <1>2, <1>7 DEF Undisturbed, Live, Coming, StepsAhead
<1>8. r # None
    BY <1>2
<1> HIDE DEF IInv
<1>9. ASSUME NEW u \in ThreadRecord, NEW s \in ActiveStatuses \cup Terminal,
             NEW f \in [Steps -> StepStatuses], NEW l \in SUBSET Steps,
             Moves(w, u, s, f, l), ~retried => Fits(w, u, s, f, l)
      PROVE  IInv'
    BY <1>9, ThreadKeeps
\* It goes on with the step after the one it was at.
<1>22. ASSUME ~retried, t.pc \in {"check", "executing"}, NEW x \in ThreadRecord, x.run = r,
              x.done = t.done, NEW f, \A j \in Steps : j > t.at => f[j] = step[r][j]
       PROVE  Fits(w, GoOn(x, t.at + 1), status[r], f, late[r])
    <2> DEFINE u == GoOn(x, t.at + 1)
    <2>1. /\ u.pc \in {"finishing", "check"}
          /\ u.pc = "check" => u.done = t.done /\ u.at >= t.at + 1 /\ u.at \notin t.done
          /\ u \in ThreadRecord
        BY <1>2, <1>22, GoesOn
    <2>2. \A j \in Steps : u.pc = "check" /\ j >= u.at => j > t.at /\ j >= t.at
        <3>1. u.at \in Int /\ t.at \in Int
            BY <1>2, <2>1 DEF ThreadRecord
        <3> QED BY <2>1, <3>1
    <2>3. Active(r) /\ status[r] # "queued"
        BY <1>7, <1>22
    <2>4. \A j \in Steps : j >= t.at /\ j \notin t.done => step[r][j] # "completed"
        BY <1>7, <1>22
    <2> HIDE DEF u
    <2>5. ASSUME u.pc = "check", NEW j \in Steps, j >= u.at, j \notin u.done PROVE f[j] # "completed"
        BY <1>22, <2>1, <2>2, <2>4, <2>5
    <2>6. Fits(w, u, status[r], f, late[r])
        BY <2>1, <2>3, <2>5 DEF Fits, Active
    <2> QED BY <2>6 DEF u
<1>23. ASSUME NEW x PROVE \A j \in Steps : j > t.at => Written(x)[j] = step[r][j]
    BY <1>2, <1>3
<1> USE DEF Moves, Rest, ThreadFrame, scheduler, startup, world, ActiveStatuses
<1>10. CASE Begin(w)
    <2> DEFINE u == GoOn(t, 1)
    <2>1. Moves(w, u, "running", step[r], late[r]) /\ u \in ThreadRecord
        BY <1>1, <1>2, <1>4, <1>8, <1>10, GoesOn DEF Begin
    <2>2. ASSUME ~retried PROVE Fits(w, u, "running", step[r], late[r])
        BY <1>1, <1>2, <1>7, <1>10, <2>2, GoesOn DEF Begin, Fits
    <2> QED BY <1>3, <1>9, <2>1, <2>2
<1>11. CASE CheckCancelled(w)
    <2> DEFINE u == Finishing(t, "cancelled")
    <2>0. "cancelled" \in Terminal /\ "cancelled" \in StepStatuses
        BY DEF Terminal, StepStatuses
    <2>1. Moves(w, u, status[r], Written("cancelled"), late[r]) /\ u \in ThreadRecord
        BY <1>1, <1>2, <1>4, <1>8, <1>11, <2>0, FinishingThread DEF CheckCancelled, SetStep
    <2>2. ASSUME ~retried PROVE Fits(w, u, status[r], Written("cancelled"), late[r])
        BY <1>1, <1>7, <1>11, <2>0, <2>2, FinishingThread DEF CheckCancelled, Fits, Active
    <2> QED BY <1>3, <1>5, <1>9, <2>0, <2>1, <2>2
<1>12. CASE CheckPassed(w)
    <2>1. CASE SetStep(w, "skipped") /\ exec' = [exec EXCEPT ![w] = GoOn(@, exec[w].at + 1)]
        <3> DEFINE u == GoOn(t, t.at + 1)
        <3>0. "skipped" \in StepStatuses
            BY DEF StepStatuses
        <3>1. Moves(w, u, status[r], Written("skipped"), late[r]) /\ u \in ThreadRecord
            BY <1>1, <1>2, <1>4, <1>8, <1>12, <2>1, GoesOn DEF CheckPassed, SetStep
        <3>2. ASSUME ~retried PROVE Fits(w, u, status[r], Written("skipped"), late[r])
            BY <1>1, <1>12, <1>22, <1>23, <3>2 DEF CheckPassed
        <3> QED BY <1>3, <1>5, <1>9, <3>0, <3>1, <3>2
    <2>2. CASE exec' = [exec EXCEPT ![w].pc = "attempt"] /\ UNCHANGED step
        <3> DEFINE u == [t EXCEPT !.pc = "attempt"]
        <3>1. u \in ThreadRecord /\ u.run = r /\ u.pc = "attempt" /\ u.at = t.at /\ u.done = t.done
            BY <1>1 DEF ThreadRecord
        <3>2. Moves(w, u, status[r], step[r], late[r])
            BY <1>1, <1>4, <1>8, <1>12, <2>2, <3>1 DEF CheckPassed
        <3>3. ASSUME ~retried PROVE late[r] = {}
            BY <1>2, <1>12, <3>3 DEF CheckPassed, CancelSeen, IInv, Undisturbed, Stopped
        <3>4. ASSUME ~retried PROVE Fits(w, u, status[r], step[r], late[r])
            BY <1>7, <1>12, <3>1, <3>3, <3>4 DEF CheckPassed, CancelSeen, Fits, Active
        <3> QED BY <1>3, <1>9, <3>1, <3>2, <3>4
    <2> QED BY <1>12, <2>1, <2>2 DEF CheckPassed
<1>13. CASE Attempt(w)
    <2> DEFINE u == [t EXCEPT !.pc = "executing", !.tries = @ + 1]
               l == IF cancel[r] THEN late[r] \cup {t.at} ELSE late[r]
    <2>0. "running" \in StepStatuses
        BY DEF StepStatuses
    <2>1. u \in ThreadRecord /\ u.run = r /\ u.pc = "executing" /\ u.at = t.at /\ u.done = t.done
        <3>1. t.tries + 1 \in Nat
            BY <1>1 DEF ThreadRecord
        <3> QED BY <1>1, <3>1 DEF ThreadRecord
    <2>2. l \in SUBSET Steps /\ late' = [late EXCEPT ![r] = l]
        BY <1>2, <1>3, <1>4, <1>13 DEF Attempt
    <2> HIDE DEF l
    <2>3. Moves(w, u, "running", Written("running"), l)
        BY <1>1, <1>8, <1>13, <2>1, <2>2 DEF Attempt, SetStep
    <2>4. ASSUME ~retried PROVE Fits(w, u, "running", Written("running"), l)
        BY <1>2, <1>3, <1>7, <1>13, <2>1, <2>4 DEF Attempt, Fits, InStep, l
    <2> QED BY <1>5, <1>9, <2>0, <2>1, <2>2, <2>3, <2>4
<1>14. CASE StepSucceeds(w)
    <2> DEFINE u == GoOn(t, t.at + 1)
    <2>0. "completed" \in StepStatuses
        BY DEF StepStatuses
    <2>1. Moves(w, u, status[r], Written("completed"), late[r]) /\ u \in ThreadRecord
        BY <1>1, <1>2, <1>4, <1>8, <1>14, GoesOn DEF StepSucceeds, SetStep
    <2>2. ASSUME ~retried PROVE Fits(w, u, status[r], Written("completed"), late[r])
        BY <1>1, <1>14, <1>22, <1>23, <2>2 DEF StepSucceeds
    <2> QED BY <1>3, <1>5, <1>9, <2>0, <2>1, <2>2
<1>15. CASE StepRetried(w)
    <2> DEFINE u == [t EXCEPT !.pc = "attempt"]
    <2>1. u \in ThreadRecord /\ u.run = r /\ u.pc = "attempt" /\ u.at = t.at /\ u.done = t.done
        BY <1>1 DEF ThreadRecord
    <2>2. Moves(w, u, status[r], step[r], late[r])
        BY <1>1, <1>4, <1>8, <1>15, <2>1 DEF StepRetried, rows
    <2>3. ASSUME ~retried PROVE Fits(w, u, status[r], step[r], late[r])
        BY <1>7, <1>15, <2>1, <2>3 DEF StepRetried, Fits, Active, InStep
    <2> QED BY <1>3, <1>9, <2>1, <2>2, <2>3
<1>16. CASE StepFails(w)
    <2>1. CASE SetStep(w, "failed") /\ exec' = [exec EXCEPT ![w] = Finishing(@, "failed")]
        <3> DEFINE u == Finishing(t, "failed")
        <3>0. "failed" \in Terminal /\ "failed" \in StepStatuses
            BY DEF Terminal, StepStatuses
        <3>1. Moves(w, u, status[r], Written("failed"), late[r]) /\ u \in ThreadRecord
            BY <1>1, <1>2, <1>4, <1>8, <1>16, <2>1, <3>0, FinishingThread DEF StepFails, SetStep
        <3>2. ASSUME ~retried PROVE Fits(w, u, status[r], Written("failed"), late[r])
            BY <1>1, <1>7, <1>16, <3>0, <3>2, FinishingThread DEF StepFails, Fits, Active
        <3> QED BY <1>3, <1>5, <1>9, <3>0, <3>1, <3>2
    <2>2. CASE SetStep(w, "warning")
               /\ exec' = [exec EXCEPT ![w] = GoOn([@ EXCEPT !.warned = TRUE], exec[w].at + 1)]
        <3> DEFINE x == [t EXCEPT !.warned = TRUE]
                   u == GoOn(x, t.at + 1)
        <3>0. "warning" \in StepStatuses
            BY DEF StepStatuses
        <3>1. x \in ThreadRecord /\ x.run = r /\ x.done = t.done
            BY <1>1 DEF ThreadRecord
        <3>2. exec' = [exec EXCEPT ![w] = u]
            BY <2>2
        <3> HIDE DEF x
        <3>3. Moves(w, u, status[r], Written("warning"), late[r]) /\ u \in ThreadRecord
            BY <1>1, <1>2, <1>4, <1>8, <1>16, <2>2, <3>1, <3>2, GoesOn DEF StepFails, SetStep
        <3>4. ASSUME ~retried PROVE Fits(w, u, status[r], Written("warning"), late[r])
            BY <1>16, <1>22, <1>23, <3>1, <3>4 DEF StepFails
        <3> QED BY <1>3, <1>5, <1>9, <3>0, <3>3, <3>4
    <2> QED BY <1>16, <2>1, <2>2 DEF StepFails
<1>17. CASE StepRaisesEmpty(w)
    <2> DEFINE u == GoOn(t, t.at + 1)
    <2>1. Moves(w, u, status[r], step[r], late[r]) /\ u \in ThreadRecord
        BY <1>1, <1>2, <1>4, <1>8, <1>17, GoesOn DEF StepRaisesEmpty, rows
    <2>2. ASSUME ~retried PROVE Fits(w, u, status[r], step[r], late[r])
        BY <1>1, <1>17, <1>22, <2>2 DEF StepRaisesEmpty
    <2> QED BY <1>3, <1>9, <2>1, <2>2
<1>18. CASE StepCancelled(w)
    <2> DEFINE u == Finishing(t, "cancelled")
    <2>0. "cancelled" \in Terminal /\ "cancelled" \in StepStatuses
        BY DEF Terminal, StepStatuses
    <2>1. Moves(w, u, status[r], Written("cancelled"), late[r]) /\ u \in ThreadRecord
        BY <1>1, <1>2, <1>4, <1>8, <1>18, <2>0, FinishingThread DEF StepCancelled, SetStep
    <2>2. ASSUME ~retried PROVE Fits(w, u, status[r], Written("cancelled"), late[r])
        BY <1>1, <1>7, <1>18, <2>0, <2>2, FinishingThread DEF StepCancelled, Fits, Active
    <2> QED BY <1>3, <1>5, <1>9, <2>0, <2>1, <2>2
<1>19. t.pc = "finishing" => t.outcome \in Terminal
    BY DEF IInv, Typed
<1>20. CASE FinishRun(w)
    <2>1. Moves(w, IdleThread, t.outcome, step[r], late[r])
        BY <1>1, <1>4, <1>6, <1>20 DEF FinishRun
    <2>2. ASSUME ~retried PROVE Fits(w, IdleThread, t.outcome, step[r], late[r])
        BY <1>6, <1>19, <1>20 DEF FinishRun, Fits, Terminal
    <2>3. t.outcome \in ActiveStatuses \cup Terminal
        BY <1>19, <1>20 DEF FinishRun
    <2> HIDE DEF r, t
    <2> QED BY <1>3, <1>6, <1>9, <2>1, <2>2, <2>3
<1>21. CASE WriteRaises(w)
    <2>0. "needs_attention" \in Terminal
        BY DEF Terminal
    <2> DEFINE u == IF t.pc = "opening" \/ t.outcome = "needs_attention"
                    THEN IdleThread ELSE Finishing(t, "needs_attention")
               s == IF UNCHANGED status THEN status[r] ELSE t.outcome
    <2>1. /\ u \in ThreadRecord /\ u.pc \in {"idle", "finishing"} /\ (u.pc = "idle" => u = IdleThread)
          /\ (u.pc = "finishing" => u.run = r /\ u.outcome \in Terminal /\ t.pc # "opening")
        BY <1>1, <1>6, <2>0, FinishingThread
    <2>2. status' = [status EXCEPT ![r] = s] /\ s \in ActiveStatuses \cup Terminal
          /\ (s = status[r] \/ s \in Terminal)
        BY <1>3, <1>4, <1>19, <1>21 DEF WriteRaises
    <2>3. exec' = [exec EXCEPT ![w] = u]
        BY <1>21 DEF WriteRaises
    <2> HIDE DEF u, s
    <2>4. Moves(w, u, s, step[r], late[r])
        BY <1>1, <1>4, <1>6, <1>8, <1>21, <2>1, <2>2, <2>3 DEF WriteRaises, history
    <2>5. ASSUME ~retried PROVE Fits(w, u, s, step[r], late[r])
        BY <1>7, <2>1, <2>2, <2>5 DEF Fits, Active, Terminal
    <2> QED BY <1>3, <1>9, <2>1, <2>2, <2>4, <2>5
<1> QED BY <1>10, <1>11, <1>12, <1>13, <1>14, <1>15, <1>16, <1>17, <1>18, <1>20, <1>21

-----------------------------------------------------------------------------
(* What the other steps leave alone.                                           *)

LEMMA CutOffKept ==
    ASSUME CutOff, UNCHANGED <<interrupted, step>>,
           \A q \in Runs : interrupted[q] # {} =>
               /\ Placed(q)' => Placed(q)
               /\ Waiting(q)' => Waiting(q)
               /\ plan'[q] = "submit" => plan[q] = "submit"
               /\ Active(q)' => Active(q)
    PROVE  CutOff'
BY DEF CutOff

LEMMA StepsKept == ASSUME StepsAhead, UNCHANGED <<exec, step>> PROVE StepsAhead'
BY DEF StepsAhead

LEMMA LiveKept ==
    ASSUME Live, UNCHANGED <<exec, early>>,
           \A w \in Workers : exec[w].pc # "idle" => status'[exec[w].run] = status[exec[w].run],
           \A q \in Runs : Coming(q)' => Active(q)' \/ (Coming(q) /\ status'[q] = status[q])
    PROVE  Live'
BY DEF Live, Active

LEMMA StoppedKept ==
    ASSUME Stopped, UNCHANGED <<cancel, late, early, exec>>,
           \A q \in Runs : status'[q] = "queued" => status[q] = "queued" \/ late[q] = {}
    PROVE  Stopped'
BY DEF Stopped, InStep

LEMMA ScheduledKept ==
    ASSUME OneScheduled, spc' = "start" => spc = "start",
           \A q \in Runs : Hot(q)' => Hot(q)
    PROVE  OneScheduled'
BY DEF OneScheduled

\* A step that only passes runs on between those who submit them, and the clock.
LEMMA PassedOn ==
    ASSUME IInv, UNCHANGED <<rows, exec, early, late, interrupted, retried>>, Typed', Rows',
           \A q \in Runs : interrupted[q] # {} =>
               (Placed(q)' => Placed(q)) /\ (Waiting(q)' => Waiting(q))
               /\ (plan'[q] = "submit" => plan[q] = "submit"),
           ~retried => Booting' /\ OnePlace' /\ \A q \in Runs : Coming(q)' => Coming(q),
           spc' = "start" => spc = "start" \/ ~HasActiveRun
    PROVE  IInv'
<1> USE DEF IInv, rows
<1>1. CutOff'
    BY CutOffKept DEF Active
<1>2. ASSUME ~retried PROVE StepsAhead' /\ Live' /\ Stopped'
    BY <1>2, StepsKept, LiveKept, StoppedKept DEF Undisturbed
<1>3. ASSUME ~retried PROVE OneScheduled'
    BY <1>3 DEF Undisturbed, OneScheduled, Hot, HasActiveRun, Active
<1> QED BY <1>1, <1>2, <1>3 DEF Undisturbed

-----------------------------------------------------------------------------
(* New rows.                                                                   *)

\* The cron point or the key is new, and so is the row.
LEMMA NewRow ==
    ASSUME IInv, NEW r \in Runs, NEW key \in Keys \cup Nat \cup {None},
           NEW s \in {"queued", "skipped"}, ~Exists(key), CreateRun(r, key, s)
    PROVE  /\ origin[r] = None /\ ~Placed(r) /\ r \notin requests /\ plan[r] = "none"
           /\ interrupted[r] = {} /\ late[r] = {} /\ ~Active(r)
           /\ status' \in [Runs -> ActiveStatuses \cup Terminal \cup {"absent"}]
           /\ origin' \in [Runs -> Keys \cup Nat \cup {None}]
           /\ status'[r] = s /\ origin'[r] = key
           /\ \A q \in Runs \ {r} : status'[q] = status[q] /\ origin'[q] = origin[q]
           /\ \A p, q \in Runs : origin'[p] = origin'[q] /\ origin'[p] # None => p = q
<1> USE DEF IInv, CreateRun, IsNewRow
<1>1. /\ origin[r] = None /\ ~Placed(r) /\ r \notin requests /\ plan[r] = "none"
      /\ interrupted[r] = {} /\ late[r] = {}
    BY DEF Rows
<1>2. ~Active(r) /\ s \in ActiveStatuses \cup Terminal
    BY DEF Active, ActiveStatuses, Terminal
<1>3. /\ status' \in [Runs -> ActiveStatuses \cup Terminal \cup {"absent"}]
      /\ origin' \in [Runs -> Keys \cup Nat \cup {None}]
      /\ status'[r] = s /\ origin'[r] = key
      /\ \A q \in Runs \ {r} : status'[q] = status[q] /\ origin'[q] = origin[q]
    BY <1>2 DEF Typed
<1>4. key # None => \A q \in Runs : origin[q] # key
    BY DEF Exists, Rows
<1>5. \A p, q \in Runs : origin'[p] = origin'[q] /\ origin'[p] # None => p = q
    <2> SUFFICES ASSUME NEW p \in Runs, NEW q \in Runs, origin'[p] = origin'[q], origin'[p] # None
                 PROVE  p = q
        OBVIOUS
    <2>1. CASE p # r /\ q # r
        BY <1>3, <2>1 DEF Rows
    <2>2. CASE p = r \/ q = r
        BY <1>3, <1>4, <2>2
    <2> QED BY <2>1, <2>2
<1> HIDE DEF IInv, CreateRun
<1> QED BY <1>1, <1>2, <1>3, <1>4, <1>5

\* A request or the scheduler makes the row it is going to submit, or one that is skipped.
LEMMA RowIsMade ==
    ASSUME IInv, NEW r \in Runs, NEW key \in Keys \cup Nat \cup {None},
           NEW s \in {"queued", "skipped"}, ~Exists(key), CreateRun(r, key, s),
           Typed', UNCHANGED <<pending, exec, plan, startup, interrupted, early, late, retried, fired>>,
           requests' \in {requests, requests \cup {r}},
           r \in requests' => key \notin Nat /\ s = "queued",
           spc' = "submit" => slot' = slot /\ s = "queued" /\ (spc = "submit" \/ slot = key),
           spc' \in {"submit", "advance"} =>
               slot' = slot /\ (spc \in {"submit", "advance"} \/ slot = key),
           spc' = "start" => spc = "start" /\ key \notin Nat,
           key \in Nat /\ s = "queued" => spc = "start",
           ~retried => boot = "done"
    PROVE  IInv'
<1> USE DEF IInv, startup
<1>1. /\ origin[r] = None /\ ~Placed(r) /\ r \notin requests /\ plan[r] = "none"
      /\ interrupted[r] = {} /\ late[r] = {} /\ ~Active(r)
      /\ status'[r] = s /\ origin'[r] = key
      /\ \A q \in Runs \ {r} : status'[q] = status[q] /\ origin'[q] = origin[q]
      /\ \A p, q \in Runs : origin'[p] = origin'[q] /\ origin'[p] # None => p = q
    BY NewRow
<1>2. UNCHANGED <<cancel, step>>
    BY DEF CreateRun
<1>3. \A q \in Runs : Placed(q)' <=> Placed(q)
    BY DEF Placed
<1>4. \A q \in Runs \ {r} : Waiting(q)' => Waiting(q)
    <2> SUFFICES ASSUME NEW q \in Runs \ {r}, Waiting(q)' PROVE Waiting(q)
        OBVIOUS
    <2>1. CASE q \in requests'
        BY <2>1 DEF Waiting
    <2>2. CASE spc' = "submit" /\ origin'[q] = slot'
        <3>1. slot' = slot /\ slot # None
            BY <2>2 DEF Typed
        <3>2. spc = "submit"
            BY <1>1, <2>2, <3>1
        <3> QED BY <1>1, <2>2, <3>1, <3>2 DEF Waiting
    <2> QED BY <2>1, <2>2 DEF Waiting
<1>5. \A q \in Runs \ {r} : Active(q)' <=> Active(q)
    BY <1>1 DEF Active
<1>6. s = "queued" => Active(r)'
    BY <1>1 DEF Active, ActiveStatuses
<1>7. Rows'
    <2>1. \A q \in Runs : status'[q] = "absent" => q # r
        BY <1>1
    <2>2. \A q \in Runs : origin[q] # None => q # r /\ origin'[q] = origin[q]
        BY <1>1
    <2>3. spc' \in {"submit", "advance"} => \E q \in Runs : origin'[q] = slot'
        BY <1>1, <2>2 DEF Rows, Typed
    <2>4. \A t \in fired' : \E q \in Runs : origin'[q] = t
        BY <2>2 DEF Rows, Typed
    <2>5. \A q \in requests' : origin'[q] \notin Nat
        <3>1. \A q \in requests : q # r /\ origin'[q] = origin[q] /\ origin[q] \notin Nat
            BY <1>1 DEF Rows, Typed
        <3>2. r \in requests' => origin'[r] \notin Nat
            BY <1>1
        <3> QED BY <3>1, <3>2
    <2> QED BY <1>1, <1>3, <2>1, <2>3, <2>4, <2>5 DEF Rows
<1>8. CutOff'
    BY <1>1, <1>2, <1>3, <1>4, <1>5, CutOffKept
<1>9. ASSUME ~retried PROVE Booting' /\ OnePlace'
    <2>1. Booting'
        BY <1>3, <1>9 DEF Undisturbed, Booting
    <2>2. OnePlace'
        <3> SUFFICES ASSUME NEW q \in Runs PROVE
                /\ pending[q] <= 1
                /\ pending[q] = 1 => \A w \in Workers : exec[w].run # q
                /\ \A v, w \in Workers : exec[v].run = q /\ exec[w].run = q => v = w
                /\ Waiting(q)' \/ plan[q] # "none" => ~Placed(q)
            BY <1>3 DEF OnePlace
        <3> QED BY <1>1, <1>4, <1>9 DEF Undisturbed, OnePlace
    <2> QED BY <2>1, <2>2
<1>10. ASSUME ~retried PROVE StepsAhead' /\ Live' /\ Stopped'
    <2>1. \A w \in Workers : exec[w].pc # "idle" => exec[w].run \in Runs \ {r}
        BY <1>1 DEF Typed, ThreadRecord, Placed
    <2>2. \A q \in Runs : Coming(q)' => Active(q)' \/ (Coming(q) /\ status'[q] = status[q])
        <3> SUFFICES ASSUME NEW q \in Runs, Coming(q)' PROVE Active(q)' \/ (Coming(q) /\ status'[q] = status[q])
            OBVIOUS
        <3>1. CASE q = r
            <4>1. Waiting(r)'
                BY <1>1, <2>1, <3>1 DEF Coming, Placed, Typed
            <4>2. s = "queued"
                BY <1>1, <4>1 DEF Waiting, Typed
            <4> QED BY <1>6, <3>1, <4>2
        <3>2. CASE q # r
            BY <1>1, <1>4, <3>2 DEF Coming
        <3> QED BY <3>1, <3>2
    <2>3. Live'
        BY <1>1, <1>10, <2>1, <2>2, LiveKept DEF Undisturbed
    <2>4. Stopped'
        BY <1>1, <1>2, <1>10, StoppedKept DEF Undisturbed
    <2> QED BY <1>2, <1>10, <2>3, <2>4, StepsKept DEF Undisturbed
<1>11. ASSUME ~retried PROVE OneScheduled'
    <2>1. \A q \in Runs : Hot(q)' => Hot(q) \/ (q = r /\ key \in Nat /\ spc = "start")
        BY <1>1, <1>5 DEF Hot, Active, ActiveStatuses
    <2>2. spc' = "start" => spc = "start" /\ key \notin Nat
        OBVIOUS
    <2> QED BY <1>11, <2>1, <2>2 DEF Undisturbed, OneScheduled
<1> QED BY <1>7, <1>8, <1>9, <1>10, <1>11 DEF Undisturbed

-----------------------------------------------------------------------------
(* The steps of requests and of the scheduler.                                 *)

LEMMA RequestStep ==
    ASSUME IInv, NEW r \in Runs, NEW key \in Keys \cup {None}, RequestRun(r, key) PROVE IInv'
<1> USE DEF RequestRun
<1>1. CreateRun(r, key, "queued") /\ ~Exists(key)
    OBVIOUS
<1>2. UNCHANGED <<next, pending, exec, scheduler, startup, now, interrupted, late, early, fired, retried>>
      /\ requests' = requests \cup {r}
    BY DEF world, history
<1>3. Typed'
    <2>1. /\ status' \in [Runs -> ActiveStatuses \cup Terminal \cup {"absent"}]
          /\ origin' \in [Runs -> Keys \cup Nat \cup {None}]
        BY <1>1, NewRow
    <2> QED BY <1>1, <1>2, <2>1 DEF Typed, IInv, CreateRun, scheduler, startup
<1>4. key \notin Nat
    OBVIOUS
<1>5. ~retried => boot = "done"
    BY DEF IInv, Undisturbed, Booting
<1> QED BY <1>1, <1>2, <1>3, <1>4, <1>5, RowIsMade DEF startup, scheduler

LEMMA SubmitStep == ASSUME IInv, NEW r \in Runs, SubmitRequest(r) \/ RequestFails(r) PROVE IInv'
<1> USE DEF Submit
<1>1. /\ UNCHANGED <<rows, exec, early, late, interrupted, retried, fired, next, now, scheduler, startup>>
      /\ r \in requests /\ requests' = requests \ {r}
      /\ pending' = [pending EXCEPT ![r] = @ + 1] \/ pending' = pending
    BY DEF SubmitRequest, RequestFails, world, history
<1>2. pending' \in [Runs -> Nat] /\ \A q \in Runs \ {r} : pending'[q] = pending[q]
    <2>1. pending \in [Runs -> Nat] /\ pending[r] + 1 \in Nat
        BY DEF IInv, Typed
    <2> QED BY <1>1, <2>1
<1>3. Typed'
    BY <1>1, <1>2 DEF IInv, Typed, rows, scheduler, startup
<1>4. \A q \in Runs \ {r} : (Placed(q)' <=> Placed(q)) /\ (Waiting(q)' <=> Waiting(q))
    BY <1>1, <1>2 DEF Placed, Waiting, rows, scheduler
<1>5. Waiting(r) /\ ~Waiting(r)' /\ status[r] # "absent" /\ interrupted[r] = {}
    BY <1>1 DEF Waiting, IInv, Rows, CutOff, Typed, rows, scheduler
<1>6. Rows'
    BY <1>1, <1>4, <1>5 DEF IInv, Rows, rows, scheduler, startup
<1>7. ASSUME ~retried PROVE Booting' /\ OnePlace'
    <2>1. ~Placed(r) /\ plan[r] = "none" /\ boot = "done"
        BY <1>1, <1>5, <1>7 DEF IInv, Undisturbed, Booting, OnePlace
    <2>2. Booting'
        BY <1>1, <1>7, <2>1 DEF IInv, Undisturbed, Booting, startup, scheduler
    <2>3. pending'[r] <= 1 /\ \A w \in Workers : exec[w].run # r
        BY <1>1, <2>1 DEF Placed, IInv, Typed
    <2>4. OnePlace'
        <3> SUFFICES ASSUME NEW q \in Runs PROVE
                /\ pending'[q] <= 1
                /\ pending'[q] = 1 => \A w \in Workers : exec[w].run # q
                /\ \A v, w \in Workers : exec[v].run = q /\ exec[w].run = q => v = w
                /\ Waiting(q)' \/ plan[q] # "none" => ~Placed(q)'
            BY <1>1 DEF OnePlace, startup
        <3>1. CASE q = r
            BY <1>5, <2>1, <2>3, <3>1
        <3>2. CASE q # r
            BY <1>2, <1>4, <1>7, <3>2 DEF IInv, Undisturbed, OnePlace
        <3> QED BY <3>1, <3>2
    <2> QED BY <2>2, <2>4
<1>8. \A q \in Runs : Coming(q)' => Coming(q)
    BY <1>1, <1>2, <1>4, <1>5 DEF Coming, startup
<1> QED BY <1>1, <1>3, <1>4, <1>5, <1>6, <1>7, <1>8, PassedOn DEF scheduler, startup

\* The cancellation of a run that waits for its thread is final in the row only.
LEMMA CancelStep == ASSUME IInv, NEW r \in Runs, RequestCancel(r) PROVE IInv'
<1> USE DEF IInv, RequestCancel, rows, scheduler, startup, world
<1>1. /\ Active(r) /\ cancel' = [cancel EXCEPT ![r] = TRUE]
      /\ \/ status[r] = "queued" /\ status' = [status EXCEPT ![r] = "cancelled"] /\ early' = early \cup {r}
         \/ status[r] # "queued" /\ status' = [status EXCEPT ![r] = "cancelling"] /\ early' = early
    OBVIOUS
<1>2. Typed'
    BY <1>1 DEF Typed, ActiveStatuses, Terminal
<1>3. Rows'
    BY <1>1 DEF Rows, Typed, Placed, ActiveStatuses, Active
<1>4. CutOff'
    BY <1>1 DEF CutOff, Typed, Placed, Waiting, Active, ActiveStatuses
<1>5. ASSUME ~retried PROVE Booting' /\ OnePlace' /\ StepsAhead'
    BY <1>5 DEF Undisturbed, Booting, OnePlace, StepsAhead, Placed, Waiting
<1>6. ASSUME ~retried PROVE Live'
    BY <1>1, <1>6 DEF Undisturbed, Live, Coming, Waiting, Typed, Active, ActiveStatuses, Terminal
<1>7. ASSUME ~retried PROVE Stopped'
    <2> SUFFICES ASSUME NEW q \in Runs PROVE
            /\ status'[q] = "queued" => late[q] = {}
            /\ q \in early' => cancel'[q] /\ late[q] = {}
            /\ late[q] # {} => cancel'[q] /\ \A i, j \in late[q] : i = j
            /\ \A w \in Workers : exec[w].run = q /\ InStep(w) =>
                  q \notin early' /\ \A i \in late[q] : i = exec[w].at
        BY DEF Stopped, InStep
    <2>1. CASE q # r
        BY <1>1, <1>7, <2>1 DEF Undisturbed, Stopped, Typed
    <2>2. CASE q = r
        <3>1. cancel'[r] /\ (status[r] = "queued" => late[r] = {}) /\ (r \in early => late[r] = {})
            BY <1>1, <1>7 DEF Undisturbed, Stopped, Typed
        <3>2. \A i, j \in late[r] : i = j
            BY <1>7 DEF Undisturbed, Stopped
        <3>3. \A w \in Workers : exec[w].run = r /\ InStep(w) =>
                  status[r] # "queued" /\ r \notin early /\ \A i \in late[r] : i = exec[w].at
            BY <1>7 DEF Undisturbed, Stopped, Live, InStep
        <3>4. status'[r] # "queued" /\ (r \in early' => r \in early \/ status[r] = "queued")
            BY <1>1 DEF Typed
        <3> HIDE DEF RequestCancel, IInv
        <3> QED BY <2>2, <3>1, <3>2, <3>3, <3>4
    <2> QED BY <2>1, <2>2
<1>8. ASSUME ~retried PROVE OneScheduled'
    BY <1>1, <1>8 DEF Undisturbed, OneScheduled, Hot, Typed, Active, ActiveStatuses
<1> QED BY <1>2, <1>3, <1>4, <1>5, <1>6, <1>7, <1>8 DEF Undisturbed

\* The scheduler decides, and starts nothing while a run is active.
LEMMA DueStep == ASSUME IInv, SchedulerDue PROVE IInv'
<1> USE DEF SchedulerDue, Overlap, startup, world, history
<1>1. Typed'
    BY DEF IInv, Typed, rows
<1>2. \A q \in Runs : (Placed(q)' <=> Placed(q)) /\ ~(spc' = "submit") /\ (Waiting(q)' => Waiting(q))
    BY DEF Placed, Waiting, rows
<1>3. Rows'
    BY <1>2 DEF IInv, Rows, rows
<1>4. ASSUME ~retried PROVE Booting' /\ OnePlace' /\ \A q \in Runs : Coming(q)' => Coming(q)
    BY <1>2, <1>4 DEF IInv, Undisturbed, Booting, OnePlace, Coming
<1> QED BY <1>1, <1>2, <1>3, <1>4, PassedOn

\* The row of the cron point is made once, also when the advance was lost.
LEMMA ScheduledRowStep == ASSUME IInv, ScheduledStart \/ ScheduledSkip PROVE IInv'
<1>1. /\ UNCHANGED <<next, pending, exec, requests, slot, after, startup, now, fired, early, late,
                     interrupted, retried>>
      /\ spc \in {"start", "skip"} /\ spc' \in {"submit", "advance"}
    BY DEF ScheduledStart, ScheduledSkip, world, history
<1>2. slot \in Nat /\ slot # None /\ (~retried => boot = "done")
    BY <1>1 DEF IInv, Typed, Undisturbed, Booting
<1>3. CASE Exists(slot) /\ UNCHANGED rows /\ spc' = "advance"
    <2>1. Typed'
        BY <1>1, <1>3 DEF IInv, Typed, rows, startup
    <2>2. \A q \in Runs : (Placed(q)' <=> Placed(q)) /\ (Waiting(q)' => Waiting(q))
        BY <1>1, <1>3 DEF Placed, Waiting, rows
    <2>3. Rows'
        <3>1. \E q \in Runs : origin[q] = slot
            BY <1>3 DEF Exists
        <3> QED BY <1>1, <1>3, <2>2, <3>1 DEF IInv, Rows, rows, startup
    <2>4. ASSUME ~retried PROVE Booting' /\ OnePlace' /\ \A q \in Runs : Coming(q)' => Coming(q)
        BY <1>1, <1>2, <1>3, <2>2, <2>4 DEF IInv, Undisturbed, Booting, OnePlace, Coming, startup
    <2> QED BY <1>1, <1>3, <2>1, <2>2, <2>3, <2>4, PassedOn DEF startup
<1>4. ASSUME NEW r \in Runs, NEW s \in {"queued", "skipped"}, ~Exists(slot), CreateRun(r, slot, s),
             s = "queued" => spc = "start", spc' = "submit" => s = "queued"
      PROVE  IInv'
    <2>1. Typed'
        <3>1. /\ status' \in [Runs -> ActiveStatuses \cup Terminal \cup {"absent"}]
              /\ origin' \in [Runs -> Keys \cup Nat \cup {None}]
            BY <1>2, <1>4, NewRow
        <3> QED BY <1>1, <1>4, <3>1 DEF IInv, Typed, CreateRun, startup
    <2>2. r \notin requests
        BY <1>2, <1>4, NewRow
    <2>3. requests' = requests /\ slot' = slot /\ spc' # "start" /\ UNCHANGED plan
          /\ spc \notin {"submit", "advance"}
        BY <1>1 DEF startup
    <2>4. slot \in Keys \cup Nat \cup {None}
        BY <1>2
    <2> QED BY <1>1, <1>2, <1>4, <2>1, <2>2, <2>3, <2>4, RowIsMade
<1> QED BY <1>3, <1>4 DEF ScheduledStart, ScheduledSkip

LEMMA ScheduledSubmitStep == ASSUME IInv, ScheduledSubmit PROVE IInv'
<1>1. PICK r \in Runs : origin[r] = slot /\ pending' = [pending EXCEPT ![r] = @ + 1]
    BY DEF ScheduledSubmit, Submit
<1>2. /\ UNCHANGED <<rows, exec, early, late, interrupted, retried, fired, next, now, slot, after,
                     requests, startup>>
      /\ spc = "submit" /\ spc' = "advance" /\ slot \in Nat
    BY DEF ScheduledSubmit, world, history, IInv, Typed
<1>3. pending' \in [Runs -> Nat] /\ \A q \in Runs \ {r} : pending'[q] = pending[q]
    BY <1>1 DEF IInv, Typed
<1>4. Typed'
    BY <1>2, <1>3 DEF IInv, Typed, rows, startup
<1>5. \A q \in Runs \ {r} : (Placed(q)' <=> Placed(q)) /\ (Waiting(q)' => Waiting(q))
    BY <1>2, <1>3 DEF Placed, Waiting, rows
<1>6. Waiting(r) /\ ~Waiting(r)' /\ status[r] # "absent" /\ interrupted[r] = {}
    BY <1>1, <1>2 DEF Waiting, IInv, Rows, CutOff
<1>7. Rows'
    BY <1>1, <1>2, <1>5, <1>6 DEF IInv, Rows, rows, startup
<1>8. ASSUME ~retried PROVE Booting' /\ OnePlace'
    <2>1. ~Placed(r) /\ plan[r] = "none" /\ boot = "done"
        BY <1>2, <1>6, <1>8 DEF IInv, Undisturbed, Booting, OnePlace
    <2>2. Booting'
        BY <1>2, <1>8, <2>1 DEF IInv, Undisturbed, Booting, startup
    <2>3. pending'[r] <= 1 /\ \A w \in Workers : exec[w].run # r
        BY <1>1, <2>1 DEF Placed, IInv, Typed
    <2>4. OnePlace'
        <3> SUFFICES ASSUME NEW q \in Runs PROVE
                /\ pending'[q] <= 1
                /\ pending'[q] = 1 => \A w \in Workers : exec[w].run # q
                /\ \A v, w \in Workers : exec[v].run = q /\ exec[w].run = q => v = w
                /\ Waiting(q)' \/ plan[q] # "none" => ~Placed(q)'
            BY <1>2 DEF OnePlace, startup
        <3>1. CASE q = r
            BY <1>6, <2>1, <2>3, <3>1
        <3>2. CASE q # r
            BY <1>3, <1>5, <1>8, <3>2 DEF IInv, Undisturbed, OnePlace
        <3> QED BY <3>1, <3>2
    <2> QED BY <2>2, <2>4
<1>9. \A q \in Runs : Coming(q)' => Coming(q)
    BY <1>2, <1>3, <1>5, <1>6 DEF Coming, startup
<1> QED BY <1>2, <1>4, <1>5, <1>6, <1>7, <1>8, <1>9, PassedOn DEF startup

LEMMA AdvanceStep == ASSUME IInv, Advance \/ SchedulerRaises PROVE IInv'
<1>1. /\ UNCHANGED <<rows, pending, exec, requests, startup, now, interrupted, late, early, retried>>
      /\ spc # "off" /\ spc' = "idle" /\ slot' = 0 /\ after' = 0
      /\ \/ next' = after /\ fired' = fired \cup {slot} /\ spc = "advance"
         \/ next' = next /\ fired' = fired
    BY DEF Advance, SchedulerRaises, world, history
<1>2. Typed'
    BY <1>1 DEF IInv, Typed, rows, startup
<1>3. \A q \in Runs : (Placed(q)' <=> Placed(q)) /\ (Waiting(q)' => Waiting(q))
    BY <1>1 DEF Placed, Waiting, rows
<1>4. \A t \in fired' : \E r \in Runs : origin[r] = t
    BY <1>1 DEF IInv, Rows
<1>5. Rows'
    BY <1>1, <1>3, <1>4 DEF IInv, Rows, rows, startup
<1>6. ASSUME ~retried PROVE Booting' /\ OnePlace' /\ \A q \in Runs : Coming(q)' => Coming(q)
    BY <1>1, <1>3, <1>6 DEF IInv, Undisturbed, Booting, OnePlace, Coming, startup
<1> QED BY <1>1, <1>2, <1>3, <1>5, <1>6, PassedOn DEF startup

-----------------------------------------------------------------------------
(* Taking a run, crashes, and the startup step.                                *)

LEMMA TakeStep == ASSUME IInv, NEW w \in Workers, NEW r \in Runs, Take(w, r) PROVE IInv'
<1> DEFINE u == [IdleThread EXCEPT !.pc = "opening", !.run = r,
                                   !.done = {i \in Steps : step[r][i] = "completed"}]
<1>1. /\ UNCHANGED <<rows, late, next, requests, scheduler, startup, now, interrupted, early, fired,
                     retried>>
      /\ exec[w].pc = "idle" /\ pending[r] > 0
      /\ pending' = [pending EXCEPT ![r] = @ - 1] /\ exec' = [exec EXCEPT ![w] = u]
    BY DEF Take, FreeWorker, Rest, world
<1>2. /\ u \in ThreadRecord /\ u.pc = "opening" /\ u.run = r
      /\ u.done = {i \in Steps : step[r][i] = "completed"}
    <2> DEFINE d == {i \in Steps : step[r][i] = "completed"}
    <2>1. d \in SUBSET Steps
        OBVIOUS
    <2>2. u = [IdleThread EXCEPT !.pc = "opening", !.run = r, !.done = d]
        OBVIOUS
    <2>3. IdleThread \in ThreadRecord
        BY DEF IdleThread, ThreadRecord
    <2> HIDE DEF u, d, IdleThread
    <2>4. u \in ThreadRecord /\ u.pc = "opening" /\ u.run = r /\ u.done = d
        BY <2>1, <2>2, <2>3 DEF ThreadRecord
    <2> QED BY <2>4 DEF d
<1> HIDE DEF u
<1>3. /\ pending' \in [Runs -> Nat] /\ pending'[r] = pending[r] - 1
      /\ \A q \in Runs \ {r} : pending'[q] = pending[q]
    <2>1. pending \in [Runs -> Nat] /\ pending[r] - 1 \in Nat
        BY <1>1 DEF IInv, Typed
    <2> QED BY <1>1, <2>1
<1>4. /\ exec' \in [Workers -> ThreadRecord] /\ exec'[w] = u
      /\ \A v \in Workers \ {w} : exec'[v] = exec[v]
    BY <1>1, <1>2 DEF IInv, Typed
<1>5. Typed'
    BY <1>1, <1>2, <1>3, <1>4 DEF IInv, Typed, rows, scheduler, startup
<1>6. exec[w].run = None
    BY <1>1 DEF IInv, Typed
<1>7. \A q \in Runs : (Placed(q)' => Placed(q)) /\ (Waiting(q)' <=> Waiting(q))
    <2> SUFFICES ASSUME NEW q \in Runs PROVE (Placed(q)' => Placed(q)) /\ (Waiting(q)' <=> Waiting(q))
        OBVIOUS
    <2>1. CASE q = r
        BY <1>1, <2>1 DEF Placed, Waiting, rows, scheduler
    <2>2. CASE q # r
        BY <1>1, <1>2, <1>3, <1>4, <2>2 DEF Placed, Waiting, rows, scheduler
    <2> QED BY <2>1, <2>2
<1>8. Placed(r) /\ interrupted[r] = {} /\ status[r] # "absent"
    BY <1>1 DEF Placed, IInv, Rows, CutOff
<1>9. Rows'
    BY <1>1, <1>7 DEF IInv, Rows, rows, scheduler, startup
<1>10. CutOff'
    BY <1>1, <1>7, CutOffKept DEF IInv, rows, startup, Active
<1>11. ASSUME ~retried PROVE Booting' /\ OnePlace'
    <2>1. Booting'
        BY <1>1, <1>7, <1>11 DEF IInv, Undisturbed, Booting, scheduler, startup
    <2>2. pending'[r] = 0 /\ plan[r] = "none" /\ ~Waiting(r) /\ \A v \in Workers : exec[v].run # r
        BY <1>1, <1>3, <1>8, <1>11 DEF IInv, Undisturbed, OnePlace, Typed
    <2>3. OnePlace'
        <3> SUFFICES ASSUME NEW q \in Runs PROVE
                /\ pending'[q] <= 1
                /\ pending'[q] = 1 => \A v \in Workers : exec'[v].run # q
                /\ \A v, x \in Workers : exec'[v].run = q /\ exec'[x].run = q => v = x
                /\ Waiting(q)' \/ plan[q] # "none" => ~Placed(q)'
            BY <1>1 DEF OnePlace, startup
        <3>1. CASE q = r
            BY <1>2, <1>4, <1>7, <2>2, <3>1
        <3>2. CASE q # r
            <4>1. \A v \in Workers : exec'[v].run = q => exec[v].run = q /\ v # w
                BY <1>2, <1>4, <3>2
            <4> QED BY <1>3, <1>7, <1>11, <3>2, <4>1 DEF IInv, Undisturbed, OnePlace
        <3> QED BY <3>1, <3>2
    <2> QED BY <2>1, <2>3
<1>12. ASSUME ~retried PROVE StepsAhead'
    <2> SUFFICES ASSUME NEW v \in Workers PROVE
            /\ exec'[v].pc = "opening" =>
                  \A j \in Steps : step[exec'[v].run][j] = "completed" => j \in exec'[v].done
            /\ exec'[v].pc \in {"check", "attempt", "executing"} =>
                  /\ exec'[v].at \notin exec'[v].done
                  /\ \A j \in Steps : j >= exec'[v].at /\ j \notin exec'[v].done
                                      => step[exec'[v].run][j] # "completed"
        BY <1>1 DEF StepsAhead, rows
    <2>1. CASE v = w
        BY <1>2, <1>4, <2>1
    <2>2. CASE v # w
        BY <1>4, <1>12, <2>2 DEF IInv, Undisturbed, StepsAhead
    <2> QED BY <2>1, <2>2
<1>13. ASSUME ~retried PROVE Live'
    <2>1. \A q \in Runs : Coming(q)' => Coming(q)
        <3> SUFFICES ASSUME NEW q \in Runs, Coming(q)' PROVE Coming(q)
            OBVIOUS
        <3>1. CASE q = r
            BY <1>1, <3>1 DEF Coming
        <3>2. CASE q # r
            BY <1>1, <1>2, <1>3, <1>4, <1>7, <3>2 DEF Coming, startup
        <3> QED BY <3>1, <3>2
    <2> QED BY <1>1, <1>2, <1>4, <1>13, <2>1 DEF IInv, Undisturbed, Live, Active, rows
<1>14. ASSUME ~retried PROVE Stopped' /\ OneScheduled'
    <2>1. Stopped'
        BY <1>1, <1>2, <1>4, <1>14 DEF IInv, Undisturbed, Stopped, InStep, rows
    <2>2. OneScheduled'
        BY <1>1, <1>14 DEF IInv, Undisturbed, OneScheduled, Hot, Active, rows, scheduler
    <2> QED BY <2>1, <2>2
<1> QED BY <1>1, <1>5, <1>9, <1>10, <1>11, <1>12, <1>13, <1>14 DEF IInv, Undisturbed

\* A crash leaves the rows only.
LEMMA CrashStep == ASSUME IInv, Crash PROVE IInv'
<1>1. /\ UNCHANGED <<rows, next, now, late, early, fired, retried>>
      /\ pending' = [q \in Runs |-> 0] /\ exec' = [w \in Workers |-> IdleThread] /\ requests' = {}
      /\ spc' = "off" /\ slot' = 0 /\ after' = 0
      /\ boot' = "pending" /\ open' = FALSE /\ plan' = [q \in Runs |-> "none"]
      /\ interrupted' = [q \in Runs |-> interrupted[q] \cup
                            {i \in Steps : Active(q) /\ step[q][i] = "running"}]
    BY DEF Crash
<1>2. /\ IdleThread \in ThreadRecord /\ IdleThread.pc = "idle" /\ IdleThread.run = None
    BY DEF IdleThread, ThreadRecord
<1>3. \A w \in Workers : exec'[w].pc = "idle" /\ exec'[w].run = None
    BY <1>1, <1>2
<1>4. Typed'
    <2>1. interrupted' \in [Runs -> SUBSET Steps]
        BY <1>1 DEF IInv, Typed
    <2> QED BY <1>1, <1>2, <1>3, <2>1 DEF IInv, Typed, rows
<1>5. \A q \in Runs : ~Placed(q)' /\ ~Waiting(q)' /\ plan'[q] = "none" /\ ~Coming(q)'
    BY <1>1, <1>3 DEF Placed, Waiting, Coming
<1>6. Rows'
    BY <1>1, <1>5 DEF IInv, Rows, rows, Active, ActiveStatuses
<1>7. CutOff'
    BY <1>1, <1>5 DEF IInv, CutOff, rows, Active
<1>8. ASSUME ~retried PROVE Booting' /\ OnePlace'
    BY <1>1, <1>3, <1>5 DEF Booting, OnePlace
<1>9. ASSUME ~retried PROVE StepsAhead' /\ Live'
    BY <1>1, <1>3, <1>5 DEF StepsAhead, Live
<1>10. ASSUME ~retried PROVE Stopped'
    BY <1>1, <1>3, <1>10 DEF IInv, Undisturbed, Stopped, InStep, rows
<1>11. ASSUME ~retried PROVE OneScheduled'
    BY <1>1, <1>11 DEF IInv, Undisturbed, OneScheduled, Hot, Active, rows
<1> QED BY <1>1, <1>4, <1>6, <1>7, <1>8, <1>9, <1>10, <1>11 DEF IInv, Undisturbed

\* What was active is planned, and what was cut in a step is not to be submitted.
LEMMA BeginResumeStep == ASSUME IInv, BeginResume PROVE IInv'
<1>1. /\ UNCHANGED <<rows, next, pending, exec, requests, scheduler, open, now, interrupted, late,
                     early, fired, retried>>
      /\ boot = "pending" /\ boot' = "resuming"
      /\ plan' = [q \in Runs |-> IF Active(q) THEN Decision(q) ELSE "none"]
    BY DEF BeginResume, world, history
<1>2. \A q \in Runs : /\ plan'[q] \in {"none", "cancel", "ambiguous", "submit"}
                      /\ plan'[q] # "none" => Active(q)
                      /\ plan'[q] = "submit" => \A i \in Steps : step[q][i] # "running"
    BY <1>1 DEF Decision
<1>3. Typed'
    BY <1>1, <1>2 DEF IInv, Typed, rows, scheduler
<1>4. \A q \in Runs : (Placed(q)' <=> Placed(q)) /\ (Waiting(q)' <=> Waiting(q))
    BY <1>1 DEF Placed, Waiting, rows, scheduler
<1>5. Rows'
    BY <1>1, <1>2, <1>4 DEF IInv, Rows, rows, scheduler, Active, ActiveStatuses
<1>6. CutOff'
    BY <1>1, <1>2, <1>4 DEF IInv, CutOff, rows, Active
<1>7. ASSUME ~retried PROVE Booting' /\ OnePlace'
    BY <1>1, <1>4, <1>7 DEF IInv, Undisturbed, Booting, OnePlace, scheduler
<1>8. ASSUME ~retried PROVE StepsAhead' /\ Stopped'
    BY <1>1, <1>8, StepsKept, StoppedKept DEF IInv, Undisturbed, rows
<1>9. ASSUME ~retried PROVE Live'
    <2>1. \A q \in Runs : Coming(q)' => Coming(q) \/ Active(q)
        BY <1>1, <1>2, <1>4 DEF Coming
    <2> QED BY <1>1, <1>9, <2>1, LiveKept DEF IInv, Undisturbed, rows, Active
<1>10. ASSUME ~retried PROVE OneScheduled'
    BY <1>1, <1>10 DEF IInv, Undisturbed, OneScheduled, Hot, Active, rows, scheduler
<1> QED BY <1>1, <1>3, <1>5, <1>6, <1>7, <1>8, <1>9, <1>10 DEF IInv, Undisturbed

LEMMA ResumeRunStep == ASSUME IInv, NEW r \in Runs, ResumeRun(r) PROVE IInv'
<1>1. /\ UNCHANGED <<cancel, origin, step, next, exec, requests, scheduler, boot, open, now,
                     interrupted, late, early, fired, retried>>
      /\ boot = "resuming" /\ plan[r] # "none" /\ plan' = [plan EXCEPT ![r] = "none"]
    BY DEF ResumeRun, world, history
<1>2. plan' \in [Runs -> {"none", "cancel", "ambiguous", "submit"}] /\ plan'[r] = "none"
      /\ \A q \in Runs \ {r} : plan'[q] = plan[q]
    BY <1>1 DEF IInv, Typed
<1>3. status[r] # "absent"
    BY <1>1 DEF IInv, Rows
<1>4. CASE plan[r] = "submit" /\ pending' = [pending EXCEPT ![r] = @ + 1] /\ UNCHANGED status
    <2>1. pending' \in [Runs -> Nat] /\ \A q \in Runs \ {r} : pending'[q] = pending[q]
        <3>1. pending \in [Runs -> Nat] /\ pending[r] + 1 \in Nat
            BY DEF IInv, Typed
        <3> QED BY <1>4, <3>1
    <2>2. Typed'
        BY <1>1, <1>2, <1>4, <2>1 DEF IInv, Typed, scheduler
    <2>3. \A q \in Runs : Waiting(q)' <=> Waiting(q)
        BY <1>1 DEF Waiting, scheduler
    <2>4. \A q \in Runs \ {r} : Placed(q)' <=> Placed(q)
        BY <1>1, <2>1 DEF Placed
    <2>5. Rows'
        BY <1>1, <1>2, <1>3, <1>4, <2>4 DEF IInv, Rows, scheduler
    <2>6. interrupted[r] = {}
        BY <1>4 DEF IInv, CutOff
    <2>7. ASSUME ~retried PROVE Booting' /\ OnePlace'
        <3>1. ~Placed(r) /\ ~Waiting(r)
            BY <1>1, <2>7 DEF IInv, Undisturbed, OnePlace, Booting, Waiting
        <3>2. Booting'
            BY <1>1, <1>2, <2>7 DEF IInv, Undisturbed, Booting, scheduler
        <3>3. pending'[r] <= 1 /\ \A w \in Workers : exec[w].run # r
            BY <1>4, <3>1 DEF Placed, IInv, Typed
        <3>4. OnePlace'
            <4> SUFFICES ASSUME NEW q \in Runs PROVE
                    /\ pending'[q] <= 1
                    /\ pending'[q] = 1 => \A w \in Workers : exec[w].run # q
                    /\ \A v, w \in Workers : exec[v].run = q /\ exec[w].run = q => v = w
                    /\ Waiting(q)' \/ plan'[q] # "none" => ~Placed(q)'
                BY <1>1 DEF OnePlace
            <4>1. CASE q = r
                BY <1>2, <2>3, <3>1, <3>3, <4>1
            <4>2. CASE q # r
                BY <1>2, <2>1, <2>3, <2>4, <2>7, <4>2 DEF IInv, Undisturbed, OnePlace
            <4> QED BY <4>1, <4>2
        <3> QED BY <3>2, <3>4
    <2>8. \A q \in Runs : Coming(q)' => Coming(q)
        BY <1>1, <1>2, <2>1, <2>3 DEF Coming
    <2> QED BY <1>1, <1>2, <1>4, <2>2, <2>3, <2>4, <2>5, <2>6, <2>7, <2>8, PassedOn
            DEF rows, scheduler
<1>5. ASSUME NEW s \in {"cancelled", "needs_attention"}, status' = [status EXCEPT ![r] = s],
             UNCHANGED pending
      PROVE  IInv'
    <2>1. s \in Terminal /\ s \notin ActiveStatuses
        BY DEF Terminal, ActiveStatuses
    <2>2. /\ status' \in [Runs -> ActiveStatuses \cup Terminal \cup {"absent"}] /\ status'[r] = s
          /\ \A q \in Runs \ {r} : status'[q] = status[q]
        BY <1>5, <2>1 DEF IInv, Typed
    <2>3. Typed'
        BY <1>1, <1>2, <1>5, <2>2 DEF IInv, Typed, scheduler
    <2>4. \A q \in Runs : (Placed(q)' <=> Placed(q)) /\ (Waiting(q)' <=> Waiting(q))
        BY <1>1, <1>5 DEF Placed, Waiting, scheduler
    <2>5. \A q \in Runs : Active(q)' => q # r /\ Active(q)
        BY <2>1, <2>2 DEF Active
    <2>6. Rows'
        BY <1>1, <1>2, <1>5, <2>2, <2>4 DEF IInv, Rows, scheduler
    <2>7. CutOff'
        BY <1>1, <1>2, <2>4, <2>5, CutOffKept DEF IInv
    <2>8. ASSUME ~retried PROVE ~Placed(r) /\ ~Waiting(r)
        BY <1>1, <2>8 DEF IInv, Undisturbed, OnePlace, Booting, Waiting
    <2>9. ASSUME ~retried PROVE Booting' /\ OnePlace'
        BY <1>1, <1>2, <1>5, <2>4, <2>9 DEF IInv, Undisturbed, Booting, OnePlace, scheduler
    <2>10. ASSUME ~retried PROVE Live'
        <3>1. \A w \in Workers : exec[w].pc # "idle" => exec[w].run \in Runs \ {r}
            BY <2>8, <2>10 DEF IInv, Typed, ThreadRecord, Placed
        <3>2. ~Coming(r)'
            BY <1>1, <1>2, <1>5, <2>4, <2>8, <2>10 DEF Coming, Placed
        <3>3. \A q \in Runs : Coming(q)' => q # r /\ Coming(q)
            BY <1>1, <1>2, <1>5, <2>4, <3>2 DEF Coming
        <3> QED BY <1>1, <2>2, <2>10, <3>1, <3>3, LiveKept DEF IInv, Undisturbed
    <2>11. ASSUME ~retried PROVE StepsAhead' /\ Stopped'
        BY <1>1, <2>1, <2>2, <2>11, StepsKept, StoppedKept DEF IInv, Undisturbed, ActiveStatuses
    <2>12. ASSUME ~retried PROVE OneScheduled'
        BY <1>1, <2>5, <2>12, ScheduledKept DEF IInv, Undisturbed, Hot, scheduler
    <2> QED BY <1>1, <2>3, <2>6, <2>7, <2>9, <2>10, <2>11, <2>12 DEF IInv, Undisturbed
<1> QED BY <1>4, <1>5 DEF ResumeRun, Submit

LEMMA FinishResumeStep == ASSUME IInv, FinishResume PROVE IInv'
<1>1. /\ UNCHANGED <<rows, next, pending, exec, requests, slot, after, plan, now, interrupted, late,
                     early, fired, retried>>
      /\ (\A q \in Runs : plan[q] = "none") /\ boot' = "done" /\ spc' = "idle"
    BY DEF FinishResume, world, history
<1>2. Typed'
    BY <1>1 DEF IInv, Typed, rows
<1>3. \A q \in Runs : (Placed(q)' <=> Placed(q)) /\ (Waiting(q)' => Waiting(q))
    BY <1>1 DEF Placed, Waiting, rows
<1>4. Rows'
    BY <1>1, <1>3 DEF IInv, Rows, rows
<1>5. ASSUME ~retried PROVE Booting' /\ OnePlace' /\ \A q \in Runs : Coming(q)' => Coming(q)
    BY <1>1, <1>3, <1>5 DEF IInv, Undisturbed, Booting, OnePlace, Coming
<1> QED BY <1>1, <1>2, <1>3, <1>4, <1>5, PassedOn

\* From here on the startup step may meet the runs of this very process.
LEMMA ResumeRaisesStep == ASSUME IInv, ResumeRaises PROVE IInv'
<1>1. /\ UNCHANGED <<rows, next, pending, exec, requests, scheduler, now, interrupted, late, early, fired>>
      /\ plan' = [q \in Runs |-> "none"] /\ retried' = TRUE /\ LateResume
    BY DEF ResumeRaises
<1>2. Typed'
    BY <1>1 DEF IInv, Typed, rows, scheduler
<1>3. \A q \in Runs : (Placed(q)' <=> Placed(q)) /\ (Waiting(q)' <=> Waiting(q)) /\ plan'[q] = "none"
    BY <1>1 DEF Placed, Waiting, rows, scheduler
<1>4. Rows'
    BY <1>1, <1>3 DEF IInv, Rows, rows, scheduler
<1>5. CutOff'
    BY <1>1, <1>3, CutOffKept DEF IInv, rows, Active
<1> QED BY <1>1, <1>2, <1>4, <1>5 DEF IInv

LEMMA NothingHappens ==
    ASSUME IInv, UNCHANGED <<rows, next, pending, exec, requests, scheduler, startup, history>>,
           now' \in Nat
    PROVE  IInv'
<1> USE DEF rows, scheduler, startup, history
<1>1. Typed'
    BY DEF IInv, Typed
<1>2. \A q \in Runs : (Placed(q)' <=> Placed(q)) /\ (Waiting(q)' <=> Waiting(q))
    BY DEF Placed, Waiting
<1>3. Rows'
    BY <1>2 DEF IInv, Rows
<1>4. ASSUME ~retried PROVE Booting' /\ OnePlace' /\ \A q \in Runs : Coming(q)' => Coming(q)
    BY <1>2, <1>4 DEF IInv, Undisturbed, Booting, OnePlace, Coming
<1> QED BY <1>1, <1>2, <1>3, <1>4, PassedOn

-----------------------------------------------------------------------------
(* The invariant of the specification.                                         *)

LEMMA InitialState == Init => IInv
<1> SUFFICES ASSUME Init PROVE IInv
    OBVIOUS
<1>1. /\ IdleThread \in ThreadRecord /\ IdleThread.pc = "idle" /\ IdleThread.run = None
    BY DEF IdleThread, ThreadRecord
<1>2. None \notin Runs
    OBVIOUS
<1> HIDE DEF IdleThread
<1>3. \A w \in Workers : exec[w].pc = "idle" /\ exec[w].run = None
    BY <1>1 DEF Init
<1>4. \A q \in Runs : ~Placed(q) /\ ~Waiting(q) /\ plan[q] = "none" /\ ~Coming(q) /\ ~Active(q)
    BY <1>2, <1>3 DEF Init, Placed, Waiting, Coming, Active, ActiveStatuses
<1>5. Typed
    BY <1>1, <1>3 DEF Init, Typed, StepStatuses
<1>6. Rows /\ CutOff
    BY <1>4 DEF Init, Rows, CutOff
<1>7. Booting /\ OnePlace
    BY <1>3, <1>4 DEF Init, Booting, OnePlace
<1>8. StepsAhead /\ Live
    BY <1>3, <1>4 DEF StepsAhead, Live
<1>9. Stopped /\ OneScheduled
    BY <1>3, <1>4 DEF Init, Stopped, OneScheduled, Hot, InStep
<1> QED BY <1>5, <1>6, <1>7, <1>8, <1>9 DEF Init, IInv, Undisturbed

LEMMA InvariantIsInductive == Spec => []IInv
<1>1. ASSUME IInv, [Next]_vars PROVE IInv'
    <2>1. CASE UNCHANGED vars
        BY <1>1, <2>1, NothingHappens DEF vars, world, IInv, Typed
    <2>2. CASE Operator
        BY <1>1, <2>2, RequestStep, CancelStep DEF Operator
    <2>3. CASE Request
        BY <1>1, <2>3, SubmitStep DEF Request
    <2>4. CASE Scheduler
        BY <1>1, <2>4, DueStep, ScheduledRowStep, ScheduledSubmitStep, AdvanceStep DEF Scheduler
    <2>5. CASE Resume
        BY <1>1, <2>5, BeginResumeStep, ResumeRunStep, FinishResumeStep DEF Resume
    <2>6. ASSUME NEW w \in Workers, Worker(w) PROVE IInv'
        BY <1>1, <2>6, TakeStep, ThreadSteps DEF Worker
    <2>7. CASE ResumeRaises \/ Crash
        BY <1>1, <2>7, ResumeRaisesStep, CrashStep
    <2>8. CASE Tick
        <3>1. now' \in Nat
            BY <1>1, <2>8 DEF Tick, IInv, Typed
        <3> QED BY <1>1, <2>8, <3>1, NothingHappens DEF Tick
    <2>9. CASE Quiet
        BY <1>1, <2>9, NothingHappens DEF Quiet, vars, world, IInv, Typed
    <2> QED BY <1>1, <2>1, <2>2, <2>3, <2>4, <2>5, <2>6, <2>7, <2>8, <2>9 DEF Next
<1> HIDE DEF IInv
<1> QED BY <1>1, InitialState, PTL DEF Spec

-----------------------------------------------------------------------------
(* What the invariant gives.                                                   *)

LEMMA AtMostOne ==
    ASSUME NEW S, \A x, y \in S : x = y
    PROVE  Cardinality(S) \in {0, 1}
<1>1. CASE S = {}
    BY <1>1, FS_EmptySet
<1>2. ASSUME NEW x \in S PROVE Cardinality(S) = 1
    <2>1. S = {x}
        OBVIOUS
    <2> QED BY <2>1, FS_Singleton
<1> QED BY <1>1, <1>2

\* execute_run is submitted once for a run, and every cron point the schedule has passed
\* left one row: by a request, by the scheduler and by the startup step, over crashes,
\* lost writes and ticks, as long as that startup step does not fail.
THEOREM EveryRunOnceHolds == ASSUME ~LateResume PROVE Spec => []EveryRunOnce
<1>1. ASSUME IInv PROVE EveryRunOnce
    <2>1. Undisturbed
        BY <1>1 DEF IInv
    <2>2. ASSUME NEW r \in Runs PROVE Places(r) <= 1
        <3> DEFINE P == {w \in Workers : exec[w].run = r}
        <3>1. \A v, w \in P : v = w
            BY <2>1 DEF Undisturbed, OnePlace
        <3>2. Cardinality(P) \in {0, 1}
            BY <3>1, AtMostOne
        <3>3. pending[r] \in {0, 1} /\ (pending[r] = 1 => P = {})
            BY <1>1, <2>1 DEF IInv, Typed, Undisturbed, OnePlace
        <3>4. P = {} => Cardinality(P) = 0
            BY FS_EmptySet
        <3> HIDE DEF P
        <3>5. pending[r] + Cardinality(P) <= 1
            BY <3>2, <3>3, <3>4
        <3> QED BY <3>5 DEF Places, P
    <2>3. ASSUME NEW t \in fired PROVE Cardinality({r \in Runs : origin[r] = t}) = 1
        <3>1. PICK r \in Runs : origin[r] = t
            BY <1>1 DEF IInv, Rows
        <3>2. t # None
            BY <1>1 DEF IInv, Typed
        <3>3. {q \in Runs : origin[q] = t} = {r}
            BY <1>1, <3>1, <3>2 DEF IInv, Rows
        <3> QED BY <3>3, FS_Singleton
    <2> QED BY <2>2, <2>3 DEF EveryRunOnce, OneExecutionPerRun, FiredPointsRecorded
<1> HIDE DEF IInv, EveryRunOnce
<1> QED BY <1>1, InvariantIsInductive, PTL

\* 'The scheduler does not run one runbook in parallel': the query for an active run before a
\* start is enough, over restarts, for two scheduled runs never to execute at once.
THEOREM OverlapsAreSkipped == ASSUME ~LateResume PROVE Spec => []ScheduledRunsNeverOverlap
<1>1. ASSUME IInv PROVE ScheduledRunsNeverOverlap
    <2>1. Undisturbed
        BY <1>1 DEF IInv
    <2>2. ASSUME NEW w \in Workers, exec[w].pc = "executing", origin[exec[w].run] \in Nat
          PROVE  exec[w].run \in Runs /\ Hot(exec[w].run)
        <3>1. exec[w].run \in Runs
            BY <1>1, <2>2 DEF IInv, Typed, ThreadRecord
        <3> QED BY <2>1, <2>2, <3>1 DEF Undisturbed, Live, Stopped, InStep, Hot
    <2> QED BY <2>1, <2>2 DEF ScheduledRunsNeverOverlap, Undisturbed, OneScheduled
<1> HIDE DEF IInv, ScheduledRunsNeverOverlap
<1> QED BY <1>1, InvariantIsInductive, PTL

\* After request_cancel has answered, a run begins at most the step whose check came first,
\* and none when it was cancelled in the queue, whatever 'running' is written over.
THEOREM CancelledRunsStop == Spec => []CancelStopsRun
<1>1. ASSUME IInv PROVE CancelStopsRun
    <2> SUFFICES ASSUME ~retried, NEW r \in Runs
                 PROVE  Cardinality(late[r]) <= IF r \in early THEN 0 ELSE 1
        BY DEF CancelStopsRun
    <2>1. (\A i, j \in late[r] : i = j) /\ (r \in early => late[r] = {})
        BY <1>1 DEF IInv, Undisturbed, Stopped
    <2>2. Cardinality(late[r]) \in {0, 1}
        BY <2>1, AtMostOne
    <2> QED BY <2>1, <2>2, FS_EmptySet
<1> HIDE DEF IInv, CancelStopsRun
<1> QED BY <1>1, InvariantIsInductive, PTL

\* No step is repeated that may be done in MP VM, because a crash cut the run in it, and none
\* that is done: the retries of a step and the resumption of a run begin after it.
THEOREM StepsAreNotRepeated == Spec => StepsNotRepeated
<1>1. ASSUME IInv PROVE AmbiguousNotRepeated
    <2> SUFFICES ASSUME NEW w \in Workers, exec[w].pc = "executing"
                 PROVE  interrupted[exec[w].run] = {}
        BY DEF AmbiguousNotRepeated
    <2>1. exec[w].run \in Runs
        BY <1>1 DEF IInv, Typed, ThreadRecord
    <2> QED BY <1>1, <2>1 DEF IInv, CutOff, Placed
<1>2. ASSUME IInv, [Next]_vars PROVE CompletedStepsStay
    <2> SUFFICES ASSUME ~retried, NEW r \in Runs, NEW i \in Steps, step[r][i] = "completed"
                 PROVE  step'[r][i] = "completed"
        BY DEF CompletedStepsStay
    <2>1. step \in [Runs -> [Steps -> StepStatuses]] /\ StepsAhead
        BY <1>2 DEF IInv, Typed, Undisturbed
    <2>2. ASSUME NEW w \in Workers, exec[w].pc \in {"check", "attempt", "executing"},
                 NEW s, SetStep(w, s)
          PROVE  step'[r][i] = "completed"
        <3>1. exec[w].run \in Runs /\ exec[w].at \in Steps
            BY <1>2, <2>2 DEF IInv, Typed, ThreadRecord
        <3>2. exec[w].run = r => i # exec[w].at
            BY <2>1, <2>2, <3>1 DEF StepsAhead
        <3> QED BY <2>1, <2>2, <3>1, <3>2 DEF SetStep
    <2>3. CASE Operator \/ Request
        BY <2>3 DEF Operator, Request, RequestRun, RequestCancel, SubmitRequest, RequestFails,
                    CreateRun, rows
    <2>4. CASE Scheduler
        BY <2>4 DEF Scheduler, SchedulerDue, ScheduledStart, ScheduledSubmit, ScheduledSkip, Advance,
                    SchedulerRaises, CreateRun, rows
    <2>5. CASE Resume \/ ResumeRaises \/ Crash \/ Tick \/ Quiet \/ UNCHANGED vars
        BY <2>5 DEF Resume, BeginResume, ResumeRun, FinishResume, ResumeRaises, Crash, Tick, Quiet,
                    rows, vars
    <2>6. ASSUME NEW w \in Workers, Worker(w) PROVE step'[r][i] = "completed"
        <3>1. CASE UNCHANGED step
            BY <3>1
        <3>2. CASE CheckCancelled(w) \/ CheckPassed(w) \/ Attempt(w)
            BY <2>2, <3>1, <3>2 DEF CheckCancelled, CheckPassed, Attempt
        <3>3. CASE StepSucceeds(w) \/ StepFails(w) \/ StepCancelled(w)
            BY <2>2, <3>3 DEF StepSucceeds, StepFails, StepCancelled
        <3> QED BY <2>6, <3>1, <3>2, <3>3 DEF Worker, Take, Begin, StepRetried, StepRaisesEmpty,
                                              FinishRun, WriteRaises, rows
    <2> QED BY <1>2, <2>3, <2>4, <2>5, <2>6 DEF Next
<1> HIDE DEF IInv, AmbiguousNotRepeated, CompletedStepsStay
<1> QED BY <1>1, <1>2, InvariantIsInductive, PTL DEF Spec, StepsNotRepeated
=============================================================================

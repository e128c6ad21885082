---------------------------- MODULE RecordProofs ----------------------------
(* The components of Records that stand alone.  What the script removes was     *)
(* checked and exported after an audit that did not fail for it, and a clean    *)
(* exit status hides no removal: for every list of subnets, every set of hosts  *)
(* and every combination of options.                                            *)
(* The dynamic group of a launch stays for as long as the scan, the run and the *)
(* retention need it, and is gone when the row says so: for any retention, any  *)
(* number of crashes and whoever starts the scanner task again.  A bulk refresh *)
(* that ended stays quiet; access tokens stay within their limit and a          *)
(* revocation holds.                                                            *)
EXTENDS Records, FiniteSetTheorems, SequenceTheorems, TLAPS

-----------------------------------------------------------------------------
(* SubnetScan.                                                                 *)

Names == {Subnets[i] : i \in 1 .. Len(Subnets)} \cup {NetOf[h] : h \in Hosts}

\* parse_subnets drops duplicates, and a host belongs to one subnet.
WellFormed ==
    /\ Subnets \in Seq(Names) /\ None \notin Names \cup {0}
    /\ \A i, j \in 1 .. Len(Subnets) : Subnets[i] = Subnets[j] => i = j

-----------------------------------------------------------------------------
(* The inductive invariant.                                                    *)

Typed ==
    /\ stage \in Stages /\ net \in Names \cup {None}
    /\ run \in [Stages -> {"none", "requested", "running", "green", "yellow", "red"}]
    /\ job \in [Stages -> [Hosts -> {"none", "open", "green", "yellow", "red"}]]
    /\ asked \subseteq Hosts /\ refused \subseteq Hosts /\ gone \subseteq Hosts

\* A subnet is processed once.
Ahead(n) == \E i \in 1 .. Len(left) : left[i] = n
Once ==
    /\ left \in Seq(Names) /\ ~Ahead(net)
    /\ \A i, j \in 1 .. Len(left) : left[i] = left[j] => i = j

\* Nothing of one subnet is left when the loop goes on.
Between ==
    pc \in {"prepare", "next", "export all"} =>
        /\ net = None /\ ids = {} /\ targets = {} /\ found = {} /\ run = NoRun /\ stage = "check"

\* What the script holds of a subnet is of that subnet.
Within ==
    /\ targets \subseteq InNet(net) /\ found \subseteq InNet(net) /\ ids \subseteq targets
    /\ ids # {} => pc \in {"remove", "removing"}

\* The task at hand has its run only from the start on, and the run of the check does not
\* begin any more when its hosts are known.
Runs ==
    /\ pc \in {"create", "validate", "start"} => run[stage] = "none"
    /\ stage = "check" => run["audit"] = "none"
    /\ stage = "check" /\ found # {} => run["check"] \notin {"none", "requested"}
    /\ stage = "audit" => run["check"] # "requested"

Checked ==
    /\ stage = "check" => \A h \in found : job["check"][h] = "green"
    /\ stage = "audit" /\ args.check => \A h \in targets : job["check"][h] = "green"

Following == {"export", "resolve", "remove", "removing"}
Audited ==
    pc \in Following =>
        /\ stage = "audit" /\ Finished("audit")
        /\ \A h \in targets : ~Blocks(job["audit"][h])

Exported == pc \in {"resolve", "remove", "removing"} => args.delete /\ targets \subseteq covered

\* What MP VM was asked to remove is of the subnet at hand while that is waited for, and
\* of one that does not come again.
Settled(h) ==
    /\ args.delete /\ h \in covered
    /\ args.check => job["check"][h] = "green"
    /\ ~Blocks(job["audit"][h])
    /\ ~Ahead(NetOf[h]) /\ (NetOf[h] = net => pc = "removing")
Past == \A h \in asked \cup refused \cup gone : Settled(h)

\* As long as no subnet failed, what is being removed is waited for.
Awaited ==
    /\ failed = {} => asked \cup refused \subseteq ids
    /\ pc \in {"prepare", "export all"} => failed = {}
    /\ code = 0 => pc = "end" /\ asked = {} /\ refused = {}

IInv == /\ Typed /\ Once /\ Between /\ Within /\ Runs /\ Checked /\ Audited /\ Exported
        /\ Past /\ Awaited

LEMMA InitIInv == ASSUME WellFormed, Init PROVE IInv
<1>1. Typed
  BY DEF Init, WellFormed, Typed, Stages, NoRun
<1>2. Once
  BY DEF Init, WellFormed, Once, Ahead, Names
<1>3. Between /\ Within
  BY DEF Init, Between, Within
<1>4. Runs /\ Checked /\ Audited /\ Exported
  BY DEF Init, Runs, Checked, Audited, Following, Exported, NoRun, Stages, Blocks
<1>5. Past /\ Awaited
  BY DEF Init, Past, Awaited, WellFormed
<1> QED
  BY <1>1, <1>2, <1>3, <1>4, <1>5 DEF IInv

-----------------------------------------------------------------------------
(* The steps of the script.                                                    *)

\* Back in the loop, with or without a failed subnet.
LEMMA LeaveKeeps ==
    ASSUME WellFormed, IInv, Leave, pc \notin {"prepare", "next", "export all", "end"},
           failed' \in {failed, failed \cup {net}},
           UNCHANGED <<args, left, code, job, refused, gone>>,
           covered \subseteq covered',
           asked' = asked \/ (pc = "remove" /\ asked' = asked \cup ids),
           failed' = {} => asked' = {} /\ refused = {}
    PROVE  IInv'
<1> USE DEF IInv, Leave
<1>1. Typed'
  BY DEF Typed, Stages, NoRun, Within, InNet
<1>2. Once'
  <2>1. \A i \in 1 .. Len(left) : left[i] \in Names
    BY ElementOfSeq, Zenon DEF Once
  <2>2. left' = left /\ net' = None /\ None \notin Names
    BY DEF WellFormed
  <2>3. ~Ahead(net)'
    BY <2>1, <2>2 DEF Ahead
  <2> QED
    BY <2>2, <2>3 DEF Once
<1>3. Between' /\ Within' /\ Runs' /\ Checked' /\ Audited' /\ Exported'
  BY DEF Between, Within, Runs, Checked, Audited, Following, Exported, NoRun, Stages, Blocks
<1>4. Past'
  <2> SUFFICES ASSUME NEW h \in asked' \cup refused' \cup gone' PROVE Settled(h)'
    BY DEF Past
  <2>1. h \in Hosts /\ NetOf[h] # None
    BY <1>1 DEF Typed, WellFormed, Names
  <2>2. CASE h \in asked \cup refused \cup gone
    BY <2>1, <2>2 DEF Past, Settled, Ahead, Blocks
  <2>3. CASE pc = "remove" /\ h \in ids
    <3>1. NetOf[h] = net /\ h \in targets /\ stage = "audit"
      BY <2>3 DEF Within, InNet, Audited, Following, Blocks
    <3>2. args.delete /\ h \in covered /\ (args.check => job["check"][h] = "green")
      BY <2>3, <3>1 DEF Exported, Checked
    <3>3. ~Blocks(job["audit"][h])
      BY <2>3, <3>1 DEF Audited, Following, Finished, Blocks
    <3> QED
      BY <2>1, <3>1, <3>2, <3>3 DEF Settled, Once, Ahead, Blocks
  <2> QED
    BY <2>2, <2>3
<1>5. Awaited'
  BY DEF Awaited
<1> QED
  BY <1>1, <1>2, <1>3, <1>4, <1>5

\* The subnet is left before anything of it was given for removal.
LEMMA ReturnKeeps ==
    ASSUME WellFormed, IInv, Return,
           pc \in {"create", "validate", "start", "wait", "export", "resolve"},
           UNCHANGED <<args, left, code, remote>>, covered \subseteq covered'
    PROVE  IInv'
<1>1. failed = {} => asked = {} /\ refused = {}
  BY DEF IInv, Awaited, Within
<1> QED
  BY <1>1, LeaveKeeps DEF Return, remote

LEMMA RaisesKeeps ==
    ASSUME WellFormed, IInv, SubnetRaises, pc \notin {"prepare", "next", "export all", "end"},
           UNCHANGED <<args, left, code, job, refused, gone>>, covered \subseteq covered',
           asked' = asked \/ (pc = "remove" /\ asked' = asked \cup ids)
    PROVE  IInv'
<1>1. failed' # {}
  BY DEF SubnetRaises
<1> QED
  BY <1>1, LeaveKeeps DEF SubnetRaises

\* The script ends; with status 0 only if nothing is being removed.
LEMMA ExitKeeps ==
    ASSUME IInv, NEW c \in {0, 1}, Exit(c), pc \in {"prepare", "next", "export all", "export"},
           c = 0 => failed = {}, c = 0 => pc # "export"
    PROVE  IInv'
<1> USE DEF IInv, Exit, locals, remote
<1>1. Typed' /\ Once' /\ Between' /\ Within' /\ Runs' /\ Checked' /\ Audited' /\ Exported'
  BY DEF Typed, Once, Ahead, Between, Within, InNet, Runs, Checked, Audited, Following, Exported,
         Finished, Blocks
<1>2. Past'
  BY DEF Past, Settled, Ahead, Blocks
<1>3. ids = {}
  BY DEF Within
<1>4. Awaited'
  BY <1>3 DEF Awaited
<1> QED
  BY <1>1, <1>2, <1>4

\* On to the next call of the same task.
LEMMA GotoKeeps ==
    ASSUME IInv, NEW p \in {"validate", "start"}, Goto(p), pc \in {"create", "validate"},
           UNCHANGED <<args, left, code, covered, remote>>
    PROVE  IInv'
<1> USE DEF IInv, Goto, locals, remote
<1>1. Typed' /\ Once' /\ Between' /\ Within' /\ Runs' /\ Checked' /\ Audited' /\ Exported'
  BY DEF Typed, Once, Ahead, Between, Within, InNet, Runs, Checked, Audited, Following, Exported,
         Finished, Blocks
<1>2. Past' /\ Awaited'
  BY DEF Past, Settled, Ahead, Awaited, Blocks
<1> QED
  BY <1>1, <1>2

\* The loop: the names are resolved, the next subnet is taken, the script ends.
LEMMA LoopStep ==
    ASSUME WellFormed, IInv, Prepare \/ BeginSubnet \/ EndScan \/ ExportAll
    PROVE  IInv'
<1>1. ASSUME pc \in {"prepare", "next"}, NEW p \in {"next", "export all"}, Goto(p),
             p = "export all" => failed = {}, UNCHANGED <<args, left, code, covered, remote>>
      PROVE  IInv'
  <2> USE <1>1 DEF IInv, Goto, locals, remote
  <2>1. Typed' /\ Once' /\ Between' /\ Within' /\ Runs' /\ Checked' /\ Audited' /\ Exported'
    BY DEF Typed, Once, Ahead, Between, Within, InNet, Runs, Checked, Audited, Following, Exported,
           Finished, Blocks
  <2>2. Past' /\ Awaited'
    BY DEF Past, Settled, Ahead, Awaited, Blocks
  <2> QED
    BY <2>1, <2>2
<1>2. ASSUME Prepare PROVE IInv'
  <2>1. pc = "prepare" /\ failed = {}
    BY <1>2 DEF Prepare, IInv, Awaited
  <2>2. CASE Exit(1)
    BY <2>1, <2>2, ExitKeeps
  <2>3. CASE Goto("next") /\ UNCHANGED <<args, left, code, covered, remote>>
    BY <1>1, <2>1, <2>3
  <2>4. CASE Goto("export all") /\ UNCHANGED <<args, left, code, covered, remote>>
    BY <1>1, <2>1, <2>4
  <2> QED
    BY <1>2, <2>2, <2>3, <2>4 DEF Prepare
<1>3. ASSUME BeginSubnet PROVE IInv'
  <2> USE <1>3 DEF BeginSubnet, IInv, locals, remote
  <2>1. /\ Head(left) \in Names /\ Tail(left) \in Seq(Names)
        /\ Len(Tail(left)) = Len(left) - 1 /\ Len(left) \in Nat
        /\ \A i \in 1 .. Len(Tail(left)) : Tail(left)[i] = left[i + 1]
    BY HeadTailProperties, LenProperties, Zenon DEF Once
  <2>2. left[1] = Head(left) /\ Len(left) > 0
    BY <2>1 DEF Once
  <2>3. Once'
    <3>1. \A i \in 1 .. Len(left') : left'[i] # Head(left) /\ Ahead(left'[i])
      BY <2>1, <2>2 DEF Once, Ahead
    <3>2. \A i, j \in 1 .. Len(left') : left'[i] = left'[j] => i = j
      BY <2>1, <2>2 DEF Once
    <3>3. net' \in {net, Head(left)} /\ ~Ahead(net)
      BY DEF Once
    <3>4. ~Ahead(net)'
      BY <3>1, <3>3 DEF Ahead
    <3> QED
      BY <2>1, <3>2, <3>4 DEF Once
  <2>4. Typed' /\ Between' /\ Within' /\ Runs' /\ Checked' /\ Audited' /\ Exported' /\ Awaited'
    BY <2>1 DEF Typed, Between, Within, InNet, Runs, Checked, Audited, Following, Exported,
                Finished, Awaited, Stages, NoRun, Blocks
  <2>5. Past'
    <3> SUFFICES ASSUME NEW h \in asked \cup refused \cup gone PROVE Settled(h)'
      BY DEF Past
    <3>1. Settled(h)
      BY DEF Past
    <3>2. ~Ahead(NetOf[h])' /\ NetOf[h] # Head(left)
      BY <2>1, <2>2, <3>1 DEF Settled, Ahead, Blocks
    <3>3. NetOf[h] # net
      BY <3>1 DEF Settled, Blocks
    <3> QED
      BY <3>1, <3>2, <3>3 DEF Settled, Blocks
  <2> QED
    BY <2>3, <2>4, <2>5
<1>4. ASSUME EndScan PROVE IInv'
  <2>1. pc = "next"
    BY <1>4 DEF EndScan
  <2>2. CASE failed # {} /\ Exit(1)
    BY <2>1, <2>2, ExitKeeps
  <2>3. CASE failed = {} /\ Exit(0)
    BY <2>1, <2>3, ExitKeeps
  <2>4. CASE failed = {} /\ Goto("export all") /\ UNCHANGED <<args, left, code, covered, remote>>
    BY <1>1, <2>1, <2>4
  <2> QED
    BY <1>4, <2>2, <2>3, <2>4 DEF EndScan
<1>5. ASSUME ExportAll PROVE IInv'
  <2>1. failed = {}
    BY <1>5 DEF ExportAll, IInv, Awaited
  <2> QED
    BY <1>5, <2>1, ExitKeeps DEF ExportAll
<1> QED
  BY <1>2, <1>3, <1>4, <1>5

\* A task is created, validated and started.
LEMMA TaskStep ==
    ASSUME WellFormed, IInv, CreateTask \/ ValidateTask \/ StartTask
    PROVE  IInv'
<1>1. CASE SubnetRaises
  BY <1>1, RaisesKeeps DEF CreateTask, ValidateTask, StartTask, remote
<1>2. CASE Return
  BY <1>2, ReturnKeeps DEF CreateTask, ValidateTask, StartTask
<1>3. CASE Goto("validate") /\ CreateTask
  BY <1>3, GotoKeeps DEF CreateTask
<1>4. CASE Goto("start") /\ (CreateTask \/ ValidateTask)
  BY <1>4, GotoKeeps DEF CreateTask, ValidateTask
<1>5. CASE StartTask /\ run' = [run EXCEPT ![stage] = "requested"] /\ pc' = "wait"
           /\ UNCHANGED <<failed, stage, net, found, targets, queries, ids>>
  <2> USE <1>5 DEF IInv, StartTask, remote
  <2>1. Typed'
    BY DEF Typed
  <2>2. Once' /\ Between' /\ Within' /\ Checked' /\ Exported' /\ Awaited'
    BY DEF Once, Ahead, Between, Within, InNet, Checked, Exported, Awaited
  <2>3. Runs' /\ Audited'
    BY DEF Typed, Stages, Runs, Audited, Following, Finished, Blocks
  <2>4. Past'
    BY DEF Past, Settled, Ahead, Blocks
  <2> QED
    BY <2>1, <2>2, <2>3, <2>4
<1> QED
  BY <1>1, <1>2, <1>3, <1>4, <1>5 DEF CreateTask, ValidateTask, StartTask, Ready

\* The connection check: hosts are found, kept, dropped, and become the targets.
LEMMA CheckStep ==
    ASSUME WellFormed, IInv, PollCheck \/ StopCheck \/ CheckTimesOut
    PROVE  IInv'
<1>1. pc = "wait" /\ stage = "check" /\ UNCHANGED <<args, left, code, covered, remote>>
  BY DEF PollCheck, StopCheck, CheckTimesOut
<1>2. CASE Return
  BY <1>1, <1>2, ReturnKeeps
<1>3. ASSUME NEW heard \in SUBSET Listed("check") PROVE
      /\ FoundNow(heard) \subseteq InNet(net)
      /\ \A h \in FoundNow(heard) : job["check"][h] = "green"
      /\ FoundNow(heard) # {} => run["check"] \notin {"none", "requested"}
  BY <1>1 DEF IInv, Within, Runs, Checked, FoundNow, Listed
<1>4. ASSUME NEW heard \in SUBSET Listed("check"), PollCheck, found' = FoundNow(heard),
             UNCHANGED <<pc, failed, stage, net, targets, queries, ids, run>>
      PROVE  IInv'
  <2> USE <1>1, <1>3, <1>4 DEF IInv, remote
  <2>1. Typed' /\ Once' /\ Between' /\ Within' /\ Exported' /\ Awaited'
    BY DEF Typed, Once, Ahead, Between, Within, InNet, Exported, Awaited
  <2>2. Runs' /\ Checked' /\ Audited'
    BY DEF Runs, Checked, Audited, Following, Finished, Blocks
  <2>3. Past'
    BY DEF Past, Settled, Ahead, Blocks
  <2> QED
    BY <2>1, <2>2, <2>3
<1>5. ASSUME NEW heard \in SUBSET Listed("check"), NEW F, F = FoundNow(heard), F # {},
             pc' = "create", stage' = "audit", found' = F, targets' = F,
             UNCHANGED <<failed, net, queries, ids, run>>
      PROVE  IInv'
  <2> USE <1>1, <1>3, <1>5 DEF IInv, remote
  <2>1. ids = {}
    BY DEF Within
  <2>2. Typed' /\ Once' /\ Between' /\ Within' /\ Exported' /\ Awaited'
    BY <2>1 DEF Typed, Stages, Once, Ahead, Between, Within, InNet, Exported, Awaited
  <2>3. Runs' /\ Checked' /\ Audited'
    BY DEF Runs, Checked, Audited, Following, Finished, Blocks
  <2>4. Past'
    BY DEF Past, Settled, Ahead, Blocks
  <2> QED
    BY <2>2, <2>3, <2>4
<1> QED
  BY <1>2, <1>4, <1>5 DEF PollCheck, StopCheck, CheckTimesOut, ChooseTargets

\* The audit is judged; its hosts are exported, file by file.
LEMMA AuditStep ==
    ASSUME WellFormed, IInv, PollAudit \/ AuditTimesOut \/ ExportQuery \/ DiskFails
    PROVE  IInv'
<1>1. CASE Return /\ (PollAudit \/ AuditTimesOut \/ ExportQuery)
  <2>1. pc \in {"wait", "export"} /\ UNCHANGED <<args, left, code, remote>>
    BY <1>1 DEF PollAudit, AuditTimesOut, ExportQuery
  <2>2. covered \subseteq covered'
    BY <1>1 DEF PollAudit, AuditTimesOut, ExportQuery
  <2> QED
    BY <1>1, <2>1, <2>2, ReturnKeeps
<1>2. CASE SubnetRaises /\ ExportQuery
  <2>1. pc = "export" /\ UNCHANGED <<args, left, code, job, asked, refused, gone>>
    BY <1>2 DEF ExportQuery, remote
  <2>2. covered \subseteq covered'
    BY <1>2 DEF ExportQuery
  <2> QED
    BY <1>2, <2>1, <2>2, RaisesKeeps
<1>3. CASE DiskFails
  BY <1>3, ExitKeeps DEF DiskFails
<1>4. CASE PollAudit /\ Accepted /\ pc' = "export"
           /\ UNCHANGED <<failed, stage, net, found, targets, ids, run>>
  <2> USE <1>4 DEF PollAudit, IInv, remote
  <2>1. Typed' /\ Once' /\ Between' /\ Within' /\ Runs' /\ Checked' /\ Exported' /\ Awaited'
    BY DEF Typed, Once, Ahead, Between, Within, InNet, Runs, Checked, Exported, Awaited
  <2>2. \A h \in targets : ~Blocks(job["audit"][h])
    BY DEF Within, InNet, Audited, Finished, Accepted, Blocks, Listed
  <2>3. Audited'
    BY <2>2 DEF Audited, Following, Finished, Blocks
  <2>4. Past'
    BY DEF Past, Settled, Ahead, Blocks
  <2> QED
    BY <2>1, <2>3, <2>4
<1>5. CASE ExportQuery /\ pc' \in {"export", "resolve"} /\ covered \subseteq covered'
           /\ (pc' = "resolve" => args.delete /\ targets \subseteq covered')
           /\ UNCHANGED <<failed, stage, net, found, targets, ids, run>>
  <2> USE <1>5 DEF ExportQuery, IInv, remote
  <2>1. Typed' /\ Once' /\ Between' /\ Within' /\ Runs' /\ Checked' /\ Exported' /\ Awaited'
    BY DEF Typed, Once, Ahead, Between, Within, InNet, Runs, Checked, Exported, Awaited
  <2>2. Audited'
    BY DEF Audited, Following, Finished, Blocks
  <2>3. Past'
    BY DEF Past, Settled, Ahead, Blocks
  <2> QED
    BY <2>1, <2>2, <2>3
<1> QED
  BY <1>1, <1>2, <1>3, <1>4, <1>5
     DEF PollAudit, AuditTimesOut, ExportQuery, DiskFails, Goto, locals

\* The assets are resolved, given for removal, and waited for.
LEMMA RemovalStep ==
    ASSUME WellFormed, IInv,
           ResolveAssets \/ RemoveAssets \/ PollRemoval \/ RemovalTimesOut \/ PollRaises
    PROVE  IInv'
<1>1. CASE SubnetRaises
  <2>1. pc \in {"resolve", "remove", "removing", "wait"}
        /\ UNCHANGED <<args, left, code, covered, job, refused, gone>>
    BY DEF ResolveAssets, RemoveAssets, PollRemoval, RemovalTimesOut, PollRaises, remote
  <2>2. asked' = asked \/ (pc = "remove" /\ asked' = asked \cup ids)
    BY <1>1 DEF ResolveAssets, RemoveAssets, PollRemoval, RemovalTimesOut, PollRaises, remote,
                SubnetRaises, Leave, Goto
  <2> QED
    BY <1>1, <2>1, <2>2, RaisesKeeps
<1>2. CASE ResolveAssets /\ Return
  BY <1>2, ReturnKeeps DEF ResolveAssets
<1>3. CASE ResolveAssets /\ pc' = "remove" /\ ids' = targets \cap assets
           /\ UNCHANGED <<failed, stage, net, found, targets, queries, run>>
  <2> USE <1>3 DEF ResolveAssets, IInv, remote
  <2>1. Typed' /\ Once' /\ Between' /\ Within' /\ Runs' /\ Checked' /\ Exported'
    BY DEF Typed, Once, Ahead, Between, Within, InNet, Runs, Checked, Exported
  <2>2. Audited'
    BY DEF Audited, Following, Finished, Blocks
  <2>3. Past'
    BY DEF Past, Settled, Ahead, Blocks
  <2>4. ids = {}
    BY DEF Within
  <2>5. Awaited'
    BY <2>4 DEF Awaited
  <2> QED
    BY <2>1, <2>2, <2>3, <2>5
<1>4. CASE RemoveAssets /\ Goto("removing") /\ asked' = asked \cup ids
  <2> USE <1>4 DEF RemoveAssets, Goto, locals, IInv
  <2>1. Typed' /\ Once' /\ Between' /\ Within' /\ Runs' /\ Checked' /\ Exported' /\ Awaited'
    BY DEF Typed, Once, Ahead, Between, Within, InNet, Runs, Checked, Exported, Awaited
  <2>2. Audited'
    BY DEF Audited, Following, Finished, Blocks
  <2>3. Past'
    <3> SUFFICES ASSUME NEW h \in asked \cup ids \cup refused \cup gone PROVE Settled(h)'
      BY DEF Past
    <3>1. CASE h \in asked \cup refused \cup gone
      BY <3>1 DEF Past, Settled, Ahead, Blocks
    <3>2. CASE h \in ids
      <4>1. h \in targets /\ NetOf[h] = net
        BY <3>2 DEF Within, InNet
      <4> QED
        BY <4>1 DEF Settled, Ahead, Once, Checked, Audited, Following, Finished, Exported, Blocks
    <3> QED
      BY <3>1, <3>2
  <2> QED
    BY <2>1, <2>2, <2>3
<1>5. CASE PollRemoval /\ Return /\ ids \cap refused = {}
  <2>1. failed = {} => asked = {} /\ refused = {}
    BY <1>5 DEF PollRemoval, IInv, Awaited
  <2> QED
    BY <1>5, <2>1, LeaveKeeps DEF PollRemoval, Return, remote
<1> QED
  BY <1>1, <1>2, <1>3, <1>4, <1>5
     DEF ResolveAssets, RemoveAssets, PollRemoval, RemovalTimesOut, PollRaises

-----------------------------------------------------------------------------
(* MP VM.                                                                      *)

LEMMA RemoteStep ==
    ASSUME WellFormed, IInv,
           \/ \E s \in Stages : \/ RunAppears(s) \/ RunEnds(s)
                               \/ \E h \in Hosts : JobAppears(s, h) \/ JobEnds(s, h)
           \/ \E h \in Hosts : RemovalEffect(h) \/ OtherScan(h)
    PROVE  IInv'
<1>1. ASSUME NEW s \in Stages, RunAppears(s) PROVE IInv'
  <2> USE <1>1 DEF RunAppears, IInv, remote
  <2>1. Typed'
    BY DEF Typed
  <2>2. Once' /\ Between' /\ Within' /\ Exported' /\ Awaited'
    BY DEF Once, Ahead, Between, Within, InNet, Exported, Awaited, NoRun
  <2>3. Runs' /\ Checked' /\ Audited'
    BY DEF Typed, Runs, Checked, Audited, Following, Finished, Stages, Blocks
  <2>4. Past'
    BY DEF Past, Settled, Ahead, Blocks
  <2> QED
    BY <2>1, <2>2, <2>3, <2>4
<1>2. ASSUME NEW s \in Stages, NEW g \in Hosts, JobAppears(s, g) \/ JobEnds(s, g) PROVE IInv'
  <2> USE <1>2 DEF JobAppears, JobEnds, IInv, locals
  <2>1. PICK c \in {"open", "green", "yellow", "red"} : job' = [job EXCEPT ![s][g] = c]
    BY DEF Colours
  <2>2. /\ run[s] = "running" /\ g \in InNet(net) /\ job[s][g] \in {"none", "open"}
        /\ UNCHANGED <<args, pc, left, failed, code, covered, stage, net, found, targets, queries,
                       ids, run, asked, refused, gone>>
    BY DEF Within
  <2>3. Typed'
    BY <2>1, <2>2 DEF Typed
  <2>4. \A t \in Stages, h \in Hosts :
           IF t = s /\ h = g THEN job'[t][h] = c ELSE job'[t][h] = job[t][h]
    BY <2>1 DEF Typed
  <2>5. Once' /\ Between' /\ Within' /\ Runs' /\ Exported' /\ Awaited'
    BY <2>2 DEF Once, Ahead, Between, Within, InNet, Runs, Exported, Awaited
  <2>6. Checked' /\ Audited'
    BY <2>2, <2>4 DEF Typed, Checked, Audited, Following, Finished, Stages, Within, InNet, Blocks
  <2>7. ASSUME NEW h \in asked \cup refused \cup gone PROVE Settled(h)'
    <3>1. Settled(h) /\ h \in Hosts
      BY DEF Past, Typed
    <3>2. s = "check" \/ h # g
      BY <2>2, <3>1 DEF Settled, Audited, Following, Finished, Stages, InNet, Blocks
    <3> QED
      BY <2>2, <2>4, <3>1, <3>2 DEF Settled, Ahead, Stages, Blocks
  <2> QED
    BY <2>3, <2>5, <2>6, <2>7 DEF Past
<1>3. ASSUME NEW s \in Stages, RunEnds(s) PROVE IInv'
  <2> USE <1>3 DEF RunEnds, IInv, remote
  <2>1. PICK c \in Colours(s) : run' = [run EXCEPT ![s] = c]
    OBVIOUS
  <2>2. c \in {"green", "yellow", "red"} /\ run[s] = "running"
    BY <2>1 DEF Colours
  <2>3. Typed'
    BY <2>1, <2>2 DEF Typed
  <2>4. Once' /\ Between' /\ Within' /\ Exported' /\ Awaited'
    BY DEF Once, Ahead, Between, Within, InNet, Exported, Awaited, NoRun
  <2>5. Runs' /\ Checked' /\ Audited'
    BY <2>1, <2>2 DEF Typed, Runs, Checked, Audited, Following, Finished, Stages, Blocks
  <2>6. Past'
    BY DEF Past, Settled, Ahead, Blocks
  <2> QED
    BY <2>3, <2>4, <2>5, <2>6
<1>4. ASSUME NEW g \in Hosts, RemovalEffect(g) \/ OtherScan(g) PROVE IInv'
  <2> USE <1>4 DEF RemovalEffect, OtherScan, IInv, locals
  <2>1. UNCHANGED <<args, pc, left, failed, code, covered, stage, net, found, targets, queries,
                   ids, run, job>>
    OBVIOUS
  <2>2. asked' \cup refused' \cup gone' \subseteq asked \cup refused \cup gone
        /\ asked' \cup refused' \subseteq asked \cup refused
    OBVIOUS
  <2>3. Typed'
    BY <2>1, <2>2 DEF Typed
  <2>4. Once' /\ Between' /\ Within' /\ Runs' /\ Checked' /\ Exported'
    BY <2>1 DEF Once, Ahead, Between, Within, InNet, Runs, Checked, Exported
  <2>5. Audited'
    BY <2>1 DEF Audited, Following, Finished, Blocks
  <2>6. Awaited'
    BY <2>1, <2>2 DEF Awaited
  <2>7. Past'
    BY <2>1, <2>2 DEF Past, Settled, Ahead, Blocks
  <2> QED
    BY <2>3, <2>4, <2>5, <2>6, <2>7
<1> QED
  BY <1>1, <1>2, <1>3, <1>4

-----------------------------------------------------------------------------
LEMMA IInvStep == ASSUME WellFormed, IInv, [Next]_vars PROVE IInv'
<1>1. CASE UNCHANGED vars
  <2> USE <1>1 DEF vars, locals, remote, IInv
  <2>1. Typed' /\ Once' /\ Between' /\ Within' /\ Runs' /\ Checked' /\ Audited' /\ Exported'
    BY DEF Typed, Once, Ahead, Between, Within, InNet, Runs, Checked, Audited, Following, Exported,
           Finished, Blocks
  <2>2. Past' /\ Awaited'
    BY DEF Past, Settled, Ahead, Awaited, Blocks
  <2> QED
    BY <2>1, <2>2
<1>2. CASE Step
  BY <1>2, LoopStep, TaskStep, CheckStep, AuditStep, RemovalStep DEF Step
<1>3. CASE Next /\ ~Step
  BY <1>3, RemoteStep DEF Next
<1> QED
  BY <1>1, <1>2, <1>3 DEF Next

\* The removal of a host's asset follows its own check and export and an audit in which no job
\* of it failed (the run may have had no job of it at all), and exit status 0 means
\* that every removal has taken effect (process_scan_subnet and main of the script), for every
\* list of subnets without repetitions, every set of hosts and every combination of options,
\* whatever MP VM does and whichever step raises.
THEOREM RemovalsAreEarned == ASSUME WellFormed PROVE Spec => []RemovalsHold
<1>1. Init => IInv
  BY InitIInv
<1>2. IInv /\ [Next]_vars => IInv'
  BY IInvStep
<1>3. IInv => RemovalsHold
  <2> SUFFICES ASSUME IInv PROVE RemovalsHold
    OBVIOUS
  <2>1. ASSUME NEW h \in ids
        PROVE  /\ args.delete /\ h \in covered
               /\ args.check => job["check"][h] = "green"
               /\ ~Blocks(job["audit"][h])
    BY DEF IInv, Within, Exported, Checked, Audited, Following, Finished
  <2> QED
    BY <2>1 DEF RemovalsHold, RemovalFollowsExport, ZeroMeansRemoved, IInv, Past, Settled, Awaited
<1> QED
  BY <1>1, <1>2, <1>3, PTL DEF Spec

-----------------------------------------------------------------------------
(* DockerGroup.                                                                *)

\* A retention is a number of seconds, and no session is connected during the launch.
GroupWellFormed == Retention \in Nat /\ None \notin Nat /\ ~ConnectDuringLaunch

-----------------------------------------------------------------------------
(* The inductive invariant.                                                    *)

Times ==
    /\ now \in Nat /\ finishedAt \in K!Time /\ cleanupAfter \in K!Time /\ deadline \in K!Time
    /\ scanEnd \in K!Time /\ rerunEnd \in K!Time /\ removedAt \in K!Time
    /\ crashes \in Nat
    /\ confirmed \in BOOLEAN /\ requested \in BOOLEAN /\ removed \in BOOLEAN

BeforeStart == {"idle", "created", "creating", "settling", "ready"}
Launched == {"launched", "started"}

\* The start request has the run for itself until it is done.
OneHand ==
    /\ lpc = "idle" => launch = "absent"
    /\ launch = "absent" => lpc = "idle"
    /\ lpc # "done" => launch # "final" /\ wpc = "none"
    /\ launch = "final" => wpc = "none"

\* MP VM starts the scan once the request is recorded, and the task again after the scan.
Remote ==
    /\ lpc \in BeforeStart => ~requested
    /\ lpc = "starting" => requested
    /\ ~requested \/ lpc = "starting" => scan = "none"
    /\ rerun # "none" => scan = "finished"
    /\ scan = "finished" => scanEnd \in Nat /\ scanEnd <= now
    /\ rerun = "finished" => rerunEnd \in Nat /\ rerunEnd >= scanEnd
    /\ confirmed => scan = "finished"

\* The cleanup goes past its loop only for a run that has ended, after its scan.
Late ==
    /\ cpc # "none" => cleanupAfter # None
    /\ cpc = "waiting" => deadline # None
    /\ cpc \in {"waiting", "recording"} \/ removed \/ removedAt # None =>
          launch = "final" /\ scan # "running"

\* Only a creation whose wait has not ended well can be under way.
Created ==
    /\ lpc \in {"creating", "settling"} => state = "creating"
    /\ group \in {"absent", "pending", "present"}
    /\ lpc \in {"ready", "starting"} \cup Launched => group # "pending"
    /\ group = "pending" => K!CreationUnseen
    /\ (cpc = "recording" /\ group = "present") \/ (removed /\ group # "absent") => K!CreationUnseen

\* Without a crash the deadline is reckoned from the end of the scan: the worker is the
\* first to write it, or the cleanup that confirms the end writes it anew.
Reckoned ==
    crashes = 0 =>
        /\ lpc \in BeforeStart \cup {"starting"} \cup Launched => cleanupAfter = None
        /\ lpc # "done" \/ wpc = "monitoring" => ~confirmed
        /\ wpc \in {"monitoring", "terminal"} => cleanupAfter = None
        /\ lpc = "done" /\ launch = "active" => wpc # "none"
        /\ confirmed =>
              \/ wpc = "terminal" /\ finishedAt # None /\ finishedAt >= scanEnd
              \/ cleanupAfter # None /\ cleanupAfter >= scanEnd + Retention
        /\ cpc = "waiting" /\ scan = "finished" => deadline >= scanEnd + Retention
        /\ removedAt # None /\ scan = "finished" => removedAt >= scanEnd + Retention

GroupInv == Times /\ OneHand /\ Remote /\ Late /\ Created /\ Reckoned

USE DEF GroupInv, Times, K!Time, OneHand, Remote, Late, Created, K!CreationUnseen, Reckoned,
        BeforeStart, Launched, K!row, K!lifecycle, K!threads, K!mpvm, K!world

LEMMA InitialState == GroupWellFormed /\ K!Init => GroupInv
<1> SUFFICES ASSUME GroupWellFormed, K!Init PROVE GroupInv
    OBVIOUS
<1> USE DEF GroupWellFormed, K!Init
<1>1. Times /\ OneHand
    OBVIOUS
<1>2. Remote
    OBVIOUS
<1>3. Late
    OBVIOUS
<1>4. Created
    OBVIOUS
<1>5. Reckoned
    OBVIOUS
<1> QED BY <1>1, <1>2, <1>3, <1>4, <1>5

-----------------------------------------------------------------------------
(* The steps.                                                                  *)

\* The start request: nobody else has the run, so nothing is removed meanwhile.
LEMMA LaunchSteps == ASSUME GroupWellFormed, GroupInv, K!Launch PROVE GroupInv'
<1> USE DEF GroupWellFormed, K!Launching
<1>1. CASE K!CreateRun
    BY <1>1 DEF K!CreateRun
<1>2. CASE K!BeginCreate
    BY <1>2 DEF K!BeginCreate
<1>3. CASE K!CreateAccepted
    BY <1>3 DEF K!CreateAccepted
<1>4. CASE K!CreateDone
    BY <1>4 DEF K!CreateDone
<1>5. CASE K!CreateFails
    BY <1>5 DEF K!CreateFails
<1>6. CASE K!RequestStart
    BY <1>6 DEF K!RequestStart
<1>7. CASE K!StartAccepted
    BY <1>7 DEF K!StartAccepted
<1>8. ASSUME NEW accepted \in BOOLEAN, K!StartFails(accepted) PROVE GroupInv'
    BY <1>8 DEF K!StartFails
<1>9. CASE K!RecordStarted
    BY <1>9 DEF K!RecordStarted
<1>10. CASE K!ProvisionalFailure
    BY <1>10 DEF K!ProvisionalFailure, K!ScheduleCleanup
<1>11. CASE K!FinishProvisional
    BY <1>11 DEF K!FinishProvisional
<1>12. CASE K!HandOver
    BY <1>12 DEF K!HandOver
<1> QED BY <1>1, <1>2, <1>3, <1>4, <1>5, <1>6, <1>7, <1>8, <1>9, <1>10, <1>11, <1>12 DEF K!Launch

\* The latest run of the task ends no earlier than the scan of the launch.
LEMMA LatestEnd ==
    ASSUME GroupWellFormed, GroupInv, K!LatestRun # "none", K!StateOf(K!LatestRun) = "finished"
    PROVE  scan = "finished" /\ K!EndOf(K!LatestRun) \in Nat /\ K!EndOf(K!LatestRun) >= scanEnd
BY DEF GroupWellFormed, K!LatestRun, K!StateOf, K!EndOf

LEMMA WorkerSteps == ASSUME GroupWellFormed, GroupInv, K!Worker PROVE GroupInv'
<1> USE DEF GroupWellFormed
<1>1. CASE K!SeeRun
    BY <1>1 DEF K!SeeRun
<1>2. CASE K!SeeTerminal
    BY <1>2, LatestEnd DEF K!SeeTerminal
<1>3. CASE K!GiveUp
    <2> USE <1>3 DEF K!GiveUp
    <2>1. Times' /\ OneHand' /\ Late' /\ Created'
        OBVIOUS
    <2>2. Remote'
        OBVIOUS
    <2>3. Reckoned'
        OBVIOUS
    <2> QED BY <2>1, <2>2, <2>3
<1>4. CASE K!CloseRun
    BY <1>4 DEF K!CloseRun, K!ScheduleCleanup
<1>5. CASE K!FinishRun
    BY <1>5 DEF K!FinishRun
<1> QED BY <1>1, <1>2, <1>3, <1>4, <1>5 DEF K!Worker

LEMMA CleanupSteps == ASSUME GroupWellFormed, GroupInv, K!Cleanup PROVE GroupInv'
<1> USE DEF GroupWellFormed
<1>1. CASE K!CleanupReady
    BY <1>1 DEF K!CleanupReady, K!TerminalConfirmed, K!LatestRun
<1>2. CASE K!CleanupConfirms
    BY <1>2, LatestEnd DEF K!CleanupConfirms
<1>3. CASE K!RemoveGroup
    BY <1>3 DEF K!RemoveGroup
<1>4. CASE K!RecordRemoved
    BY <1>4 DEF K!RecordRemoved
<1>5. CASE K!CleanupRetries
    BY <1>5 DEF K!CleanupRetries
<1>6. CASE K!CleanupWaits
    BY <1>6 DEF K!CleanupWaits, K!vars
<1> QED BY <1>1, <1>2, <1>3, <1>4, <1>5, <1>6 DEF K!Cleanup

LEMMA MpVmSteps == ASSUME GroupWellFormed, GroupInv, K!MpVm PROVE GroupInv'
<1> USE DEF GroupWellFormed
<1>1. CASE K!GroupAppears
    BY <1>1 DEF K!GroupAppears
<1>2. CASE K!ScanEnds
    BY <1>2 DEF K!ScanEnds
<1>3. CASE K!TaskStartedAgain
    BY <1>3 DEF K!TaskStartedAgain
<1>4. CASE K!RerunEnds
    BY <1>4 DEF K!RerunEnds
<1> QED BY <1>1, <1>2, <1>3, <1>4 DEF K!MpVm

LEMMA OtherSteps ==
    ASSUME GroupWellFormed, GroupInv, K!Connect \/ K!Crash \/ K!Tick \/ K!Finished PROVE GroupInv'
<1> USE DEF GroupWellFormed
<1>1. CASE K!Connect
    BY <1>1 DEF K!Connect, K!ScheduleCleanup
<1>2. CASE K!Crash
    BY <1>2 DEF K!Crash
<1>3. CASE K!Tick
    BY <1>3 DEF K!Tick
<1>4. CASE K!Finished
    BY <1>4 DEF K!Finished, K!vars
<1> QED BY <1>1, <1>2, <1>3, <1>4

HIDE DEF GroupInv

LEMMA InvariantIsInductive == ASSUME GroupWellFormed PROVE K!Spec => []GroupInv
<1>1. K!Init => GroupInv
    BY InitialState
<1>2. GroupInv /\ [K!Next]_(K!vars) => GroupInv'
    <2> SUFFICES ASSUME GroupInv, [K!Next]_(K!vars) PROVE GroupInv'
        OBVIOUS
    <2>1. CASE UNCHANGED K!vars
        BY <2>1 DEF GroupInv, K!vars
    <2> QED BY <2>1, LaunchSteps, WorkerSteps, CleanupSteps, MpVmSteps, OtherSteps
            DEF K!Next
<1> QED BY <1>1, <1>2, PTL DEF K!Spec

-----------------------------------------------------------------------------
(* The theorem.                                                                *)

\* The group is removed only after the scan and the run have ended and, if the process did
\* not crash, not before the retention has passed; and a row that says removed is right, but
\* for a creation whose wait was given up.
THEOREM GroupIsKept == ASSUME GroupWellFormed PROVE K!Spec => []GroupStays
<1>1. GroupInv => GroupStays
    BY DEF GroupStays, GroupInv, K!GroupStays, K!GroupOutlivesItsUse, K!RetentionRespected, K!RemovalIsTrue
<1>2. K!Spec => []GroupInv
    BY InvariantIsInductive
<1> QED BY <1>1, <1>2, PTL

-----------------------------------------------------------------------------
(* BulkRefresh.                                                              *)

Before == {"none", "queued", "selecting"}
Joined == {"ending", "over"}

\* The threads work between the selection and the join; a child that runs was tracked, or
\* its thread is about to track it; and the row changes after its end only by the handler,
\* which writes once.
Quiet ==
    /\ coord \in Before \cup Joined \cup {"waiting", "sweeping", "joining"}
    /\ worker \in [Assets -> {"new", "collected", "done", "failed", "cancelled"} \cup B!InPool]
    /\ child \in [Assets -> {"none", "active", "cancelling", "completed", "failed", "cancelled"}]
    /\ coord = "none" <=> op = "absent"
    /\ coord \in Before => \A a \in Assets : worker[a] = "new" /\ child[a] = "none"
    /\ coord \in Joined => \A a \in Assets : worker[a] \notin B!InPool
    /\ coord \notin Before => outcome \in B!Terminal
    /\ \A a \in Assets : child[a] = "active" => a \in tracked \/ worker[a] = "started"
    /\ coord \in Joined /\ outcome = "cancelled" => \A a \in Assets : child[a] # "active"
    /\ listed \subseteq Assets
    /\ handler \in [at : {"idle", "children", "writing", "over"}, children : SUBSET Assets]
    /\ handler.at # "idle" => op # "absent"
    /\ overwritten => handler.at = "over"
    /\ op \in B!Terminal => coord = "over" /\ op = outcome
    /\ coord = "over" => op = outcome \/ overwritten

LEMMA QuietInitially == B!Init => Quiet
BY DEF B!Init, Quiet, Before, Joined, B!InPool, B!Terminal, B!NoHandler

\* Only the coordinator makes room in the pool, before it joins the threads.
LEMMA CoordinatorQuiet == ASSUME Quiet, B!Coordinate PROVE Quiet'
<1> USE DEF Quiet, Before, Joined, B!InPool, B!Terminal, B!CoordFrame, B!operation, B!outside, B!Move
<1>1. CASE B!Begin
    BY <1>1 DEF B!Begin
<1>2. CASE B!Select
    BY <1>2 DEF B!Select
<1>3. CASE B!SeeCancel
    BY <1>3 DEF B!SeeCancel
<1>4. CASE B!ProgressRaises
    BY <1>4 DEF B!ProgressRaises
<1>5. CASE B!AllCollected
    BY <1>5 DEF B!AllCollected
<1>6. CASE B!Sweep
    BY <1>6 DEF B!Sweep, B!Told
<1>7. CASE B!Join
    <2>1. CASE outcome = "cancelled"
        BY <1>7, <2>1 DEF B!Join, B!Joined, B!Told
    <2>2. CASE outcome # "cancelled"
        BY <1>7, <2>2 DEF B!Join, B!Joined
    <2> QED BY <2>1, <2>2
<1>8. CASE B!End
    BY <1>8 DEF B!End
<1>9. ASSUME NEW a \in Assets, B!Submit(a) PROVE Quiet'
    BY <1>9 DEF B!Submit
<1>10. ASSUME NEW a \in Assets, B!Collect(a) PROVE Quiet'
    BY <1>10 DEF B!Collect
<1> QED BY <1>1, <1>2, <1>3, <1>4, <1>5, <1>6, <1>7, <1>8, <1>9, <1>10 DEF B!Coordinate

LEMMA WorkerQuiet == ASSUME Quiet, NEW a \in Assets, B!Work(a) PROVE Quiet'
<1> USE DEF Quiet, Before, Joined, B!InPool, B!Terminal, B!WorkerFrame, B!outside, B!Move
<1>1. CASE B!Acquire(a)
    BY <1>1 DEF B!Acquire
<1>2. CASE B!SeesEvent(a)
    BY <1>2 DEF B!SeesEvent
<1>3. CASE B!Call(a)
    BY <1>3 DEF B!Call
<1>4. CASE B!StartChild(a)
    BY <1>4 DEF B!StartChild
<1>5. CASE B!Track(a)
    BY <1>5 DEF B!Track
<1>6. CASE B!Register(a)
    BY <1>6 DEF B!Register
<1>7. CASE B!Awaited(a)
    BY <1>7 DEF B!Awaited
<1> QED BY <1>1, <1>2, <1>3, <1>4, <1>5, <1>6, <1>7 DEF B!Work

LEMMA OthersQuiet ==
    ASSUME Quiet, \/ B!Request \/ B!Cancel \/ B!CancelChildren \/ B!WriteCancelling
                  \/ \E a \in Assets : B!ChildEnds(a)
                  \/ B!OthersTake \/ B!OthersRelease \/ UNCHANGED B!vars
    PROVE  Quiet'
<1> USE DEF Quiet, Before, Joined, B!InPool, B!Terminal, B!operation, B!outside
<1>1. CASE B!Request
    BY <1>1 DEF B!Request
<1>2. CASE B!Cancel
    BY <1>2 DEF B!Cancel, B!ActiveStatuses
<1>3. CASE B!CancelChildren
    BY <1>3 DEF B!CancelChildren, B!Told
<1>4. CASE B!WriteCancelling
    BY <1>4 DEF B!WriteCancelling
<1>5. ASSUME NEW a \in Assets, B!ChildEnds(a) PROVE Quiet'
    BY <1>5 DEF B!ChildEnds
<1>6. CASE B!OthersTake \/ B!OthersRelease \/ UNCHANGED B!vars
    BY <1>6 DEF B!OthersTake, B!OthersRelease, B!vars
<1> QED BY <1>1, <1>2, <1>3, <1>4, <1>5, <1>6

\* An ended refresh does nothing any more, and a cancelled one has no child that was not
\* told to stop; for any cards, pool, slots and other refreshes.
THEOREM RefreshIsQuiet == B!Spec => []EndedRefreshIsQuiet
<1>1. Quiet /\ [B!Next]_B!vars => Quiet'
    BY CoordinatorQuiet, WorkerQuiet, OthersQuiet DEF B!Next
<1>2. Quiet => EndedRefreshIsQuiet
    BY DEF EndedRefreshIsQuiet, Quiet, Joined, B!EndedRefreshIsQuiet
<1> HIDE DEF Quiet
<1> QED BY QuietInitially, <1>1, <1>2, PTL DEF B!Spec

-----------------------------------------------------------------------------
(* Access.                                                                   *)

Rows == [owner : Users, expires : Int, revoked : BOOLEAN]
Requested == {"idle", "create", "rotate", "delete", "open"}
Points == {"idle", "owner", "token", "count", "insert", "cascade", "session"}
Jobs == [op : Requested, at : Points, user : Users \cup {None}, token : A!Tokens \cup {None},
         since : Int, until : Int]

\* The limit and the times are numbers, and None is neither a thread nor a row.
AccessWellFormed ==
    /\ MaxTokens \in Nat /\ MaxActive \in Nat /\ Lifetime \in Nat /\ Grace \subseteq Nat
    /\ None \notin Threads \cup Users \cup A!Tokens \cup Rows

\* A rotation holds its token from the status test on, and whoever counts the tokens of an
\* owner holds the owner: the rows they hold are theirs until they answer.
Locks ==
    /\ hour \in Int
    /\ token \in [A!Tokens -> Rows \cup {None}]
    /\ locked \in [Users \cup A!Tokens -> Threads \cup {None}]
    /\ task \in [Threads -> Jobs]
    /\ \A t \in Threads :
          /\ task[t].op \in {"create", "rotate", "delete"} => task[t].user \in Users
          /\ task[t].op = "rotate" => task[t].token \in A!Tokens
          /\ task[t].at \in {"count", "insert"} =>
                task[t].op \in {"create", "rotate"} /\ locked[task[t].user] = t
          /\ task[t].op = "rotate" /\ task[t].at # "token" =>
                locked[task[t].token] = t /\ token[task[t].token] # None

\* Between the count and the insert the number of working tokens does not grow.
Counted ==
    /\ A!TokensWithinLimit
    /\ \A t \in Threads, u \in Users : task[t].at = "insert" /\ task[t].user = u =>
          Cardinality(A!ActiveTokens(u)) < MaxActive

\* A token whose end was acknowledged stays revoked, or its row is gone for good.
Ceased ==
    /\ lived \subseteq A!Tokens
    /\ \A k \in lived : token[k] = None \/ token[k].revoked

AccessInv == Locks /\ Counted /\ Ceased

\* The module Access has its copy of the operators of FiniteSets.
LEMMA SameSize == \A S : A!Cardinality(S) = Cardinality(S)
BY DEF Cardinality, A!Cardinality, IsFiniteSet, A!IsFiniteSet

LEMMA FewerTokens ==
    ASSUME AccessWellFormed, NEW S \in SUBSET A!Tokens, NEW W \in SUBSET S
    PROVE  /\ IsFiniteSet(S) /\ Cardinality(S) \in Nat /\ Cardinality(W) \in Nat
           /\ Cardinality(W) <= Cardinality(S)
<1>1. IsFiniteSet(A!Tokens)
    BY FS_Interval DEF AccessWellFormed, A!Tokens
<1>2. IsFiniteSet(S)
    BY <1>1, FS_Subset
<1>3. IsFiniteSet(W) /\ Cardinality(W) <= Cardinality(S)
    BY <1>2, FS_Subset
<1> QED BY <1>2, <1>3, FS_CardinalityType

\* A step after which every working token was one of the same owner before.
Fades == \A k \in A!Tokens : A!Active(k)' => A!Active(k) /\ token'[k].owner = token[k].owner

LEMMA FadingKeepsCounted ==
    ASSUME AccessWellFormed, AccessInv, Fades,
           \A t \in Threads, u \in Users : task'[t].at = "insert" /\ task'[t].user = u =>
               \/ task[t].at = "insert" /\ task[t].user = u
               \/ Cardinality(A!ActiveTokens(u)) < MaxActive
    PROVE  Counted'
<1>1. ASSUME NEW u \in Users
      PROVE  /\ Cardinality(A!ActiveTokens(u)) \in Nat /\ Cardinality(A!ActiveTokens(u)') \in Nat
             /\ Cardinality(A!ActiveTokens(u)') <= Cardinality(A!ActiveTokens(u))
    <2>1. A!ActiveTokens(u) \in SUBSET A!Tokens /\ A!ActiveTokens(u)' \in SUBSET A!ActiveTokens(u)
        BY DEF Fades, A!ActiveTokens
    <2> QED BY <2>1, FewerTokens
<1>2. ASSUME NEW u \in Users PROVE Cardinality(A!ActiveTokens(u)') <= MaxActive
    <2>1. Cardinality(A!ActiveTokens(u)) <= MaxActive
        BY SameSize DEF AccessInv, Counted, A!TokensWithinLimit
    <2> QED BY <1>1, <2>1 DEF AccessWellFormed
<1>3. ASSUME NEW t \in Threads, NEW u \in Users, task'[t].at = "insert" /\ task'[t].user = u
      PROVE  Cardinality(A!ActiveTokens(u)') < MaxActive
    <2>1. Cardinality(A!ActiveTokens(u)) < MaxActive
        BY <1>3 DEF AccessInv, Counted
    <2> QED BY <1>1, <2>1 DEF AccessWellFormed
<1> QED BY <1>2, <1>3, SameSize DEF Counted, A!TokensWithinLimit

\* A thread that answers gives up its own rows only.
LEMMA AnswerKeepsLocks ==
    ASSUME AccessWellFormed, AccessInv, NEW t \in Threads, A!Answered(t),
           hour' \in Int, token' \in [A!Tokens -> Rows \cup {None}],
           \A k \in A!Tokens : token[k] # None /\ locked[k] \notin {None, t} => token'[k] # None
    PROVE  /\ Locks'
           /\ \A u \in Threads : u # t => task'[u] = task[u]
           /\ task'[t].at = "idle"
<1>1. task' \in [Threads -> Jobs] /\ task'[t] = A!Idle /\ \A u \in Threads : u # t => task'[u] = task[u]
    <2>1. A!Idle \in Jobs
        BY DEF A!Idle, Jobs, Requested, Points
    <2> QED BY <2>1 DEF AccessInv, Locks, A!Answered
<1>2. /\ locked' \in [Users \cup A!Tokens -> Threads \cup {None}]
      /\ \A r \in Users \cup A!Tokens : locked[r] # t => locked'[r] = locked[r]
    BY DEF AccessInv, Locks, A!Answered, A!Released
<1>3. ASSUME NEW u \in Threads, u # t
      PROVE  /\ task'[u].at \in {"count", "insert"} => locked'[task'[u].user] = u
             /\ task'[u].op = "rotate" /\ task'[u].at # "token" =>
                   locked'[task'[u].token] = u /\ token'[task'[u].token] # None
    BY <1>1, <1>2, <1>3 DEF AccessInv, Locks, AccessWellFormed
<1> QED BY <1>1, <1>2, <1>3 DEF AccessInv, Locks, A!Idle

Arrivals == \A t \in Threads, u \in Users : task'[t].at = "insert" /\ task'[t].user = u =>
    \/ task[t].at = "insert" /\ task[t].user = u
    \/ Cardinality(A!ActiveTokens(u)) < MaxActive

\* Most steps change no token.
LEMMA TokensKept ==
    ASSUME AccessWellFormed, AccessInv, Locks', UNCHANGED <<token, lived>>, hour' \in {hour, hour + 1},
           Arrivals
    PROVE  AccessInv'
<1>1. Fades
    BY DEF Fades, A!Active, AccessInv, Locks, Rows
<1>2. Counted'
    BY <1>1, FadingKeepsCounted DEF Arrivals
<1> QED BY <1>2 DEF AccessInv, Ceased

LEMMA RefusalKeeps ==
    ASSUME AccessWellFormed, AccessInv, NEW t \in Threads, A!Refused(t)
    PROVE  AccessInv'
<1>1. A!Answered(t) /\ UNCHANGED <<hour, token, lived>>
    BY DEF A!Refused
<1>2. hour' \in Int /\ token' \in [A!Tokens -> Rows \cup {None}]
    BY <1>1 DEF AccessInv, Locks
<1>3. /\ Locks' /\ task'[t].at = "idle"
      /\ \A u \in Threads : u # t => task'[u] = task[u]
    BY <1>1, <1>2, AnswerKeepsLocks
<1>4. Arrivals
    BY <1>3 DEF Arrivals
<1> QED BY <1>1, <1>3, <1>4, TokensKept

\* A thread that begins holds nothing yet.
LEMMA BeginKeeps ==
    ASSUME AccessWellFormed, AccessInv, NEW t \in Threads,
           NEW what \in Requested, NEW at \in {"owner", "token", "session"},
           NEW u \in Users \cup {None}, NEW k \in A!Tokens \cup {None}, NEW until \in Int,
           what = "rotate" => at = "token" /\ k \in A!Tokens,
           what \in {"create", "rotate", "delete"} => u \in Users, A!Begin(t, what, at, u, k, until)
    PROVE  AccessInv'
<1>1. task' = [task EXCEPT ![t] = [op |-> what, at |-> at, user |-> u, token |-> k,
                                   since |-> hour, until |-> until]]
    BY DEF A!Begin
<1>2. task' \in [Threads -> Jobs]
    <2>1. [op |-> what, at |-> at, user |-> u, token |-> k, since |-> hour, until |-> until] \in Jobs
        BY DEF AccessInv, Locks, Jobs, Points
    <2> QED BY <1>1, <2>1 DEF AccessInv, Locks
<1>3. UNCHANGED <<hour, token, locked, lived>>
    BY DEF A!Begin
<1>4. \A v \in Threads : v # t => task'[v] = task[v]
    BY <1>1 DEF AccessInv, Locks
<1>5. task'[t].op = what /\ task'[t].at = at /\ task'[t].user = u /\ task'[t].token = k
    BY <1>1 DEF AccessInv, Locks
<1>6. Locks'
    BY <1>2, <1>3, <1>4, <1>5 DEF AccessInv, Locks
<1>7. Arrivals
    BY <1>4, <1>5 DEF Arrivals
<1>8. hour' \in {hour, hour + 1}
    BY <1>3
<1> QED BY <1>3, <1>6, <1>7, <1>8, TokensKept

\* Locks that a thread takes for itself.
LEMMA LockKeeps ==
    ASSUME AccessWellFormed, AccessInv, NEW t \in Threads,
           A!LockToken(t) \/ A!LockOwner(t) \/ A!LockDeleted(t)
    PROVE  AccessInv'
<1>1. CASE A!Refused(t)
    BY <1>1, RefusalKeeps
<1>2. CASE ~A!Refused(t)
    <2>1. PICK r \in {task[t].token, task[t].user}, at \in {"owner", "count", "cascade"} :
              /\ locked[r] \in {None, t} /\ locked' = [locked EXCEPT ![r] = t]
              /\ task' = [task EXCEPT ![t].at = at]
              /\ UNCHANGED <<hour, user, token, session, requests, lived>>
        BY <1>2 DEF A!LockToken, A!LockOwner, A!LockDeleted, A!Free
    <2>2. /\ task' \in [Threads -> Jobs] /\ task'[t] = [task[t] EXCEPT !.at = at]
          /\ \A u \in Threads : u # t => task'[u] = task[u]
        <3>1. [task[t] EXCEPT !.at = at] \in Jobs
            BY DEF AccessInv, Locks, Jobs, Points
        <3> QED BY <2>1, <3>1 DEF AccessInv, Locks
    <2>3. /\ locked' \in [Users \cup A!Tokens -> Threads \cup {None}]
          /\ \A q \in Users \cup A!Tokens : locked[q] \in Threads => locked'[q] = locked[q]
          /\ r \in Users \cup A!Tokens => locked'[r] = t
        BY <2>1 DEF AccessInv, Locks, AccessWellFormed
    <2>4. ASSUME NEW u \in Threads, u # t
          PROVE  /\ task'[u].at \in {"count", "insert"} => locked'[task'[u].user] = u
                 /\ task'[u].op = "rotate" /\ task'[u].at # "token" =>
                       locked'[task'[u].token] = u /\ token'[task'[u].token] # None
        BY <2>1, <2>2, <2>3, <2>4 DEF AccessInv, Locks
    <2>5. /\ task'[t].op = task[t].op /\ task'[t].user = task[t].user /\ task'[t].token = task[t].token
          /\ task'[t].at = at
        BY <2>2 DEF AccessInv, Locks, Jobs
    <2>6. /\ at = "count" => task[t].op \in {"create", "rotate"} /\ locked'[task[t].user] = t
          /\ task[t].op = "rotate" => locked'[task[t].token] = t /\ token[task[t].token] # None
        <3>1. CASE A!LockToken(t)
            <4>1. /\ task[t].op = "rotate" /\ token[task[t].token] # None
                  /\ locked' = [locked EXCEPT ![task[t].token] = t]
                  /\ task' = [task EXCEPT ![t].at = "owner"]
                BY <1>2, <3>1 DEF A!LockToken
            <4> QED BY <4>1, <2>2, <2>5 DEF AccessInv, Locks
        <3>2. CASE A!LockOwner(t)
            <4>1. /\ task[t].op \in {"create", "rotate"} /\ task[t].at = "owner"
                  /\ locked' = [locked EXCEPT ![task[t].user] = t]
                BY <1>2, <3>2 DEF A!LockOwner
            <4> QED BY <4>1, <2>3 DEF AccessInv, Locks
        <3>3. CASE A!LockDeleted(t)
            <4>1. task[t].op = "delete" /\ task' = [task EXCEPT ![t].at = "cascade"]
                BY <1>2, <3>3 DEF A!LockDeleted
            <4> QED BY <4>1, <2>2, <2>5 DEF AccessInv, Locks
        <3> QED BY <3>1, <3>2, <3>3
    <2>7. Locks'
        BY <2>1, <2>2, <2>3, <2>4, <2>5, <2>6 DEF AccessInv, Locks
    <2>8. Arrivals
        BY <2>2, <2>5 DEF Arrivals
    <2> QED BY <2>1, <2>7, <2>8, TokensKept
<1> QED BY <1>1, <1>2

LEMMA CountKeeps ==
    ASSUME AccessWellFormed, AccessInv, NEW t \in Threads, A!Count(t) PROVE AccessInv'
<1>1. CASE A!Refused(t)
    BY <1>1, RefusalKeeps
<1>2. CASE ~A!Refused(t)
    <2>1. /\ task[t].at = "count" /\ A!Cardinality(A!ActiveTokens(task[t].user)) < MaxActive
          /\ task' = [task EXCEPT ![t].at = "insert"]
          /\ UNCHANGED <<hour, token, locked, lived>>
        BY <1>2 DEF A!Count
    <2>2. /\ task' \in [Threads -> Jobs] /\ task'[t] = [task[t] EXCEPT !.at = "insert"]
          /\ \A u \in Threads : u # t => task'[u] = task[u]
        <3>1. [task[t] EXCEPT !.at = "insert"] \in Jobs
            BY DEF AccessInv, Locks, Jobs, Points
        <3> QED BY <2>1, <3>1 DEF AccessInv, Locks
    <2>3. /\ task'[t].op = task[t].op /\ task'[t].user = task[t].user /\ task'[t].token = task[t].token
          /\ task'[t].at = "insert"
        BY <2>2 DEF AccessInv, Locks, Jobs
    <2>4. Locks'
        BY <2>1, <2>2, <2>3 DEF AccessInv, Locks
    <2>5. Arrivals
        BY <2>1, <2>2, <2>3, SameSize DEF Arrivals
    <2> QED BY <2>1, <2>4, <2>5, TokensKept
<1> QED BY <1>1, <1>2

LEMMA RowsEnd ==
    ASSUME NEW r \in Rows, NEW e \in Int
    PROVE  /\ LET n == [r EXCEPT !.revoked = TRUE] IN
              n \in Rows /\ n.owner = r.owner /\ n.expires = r.expires /\ n.revoked
           /\ LET n == [r EXCEPT !.expires = A!Earlier(@, e)] IN
              n \in Rows /\ n.owner = r.owner /\ n.expires <= r.expires /\ n.revoked = r.revoked
<1>1. r.expires \in Int /\ r.owner \in Users /\ r.revoked \in BOOLEAN
    BY DEF Rows
<1>2. A!Earlier(r.expires, e) \in Int /\ A!Earlier(r.expires, e) <= r.expires
    BY <1>1 DEF A!Earlier
<1> QED BY <1>1, <1>2 DEF Rows

\* The new token is the one that was counted; a rotation ends the old one no later.
LEMMA InsertKeeps ==
    ASSUME AccessWellFormed, AccessInv, NEW t \in Threads, A!Insert(t) PROVE AccessInv'
<1> DEFINE old == task[t].token
           new == [owner |-> task[t].user, expires |-> hour + Lifetime, revoked |-> FALSE]
           ends == [token[old] EXCEPT !.revoked = TRUE]
           fades == [token[old] EXCEPT !.expires = A!Earlier(@, task[t].until)]
<1>1. PICK k \in A!Tokens :
         /\ task[t].at = "insert" /\ A!Unused(k) /\ A!Answered(t) /\ hour' = hour
         /\ \/ task[t].op = "create" /\ token' = [token EXCEPT ![k] = new] /\ lived' = lived
            \/ task[t].op # "create" /\ token' = [token EXCEPT ![k] = new, ![old] = ends]
               /\ lived' = lived \cup {old}
            \/ task[t].op # "create" /\ token' = [token EXCEPT ![k] = new, ![old] = fades]
               /\ lived' = lived
    <2>1. PICK k \in A!Tokens :
             /\ task[t].at = "insert" /\ A!Unused(k) /\ A!Answered(t) /\ hour' = hour
             /\ IF task[t].op = "create"
                THEN token' = [token EXCEPT ![k] = new] /\ lived' = lived
                ELSE IF task[t].until = task[t].since
                THEN /\ token' = [token EXCEPT ![k] = new, ![old].revoked = TRUE]
                     /\ lived' = lived \cup {old}
                ELSE token' = [token EXCEPT ![k] = new, ![old].expires = A!Earlier(@, task[t].until)]
                     /\ lived' = lived
        BY DEF A!Insert
    <2>2. task[t].op # "create" => old \in A!Tokens /\ old # k
        BY <2>1 DEF AccessInv, Locks, A!Unused
    <2>3. [token EXCEPT ![k] = new][old] = token[old] \/ ~(task[t].op # "create")
        BY <2>2 DEF AccessInv, Locks
    <2> QED BY <2>1, <2>2, <2>3
<1>2. /\ task[t].user \in Users /\ locked[task[t].user] = t /\ task[t].op \in {"create", "rotate"}
      /\ task[t].op # "create" => old \in A!Tokens /\ token[old] \in Rows /\ old # k
    BY <1>1 DEF AccessInv, Locks, A!Unused
<1>3. new \in Rows
    BY <1>2 DEF Rows, AccessInv, Locks, AccessWellFormed
<1>4. task[t].op # "create" =>
         /\ ends \in Rows /\ ends.owner = token[old].owner
         /\ ends.expires = token[old].expires /\ ends.revoked
         /\ fades \in Rows /\ fades.owner = token[old].owner /\ fades.expires <= token[old].expires
         /\ fades.revoked = token[old].revoked
    <2>1. task[t].until \in Int
        BY DEF AccessInv, Locks, Jobs
    <2> QED BY <1>2, <2>1, RowsEnd
<1>5. /\ token' \in [A!Tokens -> Rows \cup {None}] /\ token'[k] = new
      /\ \A l \in A!Tokens \ {k} :
            /\ token[l] = None => token'[l] = None
            /\ token[l] # None => /\ token'[l] # None /\ token'[l].owner = token[l].owner
                                  /\ token'[l].expires <= token[l].expires
                                  /\ token[l].revoked => token'[l].revoked
    <2> HIDE DEF old, new, ends, fades
    <2>0. /\ None \notin Rows
          /\ \A l \in A!Tokens : token[l] # None => token[l] \in Rows /\ token[l].expires \in Int
        BY DEF AccessInv, Locks, AccessWellFormed, Rows
    <2>1. CASE task[t].op = "create"
        BY <1>1, <1>3, <2>0, <2>1 DEF AccessInv, Locks
    <2>2. CASE task[t].op # "create" /\ token' = [token EXCEPT ![k] = new, ![old] = ends]
        BY <1>1, <1>2, <1>3, <1>4, <2>0, <2>2 DEF AccessInv, Locks
    <2>3. CASE task[t].op # "create" /\ token' = [token EXCEPT ![k] = new, ![old] = fades]
        BY <1>1, <1>2, <1>3, <1>4, <2>0, <2>3 DEF AccessInv, Locks
    <2> QED BY <1>1, <2>1, <2>2, <2>3
<1>6. \/ lived' = lived
      \/ old \in A!Tokens /\ old # k /\ lived' = lived \cup {old} /\ token'[old].revoked
    BY <1>1, <1>2, <1>4 DEF AccessInv, Locks
<1>7. Ceased'
    BY <1>1, <1>5, <1>6 DEF AccessInv, Ceased, A!Unused
<1>8. /\ Locks' /\ task'[t].at = "idle"
      /\ \A u \in Threads : u # t => task'[u] = task[u]
    <2> HIDE DEF new
    <2>1. \A l \in A!Tokens : token[l] # None => token'[l] # None
        BY <1>1, <1>5 DEF A!Unused
    <2>2. hour' \in Int
        BY <1>1 DEF AccessInv, Locks
    <2> QED BY <1>1, <1>5, <2>1, <2>2, AnswerKeepsLocks
<1>9. ASSUME NEW u \in Users
      PROVE  /\ A!ActiveTokens(u)' \subseteq A!ActiveTokens(u) \cup {k}
             /\ u # task[t].user => A!ActiveTokens(u)' \subseteq A!ActiveTokens(u)
             /\ A!ActiveTokens(u) \in SUBSET A!Tokens
    <2>1. ASSUME NEW l \in A!Tokens \ {k}, A!Active(l)'
          PROVE  A!Active(l) /\ token'[l].owner = token[l].owner
        BY <1>1, <1>5, <2>1 DEF A!Active, AccessInv, Locks, Rows
    <2>2. token'[k].owner = task[t].user
        BY <1>5
    <2> QED BY <2>1, <2>2 DEF A!ActiveTokens
<1> HIDE DEF new
<1>10. ASSUME NEW u \in Users PROVE Cardinality(A!ActiveTokens(u)') <= MaxActive
    <2>1. CASE u = task[t].user
        <3> DEFINE S == A!ActiveTokens(u)
        <3>1. IsFiniteSet(S) /\ Cardinality(S) \in Nat
            BY <1>9, FewerTokens
        <3>2. /\ IsFiniteSet(S \cup {k}) /\ Cardinality(S \cup {k}) \in Nat
              /\ Cardinality(S \cup {k}) <= Cardinality(S) + 1
            <4>1. /\ IsFiniteSet(S \cup {k})
                  /\ \/ Cardinality(S \cup {k}) = Cardinality(S)
                     \/ Cardinality(S \cup {k}) = Cardinality(S) + 1
                BY <3>1, FS_AddElement
            <4> QED BY <3>1, <4>1
        <3>3. Cardinality(S) < MaxActive
            BY <1>1, <2>1 DEF AccessInv, Counted
        <3>4. Cardinality(S') <= Cardinality(S \cup {k}) /\ Cardinality(S') \in Nat
            BY <1>9, <3>2, FS_Subset, FS_CardinalityType
        <3> QED BY <3>1, <3>2, <3>3, <3>4 DEF AccessWellFormed
    <2>2. CASE u # task[t].user
        <3>1. /\ Cardinality(A!ActiveTokens(u)) \in Nat /\ Cardinality(A!ActiveTokens(u)') \in Nat
              /\ Cardinality(A!ActiveTokens(u)') <= Cardinality(A!ActiveTokens(u))
            BY <1>9, <2>2, FewerTokens
        <3>2. Cardinality(A!ActiveTokens(u)) <= MaxActive
            BY SameSize DEF AccessInv, Counted, A!TokensWithinLimit
        <3> QED BY <3>1, <3>2 DEF AccessWellFormed
    <2> QED BY <2>1, <2>2
<1>11. ASSUME NEW v \in Threads, NEW u \in Users, task'[v].at = "insert" /\ task'[v].user = u
       PROVE  Cardinality(A!ActiveTokens(u)') < MaxActive
    <2>1. v # t /\ task[v].at = "insert" /\ task[v].user = u
        BY <1>8, <1>11
    <2>2. u # task[t].user
        BY <1>2, <2>1 DEF AccessInv, Locks
    <2>3. /\ Cardinality(A!ActiveTokens(u)) \in Nat /\ Cardinality(A!ActiveTokens(u)') \in Nat
          /\ Cardinality(A!ActiveTokens(u)') <= Cardinality(A!ActiveTokens(u))
        BY <1>9, <2>2, FewerTokens
    <2>4. Cardinality(A!ActiveTokens(u)) < MaxActive
        BY <2>1 DEF AccessInv, Counted
    <2> QED BY <2>3, <2>4 DEF AccessWellFormed
<1>12. Counted'
    BY <1>10, <1>11, SameSize DEF Counted, A!TokensWithinLimit
<1> QED BY <1>7, <1>8, <1>12 DEF AccessInv

LEMMA RevokeKeeps ==
    ASSUME AccessWellFormed, AccessInv, NEW k \in A!Tokens, A!Revoke(k) PROVE AccessInv'
<1> DEFINE ends == [token[k] EXCEPT !.revoked = TRUE]
<1>1. /\ token[k] # None /\ token' = [token EXCEPT ![k] = ends] /\ lived' = lived \cup {k}
      /\ UNCHANGED <<hour, locked, task>>
    BY DEF A!Revoke
<1>2. token[k] \in Rows /\ ends \in Rows /\ ends.owner = token[k].owner /\ ends.revoked
    <2>1. token[k] \in Rows
        BY <1>1 DEF AccessInv, Locks
    <2> QED BY <2>1, 0 \in Int, RowsEnd
<1> HIDE DEF ends
<1>3. /\ token' \in [A!Tokens -> Rows \cup {None}] /\ token'[k] = ends
      /\ \A l \in A!Tokens : l # k => token'[l] = token[l]
    BY <1>1, <1>2 DEF AccessInv, Locks
<1>4. \A l \in A!Tokens : token[l] # None => token'[l] # None
    BY <1>2, <1>3 DEF AccessWellFormed
<1>5. Locks'
    BY <1>1, <1>3, <1>4 DEF AccessInv, Locks
<1>6. Ceased'
    BY <1>1, <1>2, <1>3 DEF AccessInv, Ceased
<1>7. Fades
    BY <1>1, <1>2, <1>3 DEF Fades, A!Active
<1>8. Counted'
    BY <1>1, <1>7, FadingKeepsCounted
<1> QED BY <1>5, <1>6, <1>8 DEF AccessInv

\* The cascade waits for every token of the owner, so no rotation loses its row.
LEMMA CascadeKeeps ==
    ASSUME AccessWellFormed, AccessInv, NEW t \in Threads, A!Cascade(t) PROVE AccessInv'
<1> DEFINE owned == {k \in A!Tokens : token[k] # None /\ token[k].owner = task[t].user}
<1>1. /\ \A k \in owned : locked[k] \in {None, t}
      /\ token' = [k \in A!Tokens |-> IF k \in owned THEN None ELSE token[k]]
      /\ lived' = lived \cup owned /\ A!Answered(t) /\ hour' = hour
    BY DEF A!Cascade, A!Free
<1>2. owned \subseteq A!Tokens
    OBVIOUS
<1> HIDE DEF owned
<1>3. /\ token' \in [A!Tokens -> Rows \cup {None}] /\ hour' \in Int
      /\ \A k \in A!Tokens : token'[k] = None \/ (token'[k] = token[k] /\ k \notin owned)
      /\ \A k \in owned : token'[k] = None
    BY <1>1, <1>2 DEF AccessInv, Locks
<1>4. \A k \in A!Tokens : token[k] # None /\ locked[k] \notin {None, t} => token'[k] # None
    BY <1>1, <1>2
<1>5. Locks' /\ task'[t].at = "idle" /\ \A u \in Threads : u # t => task'[u] = task[u]
    BY <1>1, <1>3, <1>4, AnswerKeepsLocks
<1>6. Ceased'
    BY <1>1, <1>2, <1>3 DEF AccessInv, Ceased
<1>7. Fades
    BY <1>1, <1>3 DEF Fades, A!Active
<1>8. Counted'
    BY <1>5, <1>7, FadingKeepsCounted
<1> QED BY <1>5, <1>6, <1>8 DEF AccessInv

LEMMA SessionKeeps ==
    ASSUME AccessWellFormed, AccessInv, NEW t \in Threads, A!CreateSession(t) PROVE AccessInv'
<1>1. A!Answered(t) /\ UNCHANGED <<hour, token, lived>>
    BY DEF A!CreateSession
<1>2. hour' \in Int /\ token' \in [A!Tokens -> Rows \cup {None}]
    BY <1>1 DEF AccessInv, Locks
<1>3. Locks' /\ task'[t].at = "idle" /\ \A u \in Threads : u # t => task'[u] = task[u]
    BY <1>1, <1>2, AnswerKeepsLocks
<1>4. Arrivals
    BY <1>3 DEF Arrivals
<1> QED BY <1>1, <1>3, <1>4, TokensKept

LEMMA RequestKeeps ==
    ASSUME AccessWellFormed, AccessInv, NEW t \in Threads,
           A!BeginCreate(t) \/ A!BeginRotate(t) \/ A!BeginDelete(t) \/ A!OpenSession(t)
    PROVE  AccessInv'
<1>0. /\ hour \in Int
      /\ \A k \in A!Tokens : token[k] # None => token[k].owner \in Users /\ token[k].expires \in Int
    BY DEF AccessInv, Locks, Rows
<1>1. CASE A!BeginCreate(t)
    <2>1. PICK u \in Users : A!Begin(t, "create", "owner", u, None, 0)
        BY <1>1 DEF A!BeginCreate
    <2> QED BY <2>1, BeginKeeps DEF Requested
<1>2. CASE A!BeginRotate(t)
    <2>1. PICK k \in A!Tokens, g \in Grace :
              token[k] # None /\ A!Begin(t, "rotate", "token", token[k].owner, k, hour + g)
        BY <1>2 DEF A!BeginRotate
    <2>2. hour + g \in Int
        BY <1>0 DEF AccessWellFormed
    <2> QED BY <1>0, <2>1, <2>2, BeginKeeps DEF Requested
<1>3. CASE A!BeginDelete(t)
    <2>1. PICK u \in Users : A!Begin(t, "delete", "owner", u, None, 0)
        BY <1>3 DEF A!BeginDelete
    <2> QED BY <2>1, BeginKeeps DEF Requested
<1>4. CASE A!OpenSession(t)
    <2>1. PICK k \in A!Tokens :
              token[k] # None /\ A!Begin(t, "open", "session", token[k].owner, k, token[k].expires)
        BY <1>4 DEF A!OpenSession, A!Active
    <2> QED BY <1>0, <2>1, BeginKeeps DEF Requested
<1> QED BY <1>1, <1>2, <1>3, <1>4

LEMMA AccessInitially == ASSUME AccessWellFormed, A!Init PROVE AccessInv
<1>1. A!Idle \in Jobs
    BY DEF A!Idle, Jobs, Requested, Points
<1>2. Locks
    BY <1>1 DEF A!Init, Locks, A!Idle
<1>3. \A u : A!ActiveTokens(u) = {}
    BY DEF A!Init, A!ActiveTokens, A!Active
<1>4. Counted
    <2>1. Cardinality({}) = 0 /\ A!Cardinality({}) = 0
        BY SameSize, FS_EmptySet
    <2>2. \A u : A!Cardinality(A!ActiveTokens(u)) = 0
        BY <1>3, <2>1
    <2>3. \A t \in Threads : task[t].at = "idle"
        BY DEF A!Init, A!Idle
    <2> QED BY <2>2, <2>3 DEF Counted, A!TokensWithinLimit, AccessWellFormed
<1> QED BY <1>2, <1>4 DEF A!Init, AccessInv, Ceased

LEMMA AccessStep == ASSUME AccessWellFormed, AccessInv, [A!Next]_A!vars PROVE AccessInv'
<1>1. CASE A!Tick \/ UNCHANGED A!vars \/ \E u \in Users : A!EditUser(u)
    <2>1. UNCHANGED <<token, lived, locked, task>> /\ hour' \in {hour, hour + 1}
        BY <1>1 DEF A!Tick, A!EditUser, A!vars
    <2>2. Locks' /\ Arrivals
        BY <2>1 DEF AccessInv, Locks, Arrivals
    <2> QED BY <2>1, <2>2, TokensKept
<1>2. ASSUME NEW t \in Threads, A!CascadeAborts(t) PROVE AccessInv'
    BY <1>2, RefusalKeeps DEF A!CascadeAborts
<1> QED BY <1>1, <1>2, RequestKeeps, LockKeeps, CountKeeps, InsertKeeps, RevokeKeeps, CascadeKeeps,
           SessionKeeps DEF A!Next

\* For any users, tokens, threads and times: concurrent issues and rotations never give an
\* owner more working tokens than the limit, and a token whose end was acknowledged answers
\* no request, whatever session was opened in its name meanwhile.
THEOREM TokensAreBounded ==
    ASSUME AccessWellFormed PROVE A!Spec => []TokensHold
<1>1. AccessInv => TokensHold
    BY DEF TokensHold, AccessInv, Counted, Ceased, A!RevocationHolds, A!Accepted
<1>2. A!Init => AccessInv
    BY AccessInitially
<1>3. AccessInv /\ [A!Next]_A!vars => AccessInv'
    BY AccessStep
<1> HIDE DEF AccessInv
<1> QED BY <1>1, <1>2, <1>3, PTL DEF A!Spec

=============================================================================

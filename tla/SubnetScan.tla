------------------------------- MODULE SubnetScan -------------------------------
(* The command line script that scans a list of /24 subnets one after another:  *)
(* a connection check of the subnet, an audit of the hosts that answered, the    *)
(* export of their vulnerabilities, and the removal of their assets from MP VM.  *)
(* Tasks, runs, jobs and removals live in MP VM and go on when the script gives  *)
(* up on them.                                                                   *)
EXTENDS Naturals, Sequences, FiniteSets

CONSTANTS
    Subnets,    \* the sequence read from the file, without duplicates
    Hosts, NetOf,
    Known,      \* hosts that MP VM has assets of before the script runs
    Args,       \* the combinations of options
    Queries,    \* how many CSV files an export writes
    JobsLimit,  \* --precheck-jobs-limit: jobs in one answer
    None

VARIABLES
    args,
    pc, stage,      \* point in process_scan_subnet; "check" or "audit", the task it is at
    left, net,      \* subnets still to process, the current one
    found, targets, \* hosts whose check was seen to succeed, audit_targets
    queries,        \* files of this export still to write
    ids,            \* asset ids given for removal
    failed, code,   \* failed_subnets, exit status
    run, job,       \* MP VM: per stage the run of the task, and the job of each host
    assets, asked, refused, gone, \* MP VM: assets; removals accepted, failed, done
    covered         \* hosts that every file of an export asked for

locals == <<stage, net, found, targets, queries, ids, run>>
remote == <<job, assets, asked, refused, gone>>
vars == <<args, pc, left, failed, code, covered, locals, remote>>

Stages == {"check", "audit"}
\* A check tells success from everything else; only an audit that has to be clean tells
\* warnings from success.
Colours(s) == IF s = "audit" /\ args.clean THEN {"green", "yellow", "red"} ELSE {"green", "red"}
InNet(n) == {h \in Hosts : NetOf[h] = n}
Finished(s) == run[s] \in {"green", "yellow", "red"}
NoRun == [s \in Stages |-> "none"]

Init ==
    /\ args \in Args /\ pc = "prepare" /\ left = Subnets /\ failed = {} /\ code = None
    /\ stage = "check" /\ net = None /\ found = {} /\ targets = {} /\ queries = 0 /\ ids = {}
    /\ run = NoRun /\ job = [s \in Stages |-> [h \in Hosts |-> "none"]]
    /\ assets = Known /\ asked = {} /\ refused = {} /\ gone = {} /\ covered = {}

\* Within process_scan_subnet: on to the next call, or back to the loop.
Goto(point) == pc' = point /\ UNCHANGED <<failed, locals>>
Leave ==
    /\ pc' = "next" /\ stage' = "check" /\ net' = None /\ found' = {} /\ targets' = {}
    /\ queries' = 0 /\ ids' = {} /\ run' = NoRun
Return == Leave /\ failed' = failed

\* An error of MP VM or of the connection fails the subnet, and the next one follows.
SubnetRaises == Leave /\ failed' = failed \cup {net}

-----------------------------------------------------------------------------
(* The loop over the subnets.                                                  *)

Exit(c) == pc' = "end" /\ code' = c /\ UNCHANGED <<args, left, failed, covered, locals, remote>>

\* Names are resolved before the first subnet; one that is not found ends the script.
Prepare ==
    /\ pc = "prepare"
    /\ \/ args.scan /\ Exit(1)
       \/ /\ Goto(IF args.scan THEN "next" ELSE "export all")
          /\ UNCHANGED <<args, left, code, covered, remote>>

\* A dry run shows what it would create and changes nothing.
BeginSubnet ==
    /\ pc = "next" /\ left # <<>> /\ left' = Tail(left)
    /\ \/ args.dry /\ UNCHANGED <<pc, locals>>
       \/ /\ ~args.dry /\ pc' = "create" /\ stage' = IF args.check THEN "check" ELSE "audit"
          /\ net' = Head(left) /\ targets' = InNet(Head(left)) /\ UNCHANGED <<found, queries, ids, run>>
    /\ UNCHANGED <<args, failed, code, covered, remote>>

EndScan ==
    /\ pc = "next" /\ left = <<>>
    /\ \/ failed # {} /\ Exit(1)
       \/ failed = {} /\ ~args.final /\ Exit(0)
       \/ failed = {} /\ args.final /\ Goto("export all") /\ UNCHANGED <<args, left, code, covered, remote>>

ExportAll == pc = "export all" /\ \E c \in {0, 1} : Exit(c)

-----------------------------------------------------------------------------
(* One task: created, validated, started.                                      *)

\* A task that is not to be started ends the work on the subnet: the check finds no
\* targets, and after the audit nothing follows.
Ready == (args.start /\ Goto("start")) \/ (~args.start /\ Return)

CreateTask ==
    /\ pc = "create"
    /\ \/ args.validate /\ Goto("validate")
       \/ ~args.validate /\ Ready
       \/ SubnetRaises
    /\ UNCHANGED <<args, left, code, covered, remote>>

\* Asked again while MP VM does not know the task yet; invalid: the subnet is skipped.
ValidateTask ==
    /\ pc = "validate" /\ (Ready \/ Return \/ SubnetRaises)
    /\ UNCHANGED <<args, left, code, covered, remote>>

\* The audit is waited for only if something follows it.
StartTask ==
    /\ pc = "start"
    /\ \/ /\ stage = "check" \/ args.export \/ args.delete
          /\ pc' = "wait" /\ run' = [run EXCEPT ![stage] = "requested"]
          /\ UNCHANGED <<failed, stage, net, found, targets, queries, ids>>
       \/ stage = "audit" /\ ~args.export /\ ~args.delete /\ Return
       \/ SubnetRaises
    /\ UNCHANGED <<args, left, code, covered, remote>>

-----------------------------------------------------------------------------
(* The connection check.                                                       *)

Listed(s) == {h \in InNet(net) : run[s] \notin {"none", "requested"} /\ job[s][h] # "none"}

\* A poll reads the newest jobs, up to the limit, and keeps what earlier polls found.
ReadsJobs(seen) ==
    /\ seen \subseteq Listed("check")
    /\ \/ seen = Listed("check") /\ Cardinality(seen) <= JobsLimit
       \/ Cardinality(seen) = JobsLimit
FoundNow(seen) == found \cup {h \in seen : job["check"][h] = "green"}

\* No host answered: the subnet is skipped.
ChooseTargets(F) ==
    \/ F = {} /\ Return
    \/ /\ F # {} /\ pc' = "create" /\ stage' = "audit" /\ found' = F /\ targets' = F
       /\ UNCHANGED <<failed, net, queries, ids, run>>

PollCheck ==
    /\ pc = "wait" /\ stage = "check"
    /\ \E seen \in SUBSET Listed("check") :
          /\ ReadsJobs(seen)
          /\ \/ Finished("check") /\ ChooseTargets(FoundNow(seen))
             \/ /\ ~Finished("check") /\ found' = FoundNow(seen)
                /\ UNCHANGED <<pc, failed, stage, net, targets, queries, ids, run>>
    /\ UNCHANGED <<args, left, code, covered, remote>>

\* --precheck-max-runtime: MP VM is asked to stop the run, whether it does or not, and
\* the hosts found so far are audited.
StopCheck ==
    /\ pc = "wait" /\ stage = "check" /\ ~Finished("check")
    /\ \E seen \in SUBSET Listed("check") : ReadsJobs(seen) /\ ChooseTargets(FoundNow(seen))
    /\ UNCHANGED <<args, left, code, covered, remote>>

\* The timeout of the wait drops what was found.
CheckTimesOut ==
    /\ pc = "wait" /\ stage = "check" /\ Return
    /\ UNCHANGED <<args, left, code, covered, remote>>

-----------------------------------------------------------------------------
(* The audit, the export and the removal.                                      *)

\* A warning fails the audit only with --scan-require-clean-jobs.
Blocks(colour) == colour = "red" \/ (args.clean /\ colour = "yellow")
\* Mutant: only the run is judged, not its jobs.
AcceptedByRun == ~Blocks(run["audit"])

Accepted == ~Blocks(run["audit"]) /\ \A h \in Listed("audit") : ~Blocks(job["audit"][h])

PollAudit ==
    /\ pc = "wait" /\ stage = "audit" /\ Finished("audit")
    /\ \/ /\ Accepted /\ args.export /\ pc' = "export" /\ queries' = Queries
          /\ UNCHANGED <<failed, stage, net, found, targets, ids, run>>
       \/ ~(Accepted /\ args.export) /\ Return
    /\ UNCHANGED <<args, left, code, covered, remote>>

AuditTimesOut ==
    /\ pc = "wait" /\ stage = "audit" /\ Return
    /\ UNCHANGED <<args, left, code, covered, remote>>

ExportQuery ==
    /\ pc = "export"
    /\ \/ /\ queries > 1 /\ queries' = queries - 1 /\ covered' = covered
          /\ UNCHANGED <<pc, failed, stage, net, found, targets, ids, run>>
       \/ /\ queries = 1 /\ covered' = covered \cup targets
          /\ (args.delete /\ Goto("resolve")) \/ (~args.delete /\ Return)
       \/ SubnetRaises /\ covered' = covered
    /\ UNCHANGED <<args, left, code, remote>>

\* An error of the disk is not caught: the script ends with a traceback.
DiskFails == pc = "export" /\ Exit(1)

ResolveAssets ==
    /\ pc = "resolve"
    /\ \/ /\ targets \cap assets # {} /\ pc' = "remove" /\ ids' = targets \cap assets
          /\ UNCHANGED <<failed, stage, net, found, targets, queries, run>>
       \/ targets \cap assets = {} /\ Return
       \/ SubnetRaises
    /\ UNCHANGED <<args, left, code, covered, remote>>

\* The call may raise although MP VM accepted it.
RemoveAssets ==
    /\ pc = "remove"
    /\ \/ Goto("removing") /\ asked' = asked \cup ids
       \/ SubnetRaises /\ asked' \in {asked, asked \cup ids}
    /\ UNCHANGED <<args, left, code, covered, job, assets, refused, gone>>

PollRemoval ==
    /\ pc = "removing" /\ ids \cap asked = {}
    /\ \/ ids \cap refused = {} /\ Return
       \/ ids \cap refused # {} /\ SubnetRaises
    /\ UNCHANGED <<args, left, code, covered, remote>>

RemovalTimesOut ==
    /\ pc = "removing" /\ SubnetRaises
    /\ UNCHANGED <<args, left, code, covered, remote>>

\* A poll of a run raises.
PollRaises ==
    /\ pc = "wait" /\ SubnetRaises
    /\ UNCHANGED <<args, left, code, covered, remote>>

Step ==
    \/ Prepare \/ BeginSubnet \/ EndScan \/ ExportAll
    \/ CreateTask \/ ValidateTask \/ StartTask
    \/ PollCheck \/ StopCheck \/ CheckTimesOut \/ PollAudit \/ AuditTimesOut
    \/ ExportQuery \/ DiskFails \/ ResolveAssets \/ RemoveAssets
    \/ PollRemoval \/ RemovalTimesOut \/ PollRaises

-----------------------------------------------------------------------------
(* MP VM.                                                                      *)

RunAppears(s) ==
    /\ run[s] = "requested" /\ run' = [run EXCEPT ![s] = "running"]
    /\ UNCHANGED <<args, pc, left, failed, code, covered, stage, net, found, targets, queries, ids, remote>>

\* A run begins without jobs, and may end before each of its hosts has one.
JobAppears(s, h) ==
    /\ run[s] = "running" /\ h \in (IF s = "check" THEN InNet(net) ELSE targets)
    /\ job[s][h] = "none" /\ job' = [job EXCEPT ![s][h] = "open"]
    /\ UNCHANGED <<args, pc, left, failed, code, covered, locals, assets, asked, refused, gone>>

\* The audit of a host writes its asset.
JobEnds(s, h) ==
    /\ run[s] = "running" /\ h \in InNet(net) /\ job[s][h] = "open"
    /\ \E c \in Colours(s) :
          /\ job' = [job EXCEPT ![s][h] = c]
          /\ assets' = IF s = "audit" /\ c # "red" THEN assets \cup {h} ELSE assets
    /\ UNCHANGED <<args, pc, left, failed, code, covered, locals, asked, refused, gone>>

\* Also one that was stopped or suspended: its open jobs stay open.
RunEnds(s) ==
    /\ run[s] = "running" /\ \E c \in Colours(s) : run' = [run EXCEPT ![s] = c]
    /\ UNCHANGED <<args, pc, left, failed, code, covered, stage, net, found, targets, queries, ids, remote>>

RemovalEffect(h) ==
    /\ h \in asked /\ asked' = asked \ {h}
    /\ \/ assets' = assets \ {h} /\ gone' = gone \cup {h} /\ refused' = refused
       \/ refused' = refused \cup {h} /\ UNCHANGED <<assets, gone>>
    /\ UNCHANGED <<args, pc, left, failed, code, covered, locals, job>>

\* Another scan of MP VM writes the asset, seen from when its subnet is at work; one that
\* is already removed does not come back.
OtherScan(h) ==
    /\ h \in InNet(net) /\ h \notin assets \cup gone /\ assets' = assets \cup {h}
    /\ UNCHANGED <<args, pc, left, failed, code, covered, locals, job, asked, refused, gone>>

Next ==
    \/ Step
    \/ \E s \in Stages : RunAppears(s) \/ RunEnds(s) \/ \E h \in Hosts : JobAppears(s, h) \/ JobEnds(s, h)
    \/ \E h \in Hosts : RemovalEffect(h) \/ OtherScan(h)

\* Every wait of the script has a deadline.
Deadlines == CheckTimesOut \/ AuditTimesOut \/ RemovalTimesOut
Working == Step /\ pc # "wait" /\ pc # "removing"
Fairness == WF_vars(Working) /\ WF_vars(Deadlines)
Spec == Init /\ [][Next]_vars /\ Fairness

-----------------------------------------------------------------------------
\* Whatever is checked, stopped, timed out or raises in between, the removal of a host's
\* asset is asked for only after its own check succeeded, no job of its audit failed (nor
\* warned, with --scan-require-clean-jobs) and every file of an export asked for it; what
\* fails on one subnet does not leak into the next one.  It does not say that the host was
\* audited: a finished run whose list of jobs is empty, or lacks the host, is a success for
\* wait_for_task_success, and an asset that an older scan left is exported and removed.
RemovalFollowsExport ==
    \A h \in ids \cup asked \cup refused \cup gone :
        /\ args.delete /\ h \in covered
        /\ args.check => job["check"][h] = "green"
        /\ ~Blocks(job["audit"][h])

\* Exit status 0: every removal that was asked for has taken effect.
ZeroMeansRemoved == code = 0 => asked = {} /\ refused = {}

RemovalsHold == RemovalFollowsExport /\ ZeroMeansRemoved

\* The script ends, whatever MP VM does.
ScriptEnds == <>(pc = "end")

================================================================================

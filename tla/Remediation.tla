----------------------------- MODULE Remediation -----------------------------
(* The remediation cases of one asset: the vulnerability tables that a saved    *)
(* card leaves behind, the reconciliation of the cases with them, operators who *)
(* start and edit cases under optimistic locking, exceptions that expire, the   *)
(* deadline policy and the statistics of confirmed resolutions.                 *)
EXTENDS Naturals, FiniteSets, Sequences

CONSTANTS
    Keys,       \* vulnerability keys (finding.selector)
    Rated,      \* keys whose severity the policy knows
    Shots,      \* snapshots a refresh can bring: [groups, real]
    Key,        \* key of each finding
    Instance,   \* instance id of each finding, or None
    Threads,    \* threads that save cards or reconcile
    None,
    MaxSaves, MaxRequests, MaxCrashes  \* bounds

VARIABLES
    card,       \* saved card: [shot, fresh, no], or None
    cases,      \* remediation_cases: row of each key, or None
    absent,     \* number of finding_absent events of each case
    policy,     \* version of remediation_sla_policy
    rec,        \* each thread: point, findings and card it read, keys of the rows it locked
    copy,       \* the case an operator's page shows, or None
    due,        \* history: an exception's date is over
    reconciled, \* history: the last completed reconciliation read the saved card
    saves, requests, crashes

vars == <<card, cases, absent, policy, rec, copy, due, reconciled, saves, requests, crashes>>

Resting == [at |-> "idle", found |-> {}, no |-> 0, fresh |-> FALSE, old |-> {}]
Exceptions == {"risk_accepted", "false_positive"}
Working == {"open", "in_progress"}

-----------------------------------------------------------------------------
(* What a saved card leaves in the vulnerability tables. *)

\* iter_asset_card_vulnerability_groups: a group without a collection id is skipped.
Groups(shot) == SelectSeq(shot.groups, LAMBDA g : g.id # None)

\* The findings of the groups before the position (g, i), in the order of the document.
Earlier(groups, g, i) ==
    UNION {{groups[h].items[j] : j \in {n \in DOMAIN groups[h].items : h < g \/ n < i}} : h \in 1 .. g}

\* deduplicate_asset_card_vulnerability_findings: the first finding of each instance id stays.
Unique(groups) ==
    UNION {{groups[g].items[i] : i \in {j \in DOMAIN groups[g].items :
              LET f == groups[g].items[j] IN
              Instance[f] = None \/ \A e \in Earlier(groups, g, j) : Instance[e] # Instance[f]}}
           : g \in DOMAIN groups}

\* replace_asset_card_cache: the keys of the findings stored for the card.
Stored(shot) == {Key[f] : f \in Unique(Groups(shot))}
Truncated(shot) == \E i \in DOMAIN Groups(shot) : Groups(shot)[i].truncated

Saved == card # None

-----------------------------------------------------------------------------
(* The rows. *)

ByPolicy(k) == IF k \in Rated THEN <<"policy", policy>> ELSE <<>>

Case(k) == [status |-> "open", version |-> 1, due |-> ByPolicy(k), manual |-> FALSE, expires |-> FALSE]

Changed(c) == [c EXCEPT !.version = @ + 1]

ReappearedStays(k, c) == Changed(c)

\* The bulk UPDATE of reconcile_asset: every case that was found again gets a new version.
Reappeared(k, c) ==
    IF c.status = "resolved"
    THEN [Changed(c) EXCEPT !.status = "open", !.due = ByPolicy(k)]
    ELSE Changed(c)

Resolved(c) == [Changed(c) EXCEPT !.status = "resolved"]

ExpiredQuietly(k, c) ==
    [c EXCEPT !.status = "open", !.expires = FALSE, !.due = ByPolicy(k), !.manual = FALSE]

\* expire_risk_acceptances
Expired(k, c) ==
    [Changed(c) EXCEPT !.status = "open", !.expires = FALSE, !.due = ByPolicy(k), !.manual = FALSE]

Expiring(k) == due /\ cases[k] # None /\ cases[k].status \in Exceptions /\ cases[k].expires

\* What list, get and summary do to the cases before they read them.
AfterExpiry == [k \in Keys |-> IF Expiring(k) THEN Expired(k, cases[k]) ELSE cases[k]]

-----------------------------------------------------------------------------
Init ==
    /\ card = None /\ cases = [k \in Keys |-> None] /\ absent = [k \in Keys |-> 0] /\ policy = 0
    /\ rec = [t \in Threads |-> Resting] /\ copy = None
    /\ due = FALSE /\ reconciled = FALSE
    /\ saves = 0 /\ requests = 0 /\ crashes = 0

\* A card is saved; its thread calls the reconciliation after the commit.
SaveCard(t, shot) ==
    /\ rec[t].at = "idle" /\ saves < MaxSaves
    /\ saves' = saves + 1
    /\ card' = [shot |-> shot, fresh |-> TRUE, no |-> saves']
    /\ rec' = [rec EXCEPT ![t].at = "called"]
    /\ reconciled' = FALSE
    /\ UNCHANGED <<cases, absent, policy, copy, due, requests, crashes>>

\* reconcile_all, which a finished workflow calls.
ReconcileAll(t) ==
    /\ rec[t].at = "idle" /\ Saved /\ requests < MaxRequests
    /\ requests' = requests + 1
    /\ rec' = [rec EXCEPT ![t].at = "called"]
    /\ UNCHANGED <<card, cases, absent, policy, copy, due, reconciled, saves, crashes>>

\* The findings and the age of the card are read; nothing is locked yet.
ReadFindings(t) ==
    /\ rec[t].at = "called"
    /\ rec' = [rec EXCEPT ![t] = [at |-> "read", found |-> Stored(card.shot), no |-> card.no,
                                  fresh |-> card.fresh, old |-> {}]]
    /\ UNCHANGED <<card, cases, absent, policy, copy, due, reconciled, saves, requests, crashes>>

\* A row that a reconciliation has locked makes a statement wait.
Unlocked(k) == \A t \in Threads : rec[t].at = "locked" => k \notin rec[t].old

AllUnlocked == \A k \in Keys : cases[k] # None => Unlocked(k)

\* SELECT ... FOR UPDATE locks the rows it returns.
LockCases(t) ==
    /\ rec[t].at = "read" /\ AllUnlocked
    /\ rec' = [rec EXCEPT ![t].at = "locked", ![t].old = {k \in Keys : cases[k] # None}]
    /\ UNCHANGED <<card, cases, absent, policy, copy, due, reconciled, saves, requests, crashes>>

\* Nothing is truncated in the tables now, and the card was fresh when it was read.
Complete(t) == ~Truncated(card.shot) /\ rec[t].fresh

Gone(t) == IF Complete(t)
           THEN {k \in rec[t].old \ rec[t].found : cases[k].status \notin {"resolved", "false_positive"}}
           ELSE {}

Back(t) == rec[t].found \cap rec[t].old

WriteCases(t) ==
    /\ rec[t].at = "locked"
    /\ \A k \in rec[t].found \ rec[t].old : cases[k] = None
    /\ cases' = [k \in Keys |->
          CASE k \in Back(t)                   -> Reappeared(k, cases[k])
            [] k \in rec[t].found \ rec[t].old -> Case(k)
            [] k \in Gone(t)                   -> Resolved(cases[k])
            [] OTHER                           -> cases[k]]
    /\ absent' = [k \in Keys |-> IF k \in Gone(t) THEN absent[k] + 1 ELSE absent[k]]
    /\ rec' = [rec EXCEPT ![t] = Resting]
    /\ reconciled' = (rec[t].no = card.no)
    /\ UNCHANGED <<card, policy, copy, due, saves, requests, crashes>>

\* A case of a finding was started meanwhile: the INSERT fails, the whole transaction is
\* rolled back, and RemediationService.reconcile_asset logs it and returns zeros.
InsertConflicts(t) ==
    /\ rec[t].at = "locked"
    /\ \E k \in rec[t].found \ rec[t].old : cases[k] # None
    /\ rec' = [rec EXCEPT ![t] = Resting]
    /\ UNCHANGED <<card, cases, absent, policy, copy, due, reconciled, saves, requests, crashes>>

Crash ==
    /\ crashes < MaxCrashes /\ \E t \in Threads : rec[t].at # "idle"
    /\ crashes' = crashes + 1
    /\ rec' = [t \in Threads |-> Resting]
    /\ UNCHANGED <<card, cases, absent, policy, copy, due, reconciled, saves, requests>>

-----------------------------------------------------------------------------
(* Operators. *)

Asked == requests < MaxRequests /\ requests' = requests + 1 /\ UNCHANGED <<saves, crashes>>

\* start_for_finding; the case is created first when there is none.  When the case
\* is in progress and nothing is asked for, it is left alone.
StartForFinding(k, manual, resume) ==
    LET current == IF cases[k] = None THEN Case(k) ELSE cases[k]
        again == current.status = "resolved" IN
    /\ Asked /\ Saved /\ k \in Stored(card.shot)
    /\ cases[k] # None => Unlocked(k)
    /\ current.status \in Exceptions => resume
    /\ current.status = "in_progress" => manual
    /\ cases' = [cases EXCEPT ![k] =
          [Changed(current) EXCEPT !.status = "in_progress", !.expires = FALSE,
             !.due = IF manual THEN <<"manual">> ELSE IF again THEN ByPolicy(k) ELSE @,
             !.manual = IF manual THEN TRUE ELSE IF again THEN FALSE ELSE @]]
    /\ UNCHANGED <<card, absent, policy, rec, copy, due, reconciled>>

ExpiryMayRun == \A k \in Keys : Expiring(k) => Unlocked(k)

\* list, get and summary
Look ==
    /\ ExpiryMayRun /\ AfterExpiry # cases
    /\ cases' = AfterExpiry
    /\ UNCHANGED <<card, absent, policy, rec, copy, due, reconciled, saves, requests, crashes>>

OpenPage(k) ==
    /\ copy = None /\ cases[k] # None /\ ExpiryMayRun /\ requests < MaxRequests
    /\ cases' = AfterExpiry /\ copy' = [key |-> k, row |-> cases'[k]]
    /\ UNCHANGED <<card, absent, policy, rec, due, reconciled, saves, requests, crashes>>

\* RemediationService.update: resolved is refused, an exception needs a date in the future,
\* and another status drops the exception.
Edited(row, status, manual) ==
    LET e == [row EXCEPT !.status = status, !.expires = (status \in Exceptions)] IN
    Changed(IF manual THEN [e EXCEPT !.due = <<"manual">>, !.manual = TRUE] ELSE e)

VersionMatches(k) == cases[k].version = copy.row.version

\* update, under FOR UPDATE with the version the page shows.  The date of an exception
\* set before is over when due holds; the one set here is not.
Patch(status, manual) ==
    /\ copy # None /\ Asked
    /\ status \in Working \cup Exceptions
    /\ status \in Exceptions => ~due
    /\ LET k == copy.key IN
       /\ Unlocked(k)
       /\ cases' = IF VersionMatches(k)
                   THEN [cases EXCEPT ![k] = Edited(@, status, manual)] ELSE cases
    /\ copy' = None
    /\ UNCHANGED <<card, absent, policy, rec, due, reconciled>>

\* update_policy
UpdatePolicy(apply) ==
    /\ Asked /\ policy = 0 /\ AllUnlocked
    /\ policy' = 1
    /\ cases' = [k \in Keys |->
          IF apply /\ cases[k] # None /\ cases[k].status \in Working /\ ~cases[k].manual
          THEN [Changed(cases[k]) EXCEPT !.due = IF k \in Rated THEN <<"policy", 1>> ELSE <<>>]
          ELSE cases[k]]
    /\ UNCHANGED <<card, absent, rec, copy, due, reconciled>>

\* The dates of the exceptions pass, and the card gets older than stale_days.
TimePasses ==
    /\ ~due /\ Saved /\ due' = TRUE
    /\ card' = [card EXCEPT !.fresh = FALSE]
    /\ UNCHANGED <<cases, absent, policy, rec, copy, reconciled, saves, requests, crashes>>

Operators ==
    \/ \E k \in Keys, m, r \in BOOLEAN : StartForFinding(k, m, r)
    \/ \E k \in Keys : OpenPage(k)
    \/ \E s \in Working \cup Exceptions, m \in BOOLEAN : Patch(s, m)
    \/ \E a \in BOOLEAN : UpdatePolicy(a)
    \/ Look

Reconciliation ==
    \E t \in Threads :
        \/ \E shot \in Shots : SaveCard(t, shot)
        \/ ReconcileAll(t) \/ ReadFindings(t) \/ LockCases(t) \/ WriteCases(t) \/ InsertConflicts(t)

Next == Reconciliation \/ Operators \/ TimePasses \/ Crash

Spec == Init /\ [][Next]_vars

-----------------------------------------------------------------------------
(* resolution_stats over the whole period. *)
Stats == [confirmed |-> absent,
          resolved |-> {k \in Keys : absent[k] > 0},
          currently |-> {k \in Keys : absent[k] > 0 /\ cases[k].status = "resolved"}]

TypeOK ==
    /\ Saved => card.shot \in Shots /\ card.no \in 1 .. MaxSaves
    /\ \A k \in Keys : cases[k] # None =>
          cases[k].status \in Working \cup Exceptions \cup {"resolved"} /\ cases[k].version > 0
    /\ \A t \in Threads : rec[t].at \in {"idle", "called", "read", "locked"}

\* What a step may do with the case that the operator's page shows.
EditSeesItsCase == copy # None /\ copy' = None /\ cases' # cases => cases[copy.key] = copy.row

\* expected_version protects from a concurrent overwrite: an edit is applied only to the
\* case the operator's page showed, whatever reconciliations, expiries, policies and
\* other requests ran since (README.md:32).
EditsSeeTheirCase == [][EditSeesItsCase]_vars

\* After a reconciliation of the saved card every stored finding has a case that is not
\* resolved, until another card is saved; and the statistics name exactly the cases
\* that are resolved.
CasesMatchCard ==
    /\ reconciled => \A k \in Stored(card.shot) : cases[k] # None /\ cases[k].status # "resolved"
    /\ Stats.currently = {k \in Keys : cases[k] # None /\ cases[k].status = "resolved"}

\* A case is resolved only when the vulnerability is really gone from the asset (README.md:32).
ResolvedOnlyIfGone ==
    [][\A k \in Keys :
         cases[k] # None /\ cases[k].status # "resolved" /\ cases'[k].status = "resolved" =>
            k \notin card.shot.real]_vars
=============================================================================

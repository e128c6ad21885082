------------------------------ MODULE Passports ------------------------------
(* The local catalogue of vulnerability passports: the refresh of the whole    *)
(* catalogue and of a part of it, the merge of re-issued passports, the detail *)
(* job, single details, deletion, and the link of each finding to the best     *)
(* passport.  MP VM's catalogue goes through the listings Catalogs[1], ...     *)
EXTENDS Naturals, FiniteSets, Sequences

CONSTANTS
    Ids,        \* internal ids of passports
    Order,      \* their order, injective, which decides between equal candidates
    Parts,      \* what the queries for some assets return: sets of ids
    Trending,   \* passports with a trend
    Catalogs,   \* sequence of listings: functions from ids to catalogue entries
    DetailOs,   \* the OS family that the detail of a passport names, or None
    Findings,   \* findings of asset cards, one per card
    Finding,    \* what each names: [vid, cve, os, rel]
    Cases,      \* remediation cases
    DetailBatch,\* details written in one transaction
    None,
    MaxRestarts, MaxRequests    \* bounds

VARIABLES
    era,        \* the listing MP VM answers with now
    rows,       \* vulnerability_passports: function from the stored ids
    link,       \* asset_card_vulnerability_passports: passport of each finding
    present,    \* findings whose card is stored
    case,       \* passport_internal_id of each case
    loose,      \* history: findings whose best passport changed in a write that does not relink
    op,         \* status of the row of the catalogue refresh in operations
    event,      \* its cancellation event
    rpc,        \* its thread: point, listing it fetched
    canceller,  \* the handler that cancels it
    query,      \* a partial query: <<>> or <<the entries it fetched>>
    reader,     \* a passport whose detail is being fetched on its own, or None
    job,        \* status of the row of the detail job
    jobEvent,   \* its cancellation event
    dpc,        \* its thread: point, ids to fetch, details not written yet, loaded
    raced,      \* history: a cancellation was written over the end of a refresh
    abandoned,  \* history: a refresh that was cancelled or failed left its detail job behind
    restarts, requests

catalogue == <<rows, link, present, case, loose>>
refresh == <<op, event, rpc, canceller, raced>>
details == <<job, jobEvent, dpc, abandoned>>
bounds == <<restarts, requests>>
vars == <<era, catalogue, refresh, query, reader, details, bounds>>

\* Requests of users and of other components, at most MaxRequests.
Asked == requests < MaxRequests /\ requests' = requests + 1 /\ UNCHANGED restarts

ActiveStatuses == {"queued", "running", "cancelling"}
Idle == [at |-> "none", list |-> <<>>]
NoWork == [at |-> "none", todo |-> {}, batch |-> {}, loaded |-> FALSE]

-----------------------------------------------------------------------------
(* The best passport of a finding: the candidates query. *)

\* vulnerability_passport_cves_sync: the family is read from the listing and the detail.
Family(r) == IF r.os # None THEN r.os ELSE IF r.detail # None THEN DetailOs[r.detail] ELSE None

Score(table, f, i) ==
    LET r == table[i] sameOs == Family(r) # None /\ Family(r) = Finding[f].os IN
    IF Finding[f].vid = i THEN 1000
    ELSE IF Finding[f].cve \in r.cves /\ (Family(r) = None \/ sameOs)
    THEN 100 + (IF sameOs THEN 50 ELSE 0)
             + (IF sameOs /\ Finding[f].rel # None /\ Finding[f].rel = r.rel THEN 20 ELSE 0)
    ELSE 0

Better(table, f, i, j) ==
    LET s == Score(table, f, i) t == Score(table, f, j)
        known == table[i].detail # None   other == table[j].detail # None IN
    \/ s > t
    \/ s = t /\ known /\ ~other
    \/ s = t /\ known = other /\ Order[i] < Order[j]

Best(table, f) ==
    LET C == {i \in DOMAIN table : Score(table, f, i) > 0} IN
    IF C = {} THEN None ELSE CHOOSE i \in C : \A j \in C \ {i} : Better(table, f, i, j)

\* Mutant: the findings that are linked now are not looked up.
ScopeUnlinked(table, links, S) ==
    {f \in present : \/ Finding[f].vid \in S
                     \/ \E i \in S \cap DOMAIN table : Finding[f].cve \in table[i].cves}

\* The findings that the passports S can affect: named, sharing a CVE, linked now.
Scope(table, links, S) ==
    {f \in present : \/ Finding[f].vid \in S
                     \/ \E i \in S \cap DOMAIN table : Finding[f].cve \in table[i].cves
                     \/ links[f] \in S}

Relinked(table, links, scope) ==
    [f \in Findings |-> IF f \in scope THEN Best(table, f) ELSE links[f]]

\* A write that relinks the findings of scope, and one that relinks none.
WriteAndLink(table, links, scope) ==
    /\ rows' = table /\ link' = Relinked(table, links, scope) /\ loose' = loose \ scope
WriteOnly(table, links) ==
    /\ rows' = table /\ link' = links
    /\ loose' = loose \cup {f \in present : links[f] # Best(table, f)}

-----------------------------------------------------------------------------
(* The catalogue: upsert_vulnerability_passports. *)

Entry(r) == [ext |-> r.ext, pkg |-> r.pkg, ver |-> r.ver, cves |-> r.cves, os |-> r.os, rel |-> r.rel]
Row(e, detail, fresh) ==
    [ext |-> e.ext, pkg |-> e.pkg, ver |-> e.ver, cves |-> e.cves, os |-> e.os, rel |-> e.rel,
     detail |-> detail, fresh |-> fresh]

\* The rows of new over those of table.
Over(new, table) ==
    [i \in DOMAIN new \cup DOMAIN table |-> IF i \in DOMAIN new THEN new[i] ELSE table[i]]

Upserted(list) ==
    Over([i \in DOMAIN list |-> IF i \in DOMAIN rows THEN Row(list[i], rows[i].detail, rows[i].fresh)
                                                     ELSE Row(list[i], None, FALSE)], rows)
Changed(list) == {i \in DOMAIN list : i \notin DOMAIN rows \/ Entry(rows[i]) # list[i]}

\* plan_passport_replacements: from the strictest key to the loosest, only when the
\* successor is unambiguous, and across packages never.
SameKey(depth, o, n) ==
    /\ o.ext # None /\ o.ext = n.ext
    /\ depth = 1 => o.pkg = n.pkg /\ o.ver = n.ver
    /\ depth = 2 => o.pkg # None /\ o.pkg = n.pkg

SuccessorAt(depth, table, succ, o) ==
    LET N == {n \in succ : SameKey(depth, table[o], table[n])} IN
    IF Cardinality(N) = 1 THEN N ELSE {}

\* Mutant: a passport of another package of the same CVE counts as a re-issue.
PackageIgnored(table, n, olds) == TRUE

PackageUnknown(table, n, olds) == table[n].pkg = None \/ \A o \in olds : table[o].pkg = None

\* The passport that replaces each stale passport, or None.
Replacements(table, succ, stale, loosely) ==
    LET olds == stale \ succ
        at1 == [o \in olds |-> SuccessorAt(1, table, succ, o)]
        at2 == [o \in olds |-> IF at1[o] # {} \/ ~loosely THEN at1[o] ELSE SuccessorAt(2, table, succ, o)]
        Alike(o) == {p \in olds : at2[p] = {} /\ table[p].ext = table[o].ext}
        at3 == [o \in olds |->
                 IF at2[o] # {} \/ ~loosely THEN at2[o]
                 ELSE {n \in SuccessorAt(3, table, succ, o) : PackageUnknown(table, n, Alike(o))}]
    IN [o \in {p \in olds : at3[p] # {}} |-> CHOOSE n \in at3[o] : TRUE]

\* _plan_passport_id_replacements: the whole catalogue proves what is gone, a part of
\* it is trusted only for an exact match with a passport new to the database.
Plan(table, list, full) ==
    LET incoming == {i \in DOMAIN list : list[i].ext # None}
        succ == IF full THEN incoming ELSE incoming \ DOMAIN rows
        gone == {i \in DOMAIN table \ DOMAIN list : table[i].ext # None}
        stale == IF full THEN gone ELSE {i \in gone : \E n \in succ : table[n].ext = table[i].ext}
    IN IF incoming = {} THEN <<>> ELSE Replacements(table, succ, stale, full)

\* The old rows fold into the new one, which takes a detail if it has none.
Merged(table, new) ==
    LET Olds(n) == {o \in DOMAIN new : new[o] = n /\ table[o].detail # None}
        Detail(i) == IF table[i].detail = None /\ Olds(i) # {}
                     THEN table[CHOOSE o \in Olds(i) : TRUE].detail ELSE table[i].detail
    IN [i \in DOMAIN table \ DOMAIN new |->
          Row(table[i], Detail(i), table[i].fresh /\ table[i].detail # None)]

Follow(new, i) == IF i \in DOMAIN new THEN new[i] ELSE i
MoveCases(new) == [k \in Cases |-> Follow(new, case[k])]

Upsert(list, full) ==
    LET table == Upserted(list)
        new == Plan(table, list, full)
        after == Merged(table, new)
        links == [f \in Findings |-> Follow(new, link[f])]
        relink == Changed(list) \cup {new[o] : o \in DOMAIN new}
    IN /\ WriteAndLink(after, links, Scope(after, links, relink))
       /\ case' = MoveCases(new)
       /\ UNCHANGED present

\* replace_vulnerability_passport_trends: missing parents are inserted, known ones
\* get what the trend names; the links follow only after a partial query.
TrendParents(list, S) ==
    Over([i \in S |-> IF i \in DOMAIN rows
                      THEN [rows[i] EXCEPT !.ext = IF list[i].ext # None THEN list[i].ext ELSE rows[i].ext,
                                           !.cves = IF list[i].cves # {} THEN list[i].cves ELSE rows[i].cves]
                      ELSE Row([list[i] EXCEPT !.pkg = None, !.ver = None], None, FALSE)], rows)

ReplaceTrends(relink) ==
    LET S == Trending \cap DOMAIN Catalogs[era]
        table == TrendParents(Catalogs[era], S) IN
    /\ IF relink THEN WriteAndLink(table, link, Scope(table, link, S)) ELSE WriteOnly(table, link)
    /\ UNCHANGED <<present, case>>

\* The detail upsert inserts a row without an external id when the passport is gone.
Detailed(table, S) ==
    Over([i \in S |-> IF i \in DOMAIN table THEN Row(table[i], i, TRUE)
                      ELSE Row([ext |-> None, pkg |-> None, ver |-> None, cves |-> {}, os |-> None,
                                rel |-> None], i, TRUE)], table)

\* The catalogue and the cards of an earlier session.
Init ==
    /\ era = 1 /\ present = Findings
    /\ rows = [i \in DOMAIN Catalogs[1] |-> Row(Catalogs[1][i], None, FALSE)]
    /\ link = [f \in Findings |-> Best(rows, f)]
    /\ case = [k \in Cases |-> None] /\ loose = {}
    /\ op = "none" /\ event = FALSE /\ rpc = Idle /\ canceller = "idle"
    /\ query = <<>> /\ reader = None
    /\ job = "none" /\ jobEvent = FALSE /\ dpc = NoWork
    /\ raced = FALSE /\ abandoned = FALSE /\ restarts = 0 /\ requests = 0

-----------------------------------------------------------------------------
(* The refresh of the whole catalogue in a background thread. *)

Step(to) == rpc' = [rpc EXCEPT !.at = to]
EndRefresh(status) == op' = status /\ rpc' = Idle /\ event' = FALSE
DetailsAbandoned == abandoned' = (abandoned \/ (rpc.at = "created" /\ job \in ActiveStatuses))

RequestRefresh ==
    /\ Asked
    /\ job \notin ActiveStatuses /\ op \notin ActiveStatuses /\ rpc.at = "none"
    /\ op' = "queued" /\ event' = FALSE /\ rpc' = [Idle EXCEPT !.at = "queued"] /\ raced' = FALSE
    /\ UNCHANGED <<era, catalogue, canceller, query, reader, details>>

\* RefreshCancelled, raised by the next progress call.
RefreshStops ==
    /\ rpc.at \in {"queued", "fetched", "saved", "trended", "created"} /\ event
    /\ EndRefresh("cancelled") /\ DetailsAbandoned
    /\ UNCHANGED <<era, catalogue, canceller, raced, query, reader, job, jobEvent, dpc, bounds>>

\* Whatever raises, MP VM or a statement: also the read of the answer or the submission
\* after the row of the detail job was created.
RefreshFails ==
    /\ rpc.at # "none"
    /\ EndRefresh("failed") /\ DetailsAbandoned
    /\ UNCHANGED <<era, catalogue, canceller, raced, query, reader, job, jobEvent, dpc, bounds>>

BeginRefresh ==
    /\ rpc.at = "queued" /\ ~event /\ Step("querying") /\ op' = "running"
    /\ UNCHANGED <<era, catalogue, event, canceller, raced, query, reader, details, bounds>>

FetchCatalog ==
    /\ rpc.at = "querying" /\ job \notin ActiveStatuses
    /\ rpc' = [at |-> "fetched", list |-> Catalogs[era]]
    /\ UNCHANGED <<era, catalogue, op, event, canceller, raced, query, reader, details, bounds>>

SaveCatalog ==
    /\ rpc.at = "fetched" /\ ~event /\ Step("saved") /\ op' = "running"
    /\ Upsert(rpc.list, TRUE)
    /\ UNCHANGED <<era, event, canceller, raced, query, reader, details, bounds>>

SyncTrends ==
    /\ rpc.at = "saved" /\ ~event /\ Step("trended") /\ op' = "running"
    /\ \/ UNCHANGED catalogue
       \/ ReplaceTrends(FALSE)
    /\ UNCHANGED <<era, event, canceller, raced, query, reader, details, bounds>>

\* vulnerability_passport_detail_refresh_candidates.
Eligible(S) == {i \in S : ~(i \in DOMAIN rows /\ rows[i].detail # None /\ rows[i].fresh)}

CreateDetailJob ==
    LET todo == Eligible(DOMAIN rpc.list) IN
    /\ rpc.at = "trended" /\ ~event /\ job \notin ActiveStatuses /\ dpc.at = "none"
    /\ Step("created") /\ op' = "running"
    /\ job' = (IF todo = {} THEN "completed" ELSE "queued") /\ jobEvent' = FALSE
    /\ dpc' = [NoWork EXCEPT !.at = IF todo = {} THEN "none" ELSE "created", !.todo = todo]
    /\ UNCHANGED <<era, catalogue, event, canceller, raced, query, reader, abandoned, bounds>>

\* The detail job is submitted before the end is written, and a write that raises fails
\* the refresh only.
EndOfRefresh ==
    /\ rpc.at = "created" /\ ~event
    /\ \E status \in {"completed", "failed"} : EndRefresh(status)
    /\ dpc' = IF dpc.at = "created" THEN [dpc EXCEPT !.at = "submitted"] ELSE dpc
    /\ UNCHANGED <<era, catalogue, canceller, raced, query, reader, job, jobEvent, abandoned, bounds>>

\* Cancellation: the event, then the row is read, then it is written.
CancelRefresh ==
    /\ Asked
    /\ canceller = "idle" /\ op \in ActiveStatuses
    /\ event' = (rpc.at # "none") /\ canceller' = "reading"
    /\ UNCHANGED <<era, catalogue, op, rpc, raced, query, reader, details>>
CancelReads ==
    /\ canceller = "reading" /\ canceller' = IF op \in ActiveStatuses THEN "writing" ELSE "idle"
    /\ UNCHANGED <<era, catalogue, op, event, rpc, raced, query, reader, details, bounds>>
CancelWrites ==
    /\ canceller = "writing" /\ canceller' = "idle" /\ op' = "cancelling"
    /\ raced' = (raced \/ rpc.at = "none")
    /\ UNCHANGED <<era, catalogue, event, rpc, query, reader, details, bounds>>

-----------------------------------------------------------------------------
(* A query for some assets, single details, deletion, cards and cases. *)

QueryPart(S) ==
    /\ Asked
    /\ query = <<>> /\ S \subseteq DOMAIN Catalogs[era]
    /\ query' = <<[i \in S |-> Catalogs[era][i]]>>
    /\ UNCHANGED <<era, catalogue, refresh, reader, details>>
SavePart ==
    /\ query # <<>> /\ query' = <<>>
    /\ Upsert(query[1], FALSE)
    /\ UNCHANGED <<era, refresh, reader, details, bounds>>
\* The trends of a partial query, or their own refresh, which relinks.
RefreshTrends ==
    /\ Asked
    /\ ReplaceTrends(TRUE)
    /\ UNCHANGED <<era, refresh, query, reader, details>>

ReadDetail(i) ==
    /\ Asked
    /\ reader = None /\ i \in DOMAIN rows /\ i \in DOMAIN Catalogs[era] /\ reader' = i
    /\ UNCHANGED <<era, catalogue, refresh, query, details>>
SaveDetail ==
    LET table == Detailed(rows, {reader}) IN
    /\ reader # None /\ reader' = None
    /\ WriteAndLink(table, link, Scope(table, link, {reader}))
    /\ UNCHANGED <<era, present, case, refresh, query, details, bounds>>

DeletePassport(i) ==
    /\ Asked
    /\ i \in DOMAIN rows
    /\ WriteOnly([j \in DOMAIN rows \ {i} |-> rows[j]],
                 [f \in Findings |-> IF link[f] = i THEN None ELSE link[f]])
    /\ case' = [k \in Cases |-> IF case[k] = i THEN None ELSE case[k]]
    /\ UNCHANGED <<era, present, refresh, query, reader, details>>

SaveCard(f) ==
    /\ Asked
    /\ present' = present \cup {f}
    /\ link' = [link EXCEPT ![f] = Best(rows, f)] /\ loose' = loose \ {f}
    /\ UNCHANGED <<era, rows, case, refresh, query, reader, details>>
StartCase(k, f) ==
    /\ Asked
    /\ case[k] = None /\ f \in present /\ link[f] # None
    /\ case' = [case EXCEPT ![k] = link[f]]
    /\ UNCHANGED <<era, rows, link, present, loose, refresh, query, reader, details>>

-----------------------------------------------------------------------------
(* The detail job. *)

DetailFrame == UNCHANGED <<era, refresh, query, reader, bounds>>
FinishDetails(status) == job' = status /\ dpc' = NoWork /\ jobEvent' = FALSE

StartDetails ==
    /\ dpc.at = "submitted" /\ DetailFrame /\ UNCHANGED <<catalogue, abandoned>>
    /\ \/ job = "queued" /\ ~jobEvent /\ job' = "running" /\ dpc' = [dpc EXCEPT !.at = "fetching"]
          /\ UNCHANGED jobEvent
       \/ (job = "cancelling" \/ jobEvent) /\ FinishDetails("cancelled")

FetchDetail(i) ==
    /\ dpc.at = "fetching" /\ i \in dpc.todo /\ ~jobEvent
    /\ Cardinality(dpc.batch) < DetailBatch
    /\ \/ dpc' = [dpc EXCEPT !.todo = dpc.todo \ {i}, !.batch = dpc.batch \cup {i}]
       \/ dpc' = [dpc EXCEPT !.todo = dpc.todo \ {i}]
    /\ DetailFrame /\ UNCHANGED <<catalogue, job, jobEvent, abandoned>>

FlushDetails ==
    /\ dpc.at = "fetching" /\ dpc.batch # {}
    /\ Cardinality(dpc.batch) >= DetailBatch \/ dpc.todo = {} \/ jobEvent
    /\ WriteOnly(Detailed(rows, dpc.batch), link)
    /\ dpc' = [dpc EXCEPT !.batch = {}, !.loaded = TRUE]
    /\ DetailFrame /\ UNCHANGED <<present, case, job, jobEvent, abandoned>>

LinkDetails ==
    /\ dpc.at = "fetching" /\ dpc.batch = {} /\ (dpc.todo = {} \/ jobEvent)
    /\ dpc' = [dpc EXCEPT !.at = "linked"]
    /\ IF dpc.loaded THEN WriteAndLink(rows, link, present) ELSE UNCHANGED <<rows, link, loose>>
    /\ DetailFrame /\ UNCHANGED <<present, case, job, jobEvent, abandoned>>

EndDetails ==
    /\ dpc.at = "linked" /\ FinishDetails(IF jobEvent THEN "cancelled" ELSE "completed")
    /\ DetailFrame /\ UNCHANGED <<catalogue, abandoned>>

\* A write raises: the job ends as failed and the links are not rebuilt.
DetailsRaise ==
    /\ dpc.at = "fetching" /\ FinishDetails("failed")
    /\ DetailFrame /\ UNCHANGED <<catalogue, abandoned>>

CancelDetails ==
    /\ Asked
    /\ job \in ActiveStatuses /\ job' = "cancelling"
    /\ jobEvent' = (dpc.at # "none")
    /\ UNCHANGED <<era, refresh, query, reader>> /\ UNCHANGED <<catalogue, dpc, abandoned>>

-----------------------------------------------------------------------------
(* MP VM, time and the process. *)

Reissue ==
    /\ era < Len(Catalogs) /\ era' = era + 1
    /\ UNCHANGED <<catalogue, refresh, query, reader, details, bounds>>
DetailsAge ==
    /\ \E i \in DOMAIN rows : rows[i].fresh
    /\ rows' = [i \in DOMAIN rows |-> Row(rows[i], rows[i].detail, FALSE)]
    /\ UNCHANGED <<era, link, present, case, loose, refresh, query, reader, details, bounds>>
\* The next start interrupts what was active and leaves the tables as they are.
Restart ==
    /\ restarts < MaxRestarts /\ restarts' = restarts + 1
    /\ op' = (IF op \in ActiveStatuses THEN "interrupted" ELSE op)
    /\ job' = (IF job \in ActiveStatuses THEN "interrupted" ELSE job)
    /\ event' = FALSE /\ rpc' = Idle /\ canceller' = "idle" /\ query' = <<>> /\ reader' = None
    /\ jobEvent' = FALSE /\ dpc' = NoWork /\ abandoned' = FALSE
    /\ UNCHANGED <<era, catalogue, raced, requests>>

Next ==
    \/ RequestRefresh \/ RefreshStops \/ RefreshFails \/ BeginRefresh \/ FetchCatalog \/ SaveCatalog
    \/ SyncTrends \/ CreateDetailJob \/ EndOfRefresh
    \/ CancelRefresh \/ CancelReads \/ CancelWrites
    \/ \E S \in Parts : QueryPart(S)
    \/ RefreshTrends \/ SavePart \/ SaveDetail
    \/ \E i \in Ids : ReadDetail(i) \/ DeletePassport(i) \/ FetchDetail(i)
    \/ \E f \in Findings : SaveCard(f) \/ \E k \in Cases : StartCase(k, f)
    \/ StartDetails \/ FlushDetails \/ LinkDetails \/ EndDetails \/ DetailsRaise \/ CancelDetails
    \/ Reissue \/ DetailsAge \/ Restart

Spec == Init /\ [][Next]_vars

-----------------------------------------------------------------------------
(* Properties. *)

\* Every stored finding is linked to its best passport, although most writes look up
\* only the findings their passports can affect; the exceptions are the findings that
\* a deletion, an unfinished detail job or the trends of a whole refresh touched.
LinksAreBest == \A f \in present : link[f] = Best(rows, f) \/ f \in loose

\* What a step may do to the case of a passport.
CaseFollows ==
    \A k \in Cases : case[k] # None /\ case'[k] # case[k] =>
       \/ DeletePassport(case[k])
       \/ LET n == case'[k] IN
          /\ n # None
          /\ rows'[n].ext = rows[case[k]].ext
          /\ rows'[n].pkg # None /\ rows[case[k]].pkg # None => rows'[n].pkg = rows[case[k]].pkg

\* A refresh never takes the passport of a case away, and moves a case only to a
\* passport of the same vulnerability that is not known to be of another package.
CasesFollowPassport == [][CaseFollows]_vars

\* An active row blocks every later refresh, so somebody has to be working on it. Two
\* windows are excepted: a cancellation written over the end of the refresh, and a refresh
\* that is cancelled or fails between the row of its detail job and the submission, where
\* the row stays queued until the next start.  (The write of an end itself does not raise.)
ActiveMeansWorked ==
    /\ op \in ActiveStatuses => rpc.at # "none" \/ raced
    /\ job \in ActiveStatuses => dpc.at \notin {"none", "created"} \/ rpc.at = "created" \/ abandoned
=============================================================================

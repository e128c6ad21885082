------------------------------- MODULE Records -------------------------------
(* Components whose state is rows of the database, and what is true of each for *)
(* every size: the script that scans subnets and the dynamic group of a launch, *)
(* which take things out of MP VM; the identity of the cards, remediation, the  *)
(* passports, the tokens of the users and the bulk refresh.  No two of them     *)
(* write the same table, so each has variables of its own.                      *)
EXTENDS SubnetScan

\* None is shared, and so are the request threads of remediation and access.
CONSTANTS
    Threads, MaxCrashes,
    Ids, Observations, Null, MaxSaves,                                      \* card identity
    Keys, Rated, Shots, Key, Instance, MaxCards, MaxEdits,                  \* remediation
    Users, MaxTokens, MaxActive, Lifetime, Grace, MaxClock, MaxSessions, MaxRequests, \* access
    Assets, Parallelism, Slots,                                             \* bulk refresh
    Retention, ConnectDuringLaunch, TaskRunsAgain, MaxTime,                 \* dynamic group
    PassportIds, Order, Parts, Trending, Catalogs, DetailOs, Findings, Finding, Cases,
    DetailBatch, MaxRestarts, MaxPosts                                      \* passports

ASSUME ObservationIds == \A o \in Observations : o.id \in Ids
ASSUME SavesNat == MaxSaves \in Nat
\* The listings are of the catalogue's passports.
ASSUME ListingsTyped ==
    Len(Catalogs) \in Nat \ {0} /\ \A e \in 1 .. Len(Catalogs) : DOMAIN Catalogs[e] \subseteq PassportIds
\* Ids are compared as strings; no id is NULL.
ASSUME IdsOrdered ==
    /\ None \notin PassportIds /\ Order \in [PassportIds -> Nat]
    /\ \A i, j \in PassportIds : Order[i] = Order[j] => i = j

VARIABLES
    present, fqdn, ip, hostname, seen, serial, host, clock, saves,          \* card identity
    card, cases, absent, policy, rec, copy, due, reconciled, cardSaves, edits, cuts, \* remediation
    hour, user, token, session, locked, task, requests, lived,              \* access
    op, listed, cancelEvent, coord, outcome, worker, tracked, child, others, handler,
    overwritten,                                                            \* bulk refresh
    launch, knownRun, state, requested, confirmed, finishedAt, cleanupAfter, removed,
    lpc, wpc, cpc, deadline, group, scan, scanEnd, rerun, rerunEnd, now, crashes,
    removedAt,                                                              \* dynamic group
    era, rows, link, stored, case, loose, catalogOp, catalogEvent, rpc, canceller, query, reader,
    detailJob, detailEvent, dpc, raced, abandoned, restarts, posts                   \* passports

identity == <<present, fqdn, ip, hostname, seen, serial, host, clock, saves>>
remediation == <<card, cases, absent, policy, rec, copy, due, reconciled, cardSaves, edits, cuts>>
access == <<hour, user, token, session, locked, task, requests, lived>>
refresh == <<op, listed, cancelEvent, coord, outcome, worker, tracked, child, others, handler,
             overwritten>>
dynamicGroup == <<launch, knownRun, state, requested, confirmed, finishedAt, cleanupAfter, removed,
                  lpc, wpc, cpc, deadline, group, scan, scanEnd, rerun, rerunEnd, now, crashes,
                  removedAt>>
passports == <<era, rows, link, stored, case, loose, catalogOp, catalogEvent, rpc, canceller,
               query, reader, detailJob, detailEvent, dpc, raced, abandoned, restarts, posts>>

I == INSTANCE AssetCardIdentity
R == INSTANCE Remediation WITH
    MaxSaves <- MaxCards, MaxRequests <- MaxEdits, saves <- cardSaves, requests <- edits,
    crashes <- cuts
A == INSTANCE Access WITH MaxTime <- MaxClock, now <- hour, job <- task
B == INSTANCE BulkRefresh WITH token <- cancelEvent
K == INSTANCE DockerGroup WITH run <- launch, gone <- removedAt
P == INSTANCE Passports WITH
    Ids <- PassportIds, MaxRequests <- MaxPosts, present <- stored, op <- catalogOp,
    event <- catalogEvent, job <- detailJob, jobEvent <- detailEvent, requests <- posts

-----------------------------------------------------------------------------
(* The properties of the components, stated in their modules.  The one of the  *)
(* script is RemovalsHold of SubnetScan.                                       *)

\* Identity: no two cards have the same fqdn.
OneCardPerFqdn == I!OneCardPerFqdn
\* Identity and passports: a row keeps its subject.  A saved card never replaces the card
\* of another host, as long as hosts share no fqdn, address or name, and a re-issue moves
\* a case to a passport of the same vulnerability only.
RowsKeepTheirSubject ==
    [][/\ \A c0 \in present \cap present' : host'[c0] = host[c0]
       /\ P!CaseFollows]_<<identity, passports>>
\* Passports: a stored finding has its best passport, whichever write looked it up, and
\* an active row has somebody working on it.
PassportsHold == P!LinksAreBest /\ P!ActiveMeansWorked
\* Remediation: after reconciliation cases and statistics agree with the saved card.
CasesMatchCard == R!CasesMatchCard
\* Remediation: an operator's edit is applied to the case that the page showed.
EditsSeeTheirCase == R!EditsSeeTheirCase
\* Access: no owner has more working tokens than the limit, and a token whose end was
\* acknowledged answers no request.
TokensHold == A!TokensWithinLimit /\ A!RevocationHolds
\* Bulk refresh: once its row has an end, no worker starts anything.
EndedRefreshIsQuiet == B!EndedRefreshIsQuiet
\* Dynamic group: it is there for as long as anybody counts on it.
GroupStays == K!GroupStays
=============================================================================

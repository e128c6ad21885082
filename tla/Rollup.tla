------------------------------- MODULE Rollup -------------------------------
(***************************************************************************)
(* The vulnerability dashboard: the two rollup tables that triggers keep   *)
(* beside the findings, and the summary and the list, read from the        *)
(* rollups or from the findings.                                           *)
(*                                                                         *)
(* A transaction that changes findings holds the passport write lock from  *)
(* its first statement on, so there is one writer at a time; readers see   *)
(* committed rows only.                                                    *)
(***************************************************************************)
EXTENDS Integers, FiniteSets, FiniteSetsExt

CONSTANTS
  Assets,
  Findings,      \* records [vid, cve, name, docker, rank, object]; an absent id is None
  None,
  Loads,         \* the sets of findings a card may be saved with
  MaxWrites      \* bound on the writing transactions

VARIABLES
  cards,         \* committed asset cards
  rows,          \* asset |-> committed findings
  perSelector,   \* committed vulnerability_rollup: selector |-> row
  perHost,       \* committed vulnerability_host_rollup: asset |-> row
  writer,        \* the open writing transaction, or None
  writes

vars == <<cards, rows, perSelector, perHost, writer, writes>>

--------------------------------------------------------------------------------
(* The definitions of the aggregates. *)

Valid(f) == f.vid # None \/ f.cve # None \/ f.name # None

Selector(f) ==
  CASE f.vid # None -> <<"id", f.vid, f.docker, None>>
    [] f.vid = None /\ f.cve # None -> <<"cve", f.cve, f.docker, None>>
    [] OTHER -> <<"name", f.name, f.docker, f.object>>

Selectors == {Selector(f) : f \in {g \in Findings : Valid(g)}}

\* The findings, each with its asset, of a table.
All(table) == UNION {{<<a, f>> : f \in {g \in table[a] : Valid(g)}} : a \in DOMAIN table}
Of(table, s) == {p \in All(table) : Selector(p[2]) = s}

\* vulnerability_rollup_source
SelectorRow(table, s) ==
  LET group == Of(table, s)
  IN [hosts    |-> Cardinality({p[1] : p \in group}),
      findings |-> Cardinality(group),
      ranks    |-> {p[2].rank : p \in group},
      cves     |-> {p[2].cve : p \in group} \ {None}]

\* vulnerability_host_rollup_source
HostRow(table, a) ==
  LET group == {f \in table[a] : Valid(f)}
  IN [byRank    |-> [r \in 1..5 |-> Cardinality({f \in group : f.rank = r})],
      selectors |-> Cardinality({Selector(f) : f \in group}),
      worst     |-> Min({f.rank : f \in group})]

SelectorRows(table, targets) ==
  [s \in {t \in targets : Of(table, t) # {}} |-> SelectorRow(table, s)]
HostRows(table, targets) ==
  [a \in {b \in targets : \E f \in table[b] : Valid(f)} |-> HostRow(table, a)]

\* DELETE the target rows, then INSERT what the source view gives for them.
Refreshed(rollup, targets, fresh) ==
  [k \in (DOMAIN rollup \ targets) \cup DOMAIN fresh |->
     IF k \in DOMAIN fresh THEN fresh[k] ELSE rollup[k]]

--------------------------------------------------------------------------------
(* The writing transactions. *)

NoRows == [a \in Assets |-> {}]

Init ==
  /\ cards = {}
  /\ rows = NoRows
  /\ perSelector = [s \in {} |-> None]
  /\ perHost = [a \in {} |-> None]
  /\ writer = None
  /\ writes = 0

Begin(kind, a, new) ==
  /\ writer = None
  /\ writes < MaxWrites
  /\ writes' = writes + 1
  /\ writer' = [kind |-> kind, asset |-> a, new |-> new, step |-> "cleared",
                cards |-> IF kind = "save" THEN cards \cup {a} ELSE cards \ {a},
                rows |-> rows, sel |-> perSelector, host |-> perHost]
  /\ UNCHANGED <<cards, rows, perSelector, perHost>>

\* An unknown card: DELETE ... RETURNING gives no row.
BeginSave == \E a \in Assets, new \in Loads : Begin("save", a, new)
BeginDelete == \E a \in cards : Begin("delete", a, {})

TouchedNew(old, new) == {Selector(f) : f \in {g \in new : Valid(g)}}

\* The selectors and the assets of the rows a statement changed.
Touched(old, new) == {Selector(f) : f \in {g \in old \cup new : Valid(g)}}

\* One statement on the findings of the transaction's asset and the trigger
\* that runs after it. A statement that touches no row refreshes nothing.
Statement(after, next) ==
  LET a == writer.asset
      before == writer.rows[a]
      table == [writer.rows EXCEPT ![a] = after]
      selectors == Touched(before, after)
      hosts == IF before = after THEN {} ELSE {a}
  IN writer' = [writer EXCEPT !.rows = table, !.step = next,
                  !.sel = Refreshed(writer.sel, selectors, SelectorRows(table, selectors)),
                  !.host = Refreshed(writer.host, hosts, HostRows(table, hosts))]

\* DELETE of the groups, or of the card, cascades to the findings.
DeleteRows ==
  /\ writer # None /\ writer.step = "cleared"
  /\ Statement({}, IF writer.kind = "save" THEN "insert" ELSE "commit")
  /\ UNCHANGED <<cards, rows, perSelector, perHost, writes>>

InsertRows ==
  /\ writer # None /\ writer.step = "insert"
  /\ Statement(writer.new, "commit")
  /\ UNCHANGED <<cards, rows, perSelector, perHost, writes>>

Commit ==
  /\ writer # None /\ writer.step = "commit"
  /\ cards' = writer.cards
  /\ rows' = writer.rows
  /\ perSelector' = writer.sel
  /\ perHost' = writer.host
  /\ writer' = None
  /\ UNCHANGED <<writes>>

Rollback ==
  /\ writer # None
  /\ writer' = None
  /\ UNCHANGED <<cards, rows, perSelector, perHost, writes>>

--------------------------------------------------------------------------------
(* The answers of the dashboard. *)

\* The sum over all hosts of what they count of these ranks: one element for each unit.
SumOfRanks(ranks) ==
  Cardinality(UNION {{k} \X (1..perHost[k[1]].byRank[k[2]]) : k \in (DOMAIN perHost) \X ranks})

CountRank(r) == {s \in DOMAIN perSelector : r \in perSelector[s].ranks}

\* _rollup_summary_rows: totals and the severity table.
RollupSummary ==
  [hosts    |-> Cardinality(DOMAIN perHost),
   findings |-> SumOfRanks(1..5),
   unique   |-> Cardinality(DOMAIN perSelector),
   cves     |-> Cardinality(UNION {perSelector[s].cves : s \in DOMAIN perSelector}),
   risky    |-> Cardinality({a \in DOMAIN perHost : perHost[a].worst <= 2}),
   unrated  |-> Cardinality({s \in DOMAIN perSelector : Min(perSelector[s].ranks) = 5}),
   severity |-> [r \in 1..5 |->
     <<SumOfRanks({r}),
       Cardinality({a \in DOMAIN perHost : perHost[a].byRank[r] > 0}),
       Cardinality(CountRank(r))>>]]

\* summary over the joined findings, the form every filtered request takes.
DirectSummary ==
  LET found == {p \in All(rows) : p[1] \in cards}
      OfRank(r) == {p \in found : p[2].rank = r}
      Sels(set) == {Selector(p[2]) : p \in set}
      HostsOf(set) == {p[1] : p \in set}
  IN [hosts    |-> Cardinality(HostsOf(found)),
      findings |-> Cardinality(found),
      unique   |-> Cardinality(Sels(found)),
      cves     |-> Cardinality({p[2].cve : p \in found} \ {None}),
      risky    |-> Cardinality({p[1] : p \in OfRank(1) \cup OfRank(2)}),
      unrated  |-> Cardinality({s \in Sels(found) : \A p \in found : Selector(p[2]) = s => p[2].rank = 5}),
      severity |-> [r \in 1..5 |->
        <<Cardinality(OfRank(r)), Cardinality(HostsOf(OfRank(r))), Cardinality(Sels(OfRank(r)))>>]]

\* hosts: the hosts behind one line of the list.
HostsBehind(s) == {a \in cards : \E f \in rows[a] : Valid(f) /\ Selector(f) = s}

--------------------------------------------------------------------------------
Next ==
  \/ BeginSave \/ BeginDelete \/ DeleteRows \/ InsertRows \/ Commit \/ Rollback

Spec == Init /\ [][Next]_vars

TypeOK ==
  /\ cards \subseteq Assets
  /\ \A a \in Assets : rows[a] \subseteq Findings
  /\ DOMAIN perSelector \subseteq Selectors
  /\ DOMAIN perHost \subseteq Assets

\* With and without the rollups the dashboard gives one answer: the totals and
\* the severity table are the same, and each line of the list counts the hosts
\* that opening the line shows (migration 0037: the rollups are never stale).
AnswersAgree ==
  /\ RollupSummary = DirectSummary
  /\ \A s \in Selectors :
       (IF s \in DOMAIN perSelector THEN perSelector[s].hosts ELSE 0) = Cardinality(HostsBehind(s))
================================================================================

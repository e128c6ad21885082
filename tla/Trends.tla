------------------------------- MODULE Trends -------------------------------
(***************************************************************************)
(* The history of the vulnerability totals: snapshots taken after card     *)
(* saves, scans and deletions, their retention, and the trend that carries *)
(* the last snapshot forward over the days that have none.                 *)
(***************************************************************************)
EXTENDS Integers, FiniteSets

CONSTANTS
  Triggers,      \* <<trigger_kind, trigger_id>> of the captures
  Retention,     \* VULNERABILITY_TRENDS_RETENTION_DAYS
  None,
  MaxDay,        \* bound on the clock, in days
  MaxHistory     \* bound on the snapshots ever inserted

VARIABLES
  day,
  captures,      \* captures whose time is read and whose statement has not run
  snapshots,     \* vulnerability_aggregate_snapshots
  history        \* every snapshot ever inserted, pruned or not

vars == <<day, captures, snapshots, history>>

Init ==
  /\ day = 0
  /\ captures = {}
  /\ snapshots = {}
  /\ history = {}


Tick ==
  /\ day < MaxDay
  /\ day' = day + 1
  /\ UNCHANGED <<captures, snapshots, history>>

\* capture_snapshot reads the clock before it opens its transaction.
BeginCapture(t) ==
  /\ Cardinality(history) + Cardinality(captures) < MaxHistory
  /\ ~ \E c \in captures : c.trigger = t
  /\ captures' = captures \cup {[trigger |-> t, at |-> day]}
  /\ UNCHANGED <<day, snapshots, history>>

\* The first snapshot of its day removes what is older than the retention.
Kept(saved, c) ==
  IF \E s \in saved : s.at = c.at THEN saved
  ELSE {s \in saved : s.at >= c.at - Retention}

\* One statement inserts the totals unless the trigger has its row already. The advisory
\* lock is only tried: while another capture holds it nothing is pruned.
Capture(c) ==
  LET snapshot == [trigger |-> c.trigger, at |-> c.at, id |-> Cardinality(history) + 1]
  IN /\ c \in captures
     /\ captures' = captures \ {c}
     /\ IF \E s \in snapshots : s.trigger = c.trigger
        THEN UNCHANGED <<snapshots, history>>
        ELSE /\ \/ snapshots' = Kept(snapshots, c) \cup {snapshot}
                \/ captures # {c} /\ snapshots' = snapshots \cup {snapshot}
             /\ history' = history \cup {snapshot}
     /\ UNCHANGED day

\* Best effort: an error loses the snapshot and nothing else.
CaptureFails(c) ==
  /\ c \in captures
  /\ captures' = captures \ {c}
  /\ UNCHANGED <<day, snapshots, history>>

Later(s, t) == s.at > t.at \/ (s.at = t.at /\ s.id > t.id)
Latest(set) == CHOOSE s \in set : \A t \in set \ {s} : Later(s, t)

\* trend_snapshots: the range and the last snapshot before it.
Selected(saved, from, to) ==
  LET before == {s \in saved : s.at < from}
  IN {s \in saved : from <= s.at /\ s.at <= to}
       \cup (IF before = {} THEN {} ELSE {Latest(before)})

\* The row of a day: the last snapshot up to its end, carried forward.
TrendRow(saved, from, to, d) ==
  LET seen == {s \in Selected(saved, from, to) : s.at <= d}
  IN IF seen = {} THEN None ELSE Latest(seen)

--------------------------------------------------------------------------------
Next ==
  \/ Tick
  \/ \E t \in Triggers : BeginCapture(t)
  \/ \E c \in captures : Capture(c) \/ CaptureFails(c)

Spec == Init /\ [][Next]_vars

\* What pruning may hide from a trend, also when captures commit out of order. From the
\* first day on that has a snapshot in the retention, counted back from the newest one,
\* every row is the row the full history gives. Before it the snapshot to carry forward
\* may be pruned: the row is then missing, or (after a capture that committed late) older
\* than the history's, and never newer than the day it stands for.
TrendIsHistory ==
  history # {} =>
    LET newest == Latest(history).at
    IN \A from \in 0..day, to \in 0..day, d \in 0..day :
         (from <= d /\ d <= to /\ to - from <= Retention) =>
           LET true == TrendRow(history, from, to, d)
               kept == TrendRow(snapshots, from, to, d)
           IN IF \E s \in history : newest - Retention <= s.at /\ s.at <= d
              THEN kept = true
              ELSE kept \in {None, true} \/ Later(true, kept)
================================================================================

---------------------------- MODULE MCRemediation ----------------------------
(* Remediation by itself: a card that is saved whole, and then one of whose     *)
(* vulnerability requests failed.                                               *)
EXTENDS Remediation, TLC

CONSTANTS r1, r2, t1

MCGroup(id, items) == [id |-> id, truncated |-> FALSE, items |-> items]
MCShots == { [groups |-> << MCGroup("c1", <<"f1">>), MCGroup("c2", <<"f2">>) >>, real |-> {r1, r2}],
             [groups |-> << MCGroup("c1", <<"f1">>) >>, real |-> {r1, r2}] }
MCKey == [f1 |-> r1, f2 |-> r2]
MCInstance == [f1 |-> "i1", f2 |-> "i2"]
=============================================================================

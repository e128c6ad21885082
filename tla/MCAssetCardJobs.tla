--------------------------- MODULE MCAssetCardJobs ---------------------------
(* Every MP VM object of the instance belongs to one and the same host, so that *)
(* saves of different objects meet in one card.                                 *)
EXTENDS AssetCardJobs, TLC

MCHostOf == [a \in Assets |-> "host"]
MCSymmetry == Permutations(Jobs) \cup Permutations(Assets)
=============================================================================

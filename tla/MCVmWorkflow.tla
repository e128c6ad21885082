----------------------------- MODULE MCVmWorkflow -----------------------------
(* Instances of VmWorkflow for TLC. *)
EXTENDS VmWorkflow, TLC

CONSTANTS v1, v2

\* One workflow of any kind; the other row is for its retry.
MCAnyKind == [v \in {v1} |-> KindNames]

\* Two verifications of the campaign; the rows are interchangeable.
MCCampaigns == [v \in {v1, v2} |-> {"campaign"}]
RowSymmetry == Permutations(Workflows)
=============================================================================

---------------------------- MODULE MCApprovals ----------------------------
(* Instance of Approvals for TLC: a reversible and an irreversible body.   *)
EXTENDS Approvals, TLC

CONSTANTS trashBody, purgeBody

MCBody == {trashBody, purgeBody}
MCRiskOf == trashBody :> 1 @@ purgeBody :> 3
MCTtl == {0}
MCSymmetry == Permutations(Process)
=============================================================================

--------------------------- MODULE MCAgentRuntime ---------------------------
(* Instance of AgentRuntime for TLC: two read-only tools, the planner and  *)
(* a tool that needs approval.  What the registry does not have is refused *)
(* by the same step as a modifying tool in safe mode, and is left out.     *)
EXTENDS AgentRuntime, TLC

CONSTANTS scan, report, cleanup_plan, apply, c1, c2, c3

MCTool == {scan, report, cleanup_plan, apply}
MCKnown == MCTool
MCModifying == {cleanup_plan, apply}
MCNeedsApproval == {apply}
MCPlans == {cleanup_plan}

(* Every tool under the first call id; the others repeat a call.           *)
MCProposal == {<<c1, t>> : t \in MCTool} \cup {<<c2, scan>>, <<c3, scan>>}
=============================================================================

-------------------------- MODULE MCPlanExecution ---------------------------
(* Instance of PlanExecution for TLC, explored twice: `pair`, where        *)
(* commands run at once over one place, one file and one item, and         *)
(* `batch`, where they run one after the other over two of each, so that a *)
(* plan names two files and may break off between them.                    *)
EXTENDS PlanExecution, TLC

CONSTANTS x, y, locked, Parts

VARIABLE part

MCPath == {x, y, locked}
MCProtected == {locked}
MCTtl == {0}
MCSymmetry == Permutations(Process) \cup Permutations(Item) \cup Permutations(File)
              \cup Permutations(ApprovalId) \cup Permutations(PlanId)

\* A plan that names nothing is left to `batch`.
Few ==
  /\ \A n \in PlanId : plans'[n] # NoBody => plans'[n].names # {}
  /\ disk'[y] = NoFile
  /\ Cardinality(born') <= 1
  /\ Cardinality({i \in Item : trashRows'[i] # NoRow \/ \E p \in Process : item'[p] = i}) <= 1
OneByOne == Cardinality({p \in Process : command'[p] # "none"}) <= 1

MCInit == Init /\ part \in Parts
MCNext ==
  /\ UNCHANGED part /\ Next
  /\ part = "pair" => Few
  /\ part = "batch" => OneByOne
MCSpec == MCInit /\ [][MCNext]_<<part, vars>>
=============================================================================

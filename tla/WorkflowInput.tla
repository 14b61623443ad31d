--------------------------- MODULE WorkflowInput ---------------------------
(***************************************************************************)
(* What WorkflowDispatch._prepare_workflow_input (workflows/decorators.py) *)
(* hands over to JobWorkflow: the nodes with their dependencies and        *)
(* retries, the outputs, and the execution levels, each a sequence.        *)
(*                                                                         *)
(* JobWorkflow takes it for granted that its input is well formed, and     *)
(* CaptureProofs proves it of the levels get_execution_order builds.       *)
(***************************************************************************)
EXTENDS Integers, Sequences

CONSTANT Node       \* identifiers a task graph may use

NodesAt(in, i) == {in.levels[i][j] : j \in 1..Len(in.levels[i])}

WellFormed(in) ==
    /\ in.nodes \subseteq Node
    /\ in.deps \in [in.nodes -> SUBSET in.nodes]
    /\ in.retries \in [in.nodes -> Nat]
    /\ in.outputs \subseteq Node
    /\ in.levels \in Seq(Seq(in.nodes))
    \* every node stands at one place of one level, after its dependencies
    /\ \A n \in in.nodes : \E i \in 1..Len(in.levels) : n \in NodesAt(in, i)
    /\ \A i, k \in 1..Len(in.levels) :
          \A n \in NodesAt(in, i) : \A m \in NodesAt(in, k) :
             /\ n = m => i = k
             /\ m \in in.deps[n] => k < i
    /\ \A i \in 1..Len(in.levels) : \A j, k \in 1..Len(in.levels[i]) :
          in.levels[i][j] = in.levels[i][k] => j = k
=============================================================================

---------------------------- MODULE GraphLevels ----------------------------
(***************************************************************************)
(* A transport graph and its execution levels (workflows/graph.py).        *)
(*                                                                         *)
(* Capture adds one node after the other (TransportGraph.add_node) and     *)
(* names the outputs; get_execution_order then checks that nothing is      *)
(* missing and peels the graph level by level.  A TaskNode may name any    *)
(* dependency, also a later node, itself, or one of another graph: only    *)
(* get_execution_order looks.                                              *)
(*                                                                         *)
(* JobWorkflow relies on the shape of these levels (its WellFormed).       *)
(* Mistaken... operators are wrong versions of the definition after them;  *)
(* no action uses them.                                                    *)
(***************************************************************************)
EXTENDS Integers, Sequences

CONSTANT Node        \* the identifiers a node, dependency or output may have

VARIABLES
    nodes,          \* keys of self.nodes
    deps,           \* node -> ids of its dependencies
    edges,          \* self.edges: <<from, to>>
    outputs,        \* self.output_nodes
    pc,             \* "capture", "peel", "ordered" or "refused"
    error,          \* why get_execution_order raised: "none", "missing", "cycle"
    levels,         \* the levels appended so far
    remaining       \* the nodes not in a level yet

graph == <<nodes, deps, edges, outputs>>
vars  == <<graph, pc, error, levels, remaining>>

Init ==
    /\ nodes = {}
    /\ deps = <<>>
    /\ edges = {}
    /\ outputs = {}
    /\ pc = "capture"
    /\ error = "none"
    /\ levels = <<>>
    /\ remaining = {}

DependencyEdges(n, D) == {<<d, n>> : d \in D}

\* add_node, which refuses an id that is taken.
AddNode(n, D) ==
    /\ pc = "capture"
    /\ n \notin nodes
    /\ nodes' = nodes \cup {n}
    /\ deps' = [m \in nodes \cup {n} |-> IF m = n THEN D ELSE deps[m]]
    /\ edges' = edges \cup DependencyEdges(n, D)
    /\ UNCHANGED <<outputs, pc, error, levels, remaining>>

\* set_output_node and set_output_nodes replace the list, unchecked.
SetOutputs(O) ==
    /\ pc = "capture"
    /\ outputs' = O
    /\ UNCHANGED <<nodes, deps, edges, pc, error, levels, remaining>>

\* The three loops of checks at the start of get_execution_order.
Missing ==
    \/ ~(outputs \subseteq nodes)
    \/ \E n \in nodes : ~(deps[n] \subseteq nodes)
    \/ \E e \in edges : e[1] \notin nodes \/ e[2] \notin nodes

BeginOrder ==
    /\ pc = "capture"
    /\ \/ /\ Missing
          /\ pc' = "refused"
          /\ error' = "missing"
          /\ UNCHANGED remaining
       \/ /\ ~Missing
          /\ pc' = IF nodes = {} THEN "ordered" ELSE "peel"
          /\ remaining' = nodes
          /\ UNCHANGED error
    /\ UNCHANGED <<graph, levels>>

Predecessors(n) == {e[1] : e \in {f \in edges : f[2] = n}}

\* Wrong: waits for the last level only, or takes one node at a time.
MistakenReady ==
    {n \in remaining : Predecessors(n) \subseteq
                           IF levels = <<>> THEN {} ELSE levels[Len(levels)]}
MistakenOneReady ==
    LET free == {n \in remaining : Predecessors(n) \cap remaining = {}}
    IN  IF free = {} THEN {} ELSE {CHOOSE n \in free : TRUE}
Ready == {n \in remaining : Predecessors(n) \cap remaining = {}}

Cyclic == Ready = {}

\* One round of the while loop.
Peel ==
    /\ pc = "peel"
    /\ \/ /\ Cyclic
          /\ pc' = "refused"
          /\ error' = "cycle"
          /\ UNCHANGED <<levels, remaining>>
       \/ /\ Ready # {}
          /\ levels' = Append(levels, Ready)
          /\ remaining' = remaining \ Ready
          /\ pc' = IF remaining \subseteq Ready THEN "ordered" ELSE "peel"
          /\ UNCHANGED error
    /\ UNCHANGED graph

Over == pc \in {"ordered", "refused"} /\ UNCHANGED vars

Next ==
    \/ \E n \in Node : \E D \in SUBSET Node : AddNode(n, D)
    \/ \E O \in SUBSET Node : SetOutputs(O)
    \/ BeginOrder
    \/ Peel
    \/ Over

Spec == Init /\ [][Next]_vars

\* get_execution_order runs to its end: it is one synchronous call.
---------------------------------------------------------------------------
(* Properties.                                                             *)

\* The shape of a TransportGraph and of the locals of get_execution_order;
\* edges repeat the dependencies.
TypeOK ==
    /\ nodes \subseteq Node
    /\ deps \in [nodes -> SUBSET Node]
    /\ edges = {e \in Node \X nodes : e[1] \in deps[e[2]]}
    /\ outputs \subseteq Node
    /\ pc \in {"capture", "peel", "ordered", "refused"}
    /\ error \in {"none", "missing", "cycle"}
    /\ levels \in Seq(SUBSET nodes)
    /\ remaining \subseteq nodes
    /\ pc = "peel" => remaining # {}

\* What JobWorkflow takes for granted of the levels it is given: every node is
\* in one level, and after all its dependencies, which are nodes of the graph.
LevelsRespectDependencies ==
    pc = "ordered" =>
        /\ \A n \in nodes : deps[n] \subseteq nodes
        /\ outputs \subseteq nodes
        /\ \A n \in nodes : \E i \in 1..Len(levels) : n \in levels[i]
        /\ \A i, k \in 1..Len(levels) : \A n \in levels[i] : \A m \in levels[k] :
              /\ n = m => i = k
              /\ m \in deps[n] => k < i

\* "Nodes within the same level can run in parallel": no node waits for a level
\* it does not have to wait for, and no level is empty.
LevelsAreEarliest ==
    \A i \in 1..Len(levels) :
        /\ levels[i] # {}
        /\ i > 1 => \A n \in levels[i] : \E m \in levels[i - 1] : m \in deps[n]

\* The "Cycle detected" error is never raised for a graph that has none: some
\* nodes of the graph each depend on another one of them.
CycleIsReal ==
    error = "cycle" =>
        \E S \in SUBSET nodes : S # {} /\ \A n \in S : deps[n] \cap S # {}

=============================================================================

--------------------------- MODULE MCJobWorkflow ---------------------------
(* Small task graphs for JobWorkflow: no node, a chain, a join of two      *)
(* independent nodes, an output that is no node, and three levels.         *)
EXTENDS JobWorkflow, TLC

CONSTANTS a, b, c

Graph(nodes, deps, levels, outputs, retries) ==
    [nodes |-> nodes, deps |-> deps, levels |-> levels, outputs |-> outputs,
     retries |-> retries]

Empty == Graph({}, <<>>, <<>>, {}, <<>>)

Chain == Graph({a, b}, a :> {} @@ b :> {a}, <<<<a>>, <<b>>>>, {b}, a :> 1 @@ b :> 1)

Join == Graph({a, b, c}, a :> {} @@ b :> {} @@ c :> {a, b},
              <<<<b, a>>, <<c>>>>, {}, a :> 1 @@ b :> 1 @@ c :> 1)

LostOutput == Graph({a}, a :> {}, <<<<a>>>>, {b}, a :> 0)

Deep == Graph({a, b, c}, a :> {} @@ b :> {a} @@ c :> {a, b},
              <<<<a>>, <<b>>, <<c>>>>, {a, c}, a :> 2 @@ b :> 1 @@ c :> 1)

MCNode == {a, b, c}
MCInputs == {Empty, Chain, Join, LostOutput, Deep}
=============================================================================

------------------------------ MODULE Dataflow ------------------------------
(***************************************************************************)
(* What running a task graph promises, without levels, activities, workers *)
(* or retries: every node gets one result, for good, computed from exactly *)
(* the results its dependencies have; a run that completes has a result    *)
(* for every node and returns the declared outputs.                        *)
(***************************************************************************)
EXTENDS Integers

CONSTANTS Inputs, None

VARIABLES
    input,      \* the workflow input: nodes, deps, outputs
    status,     \* "running", "completed", "failed" or "cancelled"
    done,       \* node -> the one result it has
    output      \* what a completed run returned

vars == <<input, status, done, output>>

Init ==
    /\ input \in Inputs
    /\ status = "running"
    /\ done = <<>>
    /\ output = None

\* Value v is what node n computes from the results recorded in "results".
IsResult(v, n, results) ==
    /\ v.node = n
    /\ v.in = [d \in input.deps[n] |-> results[d]]

\* Record results for nodes whose dependencies all have one already.
Commit ==
    /\ DOMAIN done \subseteq DOMAIN done'
    /\ \A n \in DOMAIN done : done'[n] = done[n]
    /\ \A n \in DOMAIN done' \ DOMAIN done :
          /\ n \in input.nodes
          /\ input.deps[n] \subseteq DOMAIN done
          /\ IsResult(done'[n], n, done)

\* The run returns: every node has its result, and so has every output.
Deliver ==
    /\ status' = "completed"
    /\ DOMAIN done' = input.nodes
    /\ output' = [n \in IF input.outputs = {} THEN input.nodes
                                              ELSE input.outputs |-> done'[n]]

Continue == status' \in {"running", "failed", "cancelled"} /\ output' = output

Next ==
    /\ status = "running"
    /\ Commit
    /\ Deliver \/ Continue
    /\ input' = input

Spec == Init /\ [][Next]_vars
=============================================================================

---------------------------- MODULE JobWorkflow ----------------------------
(***************************************************************************)
(* The durable execution of a task graph.                                  *)
(*                                                                         *)
(* JobWorkflow.run (workflows/temporal_workflow.py) walks the execution    *)
(* levels it was given.  At each level it prepares the nodes one after the *)
(* other (activity prepare_node_inputs), then starts one execute_task      *)
(* activity per node, waits for all of them and stores their results.      *)
(*                                                                         *)
(* The Temporal server and its workers are the environment: an activity is *)
(* tried at least once, an attempt may time out while its child process    *)
(* still runs, a worker may die and leave the child behind, and the answer *)
(* of an attempt the server gave up on is ignored.                         *)
(*                                                                         *)
(* An operator named Mistaken... is a plausible wrong version of the       *)
(* definition that follows it; no action uses it.  Substituted for the     *)
(* real one it makes a property fail, which shows what the property is for. *)
(***************************************************************************)
EXTENDS WorkflowInput, FiniteSets

CONSTANTS
    Inputs,         \* the workflow inputs a dispatch may produce
    None,           \* "no inputs resolved yet", "nobody to blame"
    MaxCrashes      \* how many worker crashes a behaviour may contain

ASSUME InputsAssumption == \A in \in Inputs : WellFormed(in)
ASSUME NoneAssumption == None \notin Node
ASSUME CrashAssumption == MaxCrashes \in Nat

VARIABLES
    input,       \* the workflow input, fixed for the run
    wf,          \* status of the workflow execution
    lvl,         \* index of the level being worked on
    pos,         \* index in that level of the next node to prepare
    gathering,   \* the level's execute_task activities have been scheduled
    resolved,    \* per node: the inputs prepare_node_inputs resolved
    completed,   \* completed_results: node id -> result
    output,      \* what the workflow returns
    culprit,     \* the node whose failure the workflow raised
    act,         \* per node: state of its execute_task activity (server)
    attempt,     \* per node: attempts started so far (server)
    outcome,     \* per node: how the activity closed
    alive,       \* <<node, attempt>> with a child run by a live worker
    orphans,     \* <<node, attempt>> whose worker died, child still running
    crashes      \* worker crashes so far

wfVars  == <<wf, lvl, pos, gathering, resolved, completed, output, culprit>>
actVars == <<act, attempt, outcome>>
wrkVars == <<alive, orphans, crashes>>
vars    == <<input, wfVars, actVars, wrkVars>>

Nodes   == input.nodes
Deps(n) == input.deps[n]
Row     == input.levels[lvl]          \* the current level
RowSet  == NodesAt(input, lvl)
Open    == {"scheduled", "started"}

Init ==
    /\ input \in Inputs
    /\ wf = "running"
    /\ lvl = 1
    /\ pos = 1
    /\ gathering = FALSE
    /\ resolved = [n \in Nodes |-> None]
    /\ completed = <<>>
    /\ output = None
    /\ culprit = None
    /\ act = [n \in Nodes |-> "none"]
    /\ attempt = [n \in Nodes |-> 0]
    /\ outcome = [n \in Nodes |-> [kind |-> "open"]]
    /\ alive = {}
    /\ orphans = {}
    /\ crashes = 0

---------------------------------------------------------------------------
(* Activities: one attempt of execute_task.                                *)

\* What the child may leave in its workdir, and hence how execute_task ends.
ChildOutputs(n) ==
    [kind : {"result"}, id : Node]              \* result.json, some node_id
      \cup [kind : {"malformed"}, id : {n}]     \* result.json, any other shape
      \cup [kind : {"error"}, id : {n}]         \* error.json of a task failure
      \cup [kind : {"badError"}, id : {n}]      \* error.json nobody could parse
      \cup [kind : {"nothing"}, id : {n}]       \* the child wrote neither

\* execute_task validates the envelope: a result under another node's id,
\* or an unreadable file, is the task's own doing and must not be retried.
MistakenAnyId(n, out) ==
    IF out.kind = "result" THEN "ok"
    ELSE IF out.kind \in {"error", "nothing"} THEN "retryable" ELSE "fatal"
MistakenGraphId(n, out) ==
    IF out.kind = "result" /\ out.id \notin Nodes THEN "fatal" ELSE MistakenAnyId(n, out)
Classify(n, out) ==
    CASE out.kind = "result" /\ out.id = n -> "ok"
      [] out.kind \in {"error", "nothing"} -> "retryable"
      [] OTHER                             -> "fatal"

\* The value an attempt computes: a task is not deterministic, so the value
\* is marked with the attempt, and with the inputs the attempt was given.
Value(n, k) == [node |-> n, try |-> k, in |-> resolved[n]]

\* RetryPolicy(maximum_attempts = retries + 1)
MayRetry(n) == attempt[n] < input.retries[n] + 1

AttemptFails(n) ==
    /\ act' = [act EXCEPT ![n] = IF MayRetry(n) THEN "scheduled" ELSE "failed"]
    /\ outcome' = IF MayRetry(n) THEN outcome
                  ELSE [outcome EXCEPT ![n] = [kind |-> "failed"]]
    /\ UNCHANGED attempt

\* A worker takes the activity from the task queue and spawns its child.
StartAttempt(n) ==
    /\ act[n] = "scheduled"
    /\ act' = [act EXCEPT ![n] = "started"]
    /\ attempt' = [attempt EXCEPT ![n] = @ + 1]
    /\ alive' = alive \cup {<<n, attempt[n] + 1>>}
    /\ UNCHANGED <<input, wfVars, outcome, orphans, crashes>>

\* The server listens only to the attempt it last started.
Current(n, k) == act[n] = "started" /\ attempt[n] = k

CloseAttempt(n, out) ==
    LET verdict == Classify(n, out) IN
    \/ /\ verdict = "ok"
       /\ act' = [act EXCEPT ![n] = "completed"]
       /\ outcome' = [outcome EXCEPT ![n] =
             [kind |-> "ok", id |-> out.id, value |-> Value(n, attempt[n])]]
       /\ UNCHANGED attempt
    \/ /\ verdict = "fatal"
       /\ act' = [act EXCEPT ![n] = "failed"]
       /\ outcome' = [outcome EXCEPT ![n] = [kind |-> "failed"]]
       /\ UNCHANGED attempt
    \/ /\ verdict = "retryable"
       /\ AttemptFails(n)

\* The child exits, execute_task reads its output and answers the server.
AttemptReturns(n, k) ==
    /\ <<n, k>> \in alive
    /\ alive' = alive \ {<<n, k>>}
    /\ \/ /\ Current(n, k)
          /\ \E out \in ChildOutputs(n) : CloseAttempt(n, out)
       \/ /\ ~Current(n, k)
          /\ UNCHANGED actVars
    /\ UNCHANGED <<input, wfVars, orphans, crashes>>

\* start_to_close_timeout or heartbeat_timeout: the server gives the attempt
\* up.  The child, if there is one, goes on running.
AttemptTimesOut(n) ==
    /\ act[n] = "started"
    /\ AttemptFails(n)
    /\ UNCHANGED <<input, wfVars, wrkVars>>

\* A worker answers with something that is not an execute_task envelope.
AttemptGarbled(n) ==
    /\ act[n] = "started"
    /\ act' = [act EXCEPT ![n] = "completed"]
    /\ outcome' = [outcome EXCEPT ![n] = [kind |-> "malformed"]]
    /\ alive' = alive \ {<<n, attempt[n]>>}
    /\ UNCHANGED <<input, wfVars, attempt, orphans, crashes>>

MistakenUnwanted(n, k) == act[n] = "started" /\ attempt[n] # k
Unwanted(n, k) == ~Current(n, k)

\* The next heartbeat of an attempt nobody waits for comes back as a
\* cancellation: execute_task kills the process group and propagates.
HeartbeatCancels(n, k) ==
    /\ <<n, k>> \in alive
    /\ Unwanted(n, k)
    /\ alive' = alive \ {<<n, k>>}
    /\ UNCHANGED <<input, wfVars, actVars, orphans, crashes>>

\* The worker process dies.  The child has a session of its own and goes on.
WorkerCrash(n, k) ==
    /\ crashes < MaxCrashes
    /\ <<n, k>> \in alive
    /\ alive' = alive \ {<<n, k>>}
    /\ orphans' = orphans \cup {<<n, k>>}
    /\ crashes' = crashes + 1
    /\ UNCHANGED <<input, wfVars, actVars>>

OrphanExits(n, k) ==
    /\ <<n, k>> \in orphans
    /\ orphans' = orphans \ {<<n, k>>}
    /\ UNCHANGED <<input, wfVars, actVars, alive, crashes>>

---------------------------------------------------------------------------
(* The workflow.                                                           *)

Running == wf = "running" /\ lvl <= Len(input.levels)

\* resolve_arg replaces every placeholder by the upstream result.  The
\* activity raises while one is missing, and is retried without end.
PrepareNode ==
    /\ Running
    /\ ~gathering
    /\ pos <= Len(Row)
    /\ Deps(Row[pos]) \subseteq DOMAIN completed
    /\ resolved' = [resolved EXCEPT ![Row[pos]] =
                       [d \in Deps(Row[pos]) |-> completed[d]]]
    /\ pos' = pos + 1
    /\ UNCHANGED <<input, wf, lvl, gathering, completed, output, culprit,
                   actVars, wrkVars>>

\* A worker answers prepare_node_inputs with a payload that lacks a field.
PrepareGarbled ==
    /\ Running
    /\ ~gathering
    /\ pos <= Len(Row)
    /\ wf' = "failed"
    /\ culprit' = Row[pos]
    /\ UNCHANGED <<input, lvl, pos, gathering, resolved, completed, output,
                   actVars, wrkVars>>

MistakenLevelScheduled ==
    [n \in Nodes |-> IF act[n] = "none" THEN "scheduled" ELSE act[n]]
LevelScheduled == [n \in Nodes |-> IF n \in RowSet THEN "scheduled" ELSE act[n]]

\* asyncio.gather starts the level's coroutines, all in one activation.
Gather ==
    /\ Running
    /\ ~gathering
    /\ pos > Len(Row)
    /\ gathering' = TRUE
    /\ act' = LevelScheduled
    /\ UNCHANGED <<input, wf, lvl, pos, resolved, completed, output, culprit,
                   attempt, outcome, wrkVars>>

\* The declared outputs, or every result when none is declared.
OutputKeys(results) ==
    IF input.outputs = {} THEN DOMAIN results ELSE input.outputs

\* Return the outputs, or fail when one of them was never computed.
Finish(results) ==
    IF OutputKeys(results) \subseteq DOMAIN results
    THEN /\ wf' = "completed"
         /\ output' = [n \in OutputKeys(results) |-> results[n]]
    ELSE /\ wf' = "failed"
         /\ UNCHANGED output

\* The loop over the level's results stops at the first one that cannot be
\* stored, and runs to the end (stop = Len(Row) + 1) when there is none.
Bad(j) == outcome[Row[j]].kind # "ok"
StopsAt(stop) ==
    /\ \A j \in 1..(stop - 1) : ~Bad(j)
    /\ stop <= Len(Row) => Bad(stop)

\* The node whose exception is raised again.
MistakenBlamed(stop) == Row[CHOOSE j \in stop..Len(Row) : Bad(j) /\ \A i \in j..Len(Row) : Bad(i) => i = j]
Blamed(stop) == Row[stop]

\* completed_results after the results before stop were stored in order.
Writers(m, stop) == {j \in 1..(stop - 1) : outcome[Row[j]].id = m}
LastWriter(m, stop) ==
    CHOOSE j \in Writers(m, stop) : \A i \in Writers(m, stop) : i <= j
MistakenStored(stop) ==
    [m \in {outcome[Row[j]].id : j \in 1..(stop - 1)} |->
        outcome[Row[LastWriter(m, stop)]].value]
Stored(stop) ==
    [m \in DOMAIN completed \cup {outcome[Row[j]].id : j \in 1..(stop - 1)} |->
        IF Writers(m, stop) # {} THEN outcome[Row[LastWriter(m, stop)]].value
                                 ELSE completed[m]]

MistakenFirstFailure ==
    \/ \A n \in RowSet : act[n] \notin Open
    \/ \E n \in RowSet : act[n] = "failed"
MistakenAllSucceed == \A n \in RowSet : act[n] = "completed"
LevelClosed == \A n \in RowSet : act[n] \notin Open

\* gather(return_exceptions=True) resumes once every activity has closed.
StoreLevel ==
    /\ Running
    /\ gathering
    /\ LevelClosed
    /\ \E stop \in 1..(Len(Row) + 1) :
          /\ StopsAt(stop)
          /\ completed' = Stored(stop)
          /\ \/ /\ stop <= Len(Row)
                /\ wf' = "failed"
                /\ culprit' = Blamed(stop)
                /\ UNCHANGED <<lvl, pos, gathering, output>>
             \/ /\ stop > Len(Row)
                /\ lvl' = lvl + 1
                /\ pos' = 1
                /\ gathering' = FALSE
                /\ IF lvl < Len(input.levels)
                   THEN UNCHANGED <<wf, output>>
                   ELSE Finish(Stored(stop))
                /\ UNCHANGED culprit
    /\ UNCHANGED <<input, resolved, actVars, wrkVars>>

\* A graph with no node has no level: the loop body never runs.
FinishEmpty ==
    /\ wf = "running"
    /\ input.levels = <<>>
    /\ Finish(completed)
    /\ UNCHANGED <<input, lvl, pos, gathering, resolved, completed, culprit,
                   actVars, wrkVars>>

ActsCancelled == [n \in Nodes |-> IF act[n] \in Open THEN "cancelled" ELSE act[n]]

\* A cancellation arrives at the await the workflow stands at: it ends, and
\* the open activities are asked to stop without being waited for.
Cancel ==
    /\ Running
    /\ wf' = "cancelled"
    /\ act' = ActsCancelled
    /\ UNCHANGED <<input, lvl, pos, gathering, resolved, completed, output,
                   culprit, attempt, outcome, wrkVars>>

---------------------------------------------------------------------------
Tries(n) == 1..(input.retries[n] + 1)

WorkflowStep == PrepareNode \/ PrepareGarbled \/ Gather \/ StoreLevel \/ FinishEmpty
ActivityStep(n) ==
    \/ StartAttempt(n)
    \/ AttemptTimesOut(n)
    \/ AttemptGarbled(n)
    \/ \E k \in Tries(n) : \/ AttemptReturns(n, k)
                           \/ HeartbeatCancels(n, k)
                           \/ WorkerCrash(n, k)
                           \/ OrphanExits(n, k)

\* The workflow has ended and no child of it is left.
Ended == wf # "running" /\ alive = {} /\ orphans = {} /\ UNCHANGED vars

Next == WorkflowStep \/ Cancel \/ (\E n \in Nodes : ActivityStep(n)) \/ Ended

Spec == Init /\ [][Next]_vars

(***************************************************************************)
(* Fairness.  The server resumes a workflow whose awaited activity closed, *)
(* workers poll the queue, every attempt has a finite start_to_close       *)
(* timeout (TaskConfig refuses any other), and the heartbeat loop sends    *)
(* every ten seconds.  Nothing makes an orphaned child exit, a cancel      *)
(* arrive or an attempt return.                                            *)
(***************************************************************************)
Fairness ==
    /\ WF_vars(PrepareNode)
    /\ WF_vars(Gather)
    /\ WF_vars(StoreLevel)
    /\ WF_vars(FinishEmpty)
    /\ \A n \in Node : WF_vars(n \in Nodes /\ StartAttempt(n))
    /\ \A n \in Node : WF_vars(n \in Nodes /\ AttemptTimesOut(n))
    /\ WF_vars(\E n \in Nodes : \E k \in Tries(n) : HeartbeatCancels(n, k))

FairSpec == Spec /\ Fairness
---------------------------------------------------------------------------
(* Properties.                                                             *)

Statuses == {"running", "completed", "failed", "cancelled"}
ActStates == {"none", "scheduled", "started", "completed", "failed", "cancelled"}

\* The shape of the state of JobWorkflow.run and of the activities it awaits.
TypeOK ==
    /\ input \in Inputs
    /\ wf \in Statuses
    /\ lvl \in 1..(Len(input.levels) + 1)
    /\ pos \in Nat \ {0}
    /\ gathering \in BOOLEAN
    /\ DOMAIN resolved = Nodes
    /\ DOMAIN completed \subseteq Nodes
    /\ culprit \in Nodes \cup {None}
    /\ act \in [Nodes -> ActStates]
    /\ attempt \in [Nodes -> Nat]
    /\ DOMAIN outcome = Nodes
    /\ alive \subseteq Nodes \X (Nat \ {0})
    /\ orphans \subseteq Nodes \X (Nat \ {0})
    /\ crashes \in 0..MaxCrashes

\* Every stored result was computed by an attempt of that very node, from
\* exactly the results stored for its dependencies: neither a late answer of
\* an attempt that timed out nor an envelope under another node's id gets in
\* (completed_results[result["node_id"]], and the node_id check of
\* execute_task).
DataflowConsistent ==
    \A n \in DOMAIN completed :
        /\ completed[n].node = n
        /\ Deps(n) \subseteq DOMAIN completed
        /\ completed[n].in = [d \in Deps(n) |-> completed[d]]

\* No task runs more often than its @task(retries=...) allows, whatever
\* mixture of failures, timeouts and crashes its attempts meet.
AttemptsBounded == \A n \in Nodes : attempt[n] <= input.retries[n] + 1

\* However the workflow ends, no execute_task activity of it is left open:
\* gather(return_exceptions=True) waits for the siblings of a failed node.
NothingOpenAtEnd == wf # "running" => \A n \in Nodes : act[n] \notin Open

\* A failure the level raised is the one of the first node, in level order,
\* whose activity did not deliver; that activity is closed for good, and the
\* results of the nodes before it have been stored.
FailureIsFirst ==
    wf = "failed" /\ gathering =>
        \E j \in 1..Len(Row) :
            /\ culprit = Row[j]
            /\ outcome[culprit].kind \in {"failed", "malformed"}
            /\ \A i \in 1..(j - 1) : Row[i] \in DOMAIN completed

\* Levels are barriers: an attempt starts only when every node of every
\* earlier level has its result stored.
LevelBarrier ==
    [][\A i, k \in 1..Len(input.levels) : k < i =>
          \A n \in NodesAt(input, i) : \A m \in NodesAt(input, k) :
             attempt'[n] # attempt[n] => m \in DOMAIN completed]_vars

\* The workflow always reaches a terminal state, even if no attempt ever
\* answers: nothing is retried for ever.
Terminates == <>(wf # "running")

\* Children that run for a workflow that has ended are told to stop by their
\* next heartbeat, unless their worker is gone.
ChildrenStop == (wf # "running") ~> (alive = {})

\* The run implements the abstract dataflow execution.
Abstract == INSTANCE Dataflow WITH status <- wf, done <- completed
ImplementsDataflow == Abstract!Spec
=============================================================================

------------------------- MODULE JobWorkflowProofs -------------------------
(***************************************************************************)
(* Proofs about JobWorkflow, for every set of well-formed workflow inputs: *)
(* type correctness, the bound on attempts, that nothing stays open after  *)
(* the end, that results flow along the dependencies only, that levels are *)
(* barriers and that the first failure is the one reported.                *)
(***************************************************************************)
EXTENDS JobWorkflow, TLAPS

(***************************************************************************)
(* The inductive invariant.                                                *)
(***************************************************************************)

\* Nodes of the levels the workflow has left behind.
Past == UNION {NodesAt(input, i) : i \in 1..(lvl - 1)}

\* Nodes whose inputs have been resolved.
PreparedNow == {n \in Nodes : \E j \in 1..(pos - 1) :
                   lvl <= Len(input.levels) /\ j <= Len(Row) /\ n = Row[j]}
Prepared == Past \cup PreparedNow

OutcomeInv ==
    \A n \in Nodes :
        /\ outcome[n].kind \in {"open", "ok", "failed", "malformed"}
        /\ act[n] = "completed" <=> outcome[n].kind \in {"ok", "malformed"}
        /\ act[n] = "failed" <=> outcome[n].kind = "failed"
        /\ outcome[n].kind = "ok" =>
              /\ outcome[n].id = n
              /\ outcome[n].value.node = n
              /\ outcome[n].value.in = resolved[n]

BudgetInv ==
    \A n \in Nodes :
        /\ attempt[n] <= input.retries[n] + 1
        /\ act[n] \in {"none", "scheduled"} => attempt[n] <= input.retries[n]

ProgressInv ==
    /\ Past \subseteq DOMAIN completed
    /\ wf = "running" => DOMAIN completed = Past
    /\ \A n \in Past : outcome[n].kind = "ok"
    /\ gathering => lvl <= Len(input.levels) /\ pos > Len(Row)
    /\ \A n \in Nodes : act[n] # "none" => n \in Past \/ (gathering /\ n \in RowSet)
    /\ gathering => \A n \in RowSet : act[n] # "none"
    /\ \A n \in Nodes : act[n] \in Open => wf = "running"

ResolvedInv ==
    \A n \in Prepared :
        /\ Deps(n) \subseteq DOMAIN completed
        /\ resolved[n] = [d \in Deps(n) |-> completed[d]]

IInv == TypeOK /\ OutcomeInv /\ BudgetInv /\ ProgressInv /\ ResolvedInv
           /\ DataflowConsistent

---------------------------------------------------------------------------
(* Facts about well-formed inputs.                                         *)

\* A level of a well-formed input is a sequence of nodes of the graph.
LEMMA LevelType ==
    ASSUME NEW in \in Inputs, NEW i \in 1..Len(in.levels)
    PROVE  /\ in.levels[i] \in Seq(in.nodes)
           /\ Len(in.levels[i]) \in Nat
           /\ \A j \in 1..Len(in.levels[i]) : in.levels[i][j] \in in.nodes
           /\ NodesAt(in, i) \subseteq in.nodes
<1>1. in.levels \in Seq(Seq(in.nodes))
  BY InputsAssumption DEF WellFormed
<1>2. in.levels[i] \in Seq(in.nodes)
  BY <1>1
<1>3. Len(in.levels[i]) \in Nat /\ \A j \in 1..Len(in.levels[i]) : in.levels[i][j] \in in.nodes
  BY <1>2
<1> QED
  BY <1>2, <1>3 DEF NodesAt

\* The nodes of distinct levels are distinct, and those of a level too.
LEMMA LevelsDisjoint ==
    ASSUME NEW in \in Inputs, NEW i \in 1..Len(in.levels), NEW k \in 1..Len(in.levels)
    PROVE  /\ \A n \in NodesAt(in, i) : \A m \in NodesAt(in, k) :
                 /\ n = m => i = k
                 /\ m \in in.deps[n] => k < i
           /\ \A j, l \in 1..Len(in.levels[i]) : in.levels[i][j] = in.levels[i][l] => j = l
BY InputsAssumption DEF WellFormed

---------------------------------------------------------------------------
(* What storing the results of a level does to completed_results.          *)

\* Storing the results before "stop" extends completed_results by the values
\* of those nodes, each under its own node id, and overwrites nothing.
LEMMA StoredLemma ==
    ASSUME IInv, Running, gathering, NEW stop \in 1..(Len(Row) + 1), StopsAt(stop)
    PROVE  /\ DOMAIN Stored(stop) = DOMAIN completed \cup {Row[j] : j \in 1..(stop - 1)}
           /\ \A m \in DOMAIN completed : Stored(stop)[m] = completed[m]
           /\ \A j \in 1..(stop - 1) : Stored(stop)[Row[j]] = outcome[Row[j]].value
<1>1. lvl \in 1..Len(input.levels) /\ input \in Inputs
  BY DEF IInv, TypeOK, Running
<1>2. /\ Len(Row) \in Nat
      /\ \A j \in 1..Len(Row) : Row[j] \in Nodes /\ Row[j] \in NodesAt(input, lvl)
      /\ \A j, l \in 1..Len(Row) : Row[j] = Row[l] => j = l
  BY <1>1, LevelType, LevelsDisjoint DEF Row, Nodes, NodesAt
<1>3. \A j \in 1..(stop - 1) : j \in 1..Len(Row) /\ outcome[Row[j]].id = Row[j]
  <2> TAKE j \in 1..(stop - 1)
  <2>1. j \in 1..Len(Row) /\ ~Bad(j)
    BY <1>2 DEF StopsAt
  <2> QED
    BY <2>1, <1>2 DEF Bad, IInv, OutcomeInv
<1>4. {outcome[Row[j]].id : j \in 1..(stop - 1)} = {Row[j] : j \in 1..(stop - 1)}
  BY <1>3
<1>5. \A j \in 1..(stop - 1) : Writers(Row[j], stop) = {j}
  BY <1>2, <1>3 DEF Writers
<1>6. \A j \in 1..(stop - 1) : LastWriter(Row[j], stop) = j
  <2> TAKE j \in 1..(stop - 1)
  <2>1. Writers(Row[j], stop) = {j}
    BY <1>5
  <2>2. \A i \in Writers(Row[j], stop) : i <= j
    BY <2>1
  <2>3. LastWriter(Row[j], stop) \in Writers(Row[j], stop)
    BY <2>1, <2>2 DEF LastWriter
  <2> QED
    BY <2>1, <2>3
<1>7. \A m \in DOMAIN completed : Writers(m, stop) = {}
  <2> SUFFICES ASSUME NEW m \in DOMAIN completed, NEW j \in Writers(m, stop) PROVE FALSE
    OBVIOUS
  <2>1. m = Row[j] /\ j \in 1..Len(Row)
    BY <1>3 DEF Writers
  <2>2. PICK i \in 1..(lvl - 1) : m \in NodesAt(input, i)
    BY DEF IInv, ProgressInv, Past, Running
  <2>3. i \in 1..Len(input.levels) /\ m \in NodesAt(input, lvl)
    BY <1>1, <1>2, <2>1, <2>2
  <2> QED
    BY <1>1, <2>2, <2>3, LevelsDisjoint
<1> QED
  BY <1>4, <1>5, <1>6, <1>7 DEF Stored

---------------------------------------------------------------------------
(* The invariant holds initially.                                          *)

\* Every run starts in a state that satisfies the inductive invariant.
LEMMA InitInv == Init => IInv
<1> SUFFICES ASSUME Init PROVE IInv
  OBVIOUS
<1>1. input \in Inputs /\ input.levels \in Seq(Seq(input.nodes)) /\ input.retries \in [Nodes -> Nat]
  BY InputsAssumption DEF Init, WellFormed, Nodes
<1>0. DOMAIN completed = {} /\ Len(input.levels) \in Nat
  BY <1>1 DEF Init
<1>2. TypeOK
  <2>1. lvl \in 1..(Len(input.levels) + 1) /\ crashes \in 0..MaxCrashes
    BY <1>0, CrashAssumption DEF Init
  <2>2. act \in [Nodes -> ActStates] /\ attempt \in [Nodes -> Nat]
    BY DEF Init, ActStates
  <2>3. wf \in Statuses /\ pos \in Nat \ {0}
    BY DEF Init, Statuses
  <2>7. gathering \in BOOLEAN
    BY DEF Init
  <2>4. DOMAIN resolved = Nodes /\ DOMAIN outcome = Nodes /\ culprit \in Nodes \cup {None}
    BY DEF Init
  <2>5. DOMAIN completed \subseteq Nodes
    BY <1>0
  <2>6. alive \subseteq Nodes \X (Nat \ {0}) /\ orphans \subseteq Nodes \X (Nat \ {0})
    BY DEF Init
  <2> QED
    BY <1>1, <2>1, <2>2, <2>3, <2>4, <2>5, <2>6, <2>7 DEF TypeOK
<1>3. Past = {} /\ PreparedNow = {} /\ Prepared = {}
  BY DEF Init, Past, Prepared, PreparedNow
<1>4. OutcomeInv
  BY DEF Init, OutcomeInv
<1>5. BudgetInv
  BY <1>1 DEF Init, BudgetInv
<1>6. ProgressInv
  BY <1>0, <1>3 DEF Init, ProgressInv, Open
<1>7. ResolvedInv /\ DataflowConsistent
  BY <1>0, <1>3 DEF Init, ResolvedInv, DataflowConsistent
<1> QED
  BY <1>2, <1>4, <1>5, <1>6, <1>7 DEF IInv

---------------------------------------------------------------------------
(* Steps of the server and of the workers.                                 *)

\* A step that leaves the workflow alone keeps what the invariant says of
\* its progress, provided it opens no closed activity.
LEMMA ActivityFrame ==
    ASSUME IInv, UNCHANGED <<input, wfVars>>, TypeOK', OutcomeInv', BudgetInv',
           \A n \in Nodes : /\ act[n] = "none" <=> act'[n] = "none"
                            /\ act'[n] \in Open => act[n] \in Open
                            /\ outcome[n].kind = "ok" => outcome'[n] = outcome[n]
    PROVE  IInv'
<1>1. /\ input' = input /\ wf' = wf /\ lvl' = lvl /\ pos' = pos /\ gathering' = gathering
      /\ resolved' = resolved /\ completed' = completed
      /\ Nodes' = Nodes /\ Row' = Row /\ RowSet' = RowSet /\ Past' = Past
  BY DEF wfVars, Nodes, Row, RowSet, Past
<1>2. Prepared' = Prepared
  BY <1>1 DEF Prepared, PreparedNow
<1>3. Past \subseteq Nodes
  BY DEF IInv, TypeOK, ProgressInv
<1>4. ProgressInv'
  <2>1. (\A n \in Past : outcome[n].kind = "ok")'
    BY <1>1, <1>3 DEF IInv, ProgressInv
  <2>2. (\A n \in Nodes : act[n] # "none" => n \in Past \/ (gathering /\ n \in RowSet))'
    BY <1>1 DEF IInv, ProgressInv
  <2>3. (\A n \in Nodes : act[n] \in Open => wf = "running")'
    BY <1>1 DEF IInv, ProgressInv, Open
  <2>4. (gathering => \A n \in RowSet : act[n] # "none")'
    <3> SUFFICES ASSUME gathering, NEW n \in RowSet PROVE act'[n] # "none"
      BY <1>1
    <3>1. n \in Nodes
      BY LevelType DEF IInv, TypeOK, ProgressInv, RowSet, Nodes
    <3> QED
      BY <3>1 DEF IInv, ProgressInv
  <2> QED
    BY <1>1, <2>1, <2>2, <2>3, <2>4 DEF IInv, ProgressInv
<1>5. ResolvedInv' /\ DataflowConsistent'
  BY <1>1, <1>2 DEF IInv, ResolvedInv, DataflowConsistent, Deps
<1> QED
  BY <1>4, <1>5 DEF IInv

\* Workers come and go without touching the server or the workflow.
LEMMA WorkerFrame ==
    ASSUME IInv, UNCHANGED <<input, wfVars, actVars>>, TypeOK'
    PROVE  IInv'
<1>1. OutcomeInv' /\ BudgetInv'
  BY DEF IInv, OutcomeInv, BudgetInv, actVars, wfVars, Nodes
<1> QED
  BY <1>1, ActivityFrame DEF actVars

\* A failed or timed-out attempt spends budget already accounted for.
LEMMA AttemptFailsInv ==
    ASSUME IInv, NEW n \in Nodes, act[n] = "started", AttemptFails(n),
           UNCHANGED <<input, wfVars>>
    PROVE  /\ act' \in [Nodes -> ActStates] /\ attempt' = attempt /\ DOMAIN outcome' = Nodes
           /\ OutcomeInv' /\ BudgetInv'
           /\ \A m \in Nodes : /\ act[m] = "none" <=> act'[m] = "none"
                               /\ act'[m] \in Open => act[m] \in Open
                               /\ outcome[m].kind = "ok" => outcome'[m] = outcome[m]
<1>1. /\ act \in [Nodes -> ActStates] /\ attempt \in [Nodes -> Nat] /\ DOMAIN outcome = Nodes
      /\ input' = input /\ resolved' = resolved /\ Nodes' = Nodes /\ attempt' = attempt
      /\ outcome[n].kind = "open" /\ input.retries \in [Nodes -> Nat]
  <2>1. outcome[n].kind = "open" /\ input \in Inputs
    BY DEF IInv, OutcomeInv, TypeOK
  <2> QED
    BY <2>1, InputsAssumption DEF IInv, TypeOK, wfVars, Nodes, AttemptFails, WellFormed
<1>2. CASE MayRetry(n)
  <2>1. act' = [act EXCEPT ![n] = "scheduled"] /\ outcome' = outcome
    BY <1>2 DEF AttemptFails
  <2>2. OutcomeInv'
    BY <1>1, <2>1 DEF IInv, OutcomeInv
  <2>3. BudgetInv'
    BY <1>1, <1>2, <2>1 DEF IInv, BudgetInv, MayRetry
  <2> QED
    BY <1>1, <2>1, <2>2, <2>3 DEF ActStates, Open
<1>3. CASE ~MayRetry(n)
  <2>1. /\ act' = [act EXCEPT ![n] = "failed"]
        /\ outcome' = [outcome EXCEPT ![n] = [kind |-> "failed"]]
    BY <1>3 DEF AttemptFails
  <2>2. OutcomeInv'
    BY <1>1, <2>1 DEF IInv, OutcomeInv
  <2>3. BudgetInv'
    BY <1>1, <2>1 DEF IInv, BudgetInv
  <2> QED
    BY <1>1, <2>1, <2>2, <2>3 DEF ActStates, Open
<1> QED
  BY <1>2, <1>3

\* An execution that answers in a definite way closes its activity.
LEMMA CloseInv ==
    ASSUME IInv, NEW n \in Nodes, act[n] = "started", UNCHANGED <<input, wfVars, attempt>>,
           NEW state \in {"completed", "failed"}, NEW how,
           act' = [act EXCEPT ![n] = state], outcome' = [outcome EXCEPT ![n] = how],
           how.kind \in {"ok", "failed", "malformed"},
           state = "failed" <=> how.kind = "failed",
           how.kind = "ok" =>
              /\ how.id = n
              /\ how.value.node = n
              /\ how.value.in = resolved[n]
    PROVE  /\ act' \in [Nodes -> ActStates] /\ DOMAIN outcome' = Nodes
           /\ OutcomeInv' /\ BudgetInv'
           /\ \A m \in Nodes : /\ act[m] = "none" <=> act'[m] = "none"
                               /\ act'[m] \in Open => act[m] \in Open
                               /\ outcome[m].kind = "ok" => outcome'[m] = outcome[m]
<1>1. /\ act \in [Nodes -> ActStates] /\ DOMAIN outcome = Nodes
      /\ input' = input /\ resolved' = resolved /\ Nodes' = Nodes /\ attempt' = attempt
      /\ outcome[n].kind = "open"
  BY DEF IInv, TypeOK, OutcomeInv, wfVars, Nodes
<1>2. OutcomeInv'
  BY <1>1 DEF IInv, OutcomeInv
<1>3. BudgetInv'
  BY <1>1 DEF IInv, BudgetInv
<1> QED
  BY <1>1, <1>2, <1>3 DEF ActStates, Open

\* What the frame lemmas need of TypeOK when only activities change.
LEMMA TypeFrame ==
    ASSUME IInv, UNCHANGED <<input, wfVars>>,
           act' \in [Nodes -> ActStates], attempt' \in [Nodes -> Nat], DOMAIN outcome' = Nodes,
           alive' \subseteq Nodes \X (Nat \ {0}), orphans' \subseteq Nodes \X (Nat \ {0}),
           crashes' \in 0..MaxCrashes
    PROVE  TypeOK'
BY DEF IInv, TypeOK, wfVars, Nodes

\* A worker that starts an attempt spends one of the attempts the policy left.
LEMMA StartAttemptInv ==
    ASSUME IInv, NEW n \in Nodes, StartAttempt(n)
    PROVE  IInv'
<1>1. /\ act[n] = "scheduled" /\ act' = [act EXCEPT ![n] = "started"]
      /\ attempt' = [attempt EXCEPT ![n] = @ + 1] /\ outcome' = outcome
      /\ alive' = alive \cup {<<n, attempt[n] + 1>>} /\ orphans' = orphans /\ crashes' = crashes
      /\ UNCHANGED <<input, wfVars>> /\ input' = input /\ resolved' = resolved /\ Nodes' = Nodes
  BY DEF StartAttempt, wfVars, Nodes
<1>2. /\ act \in [Nodes -> ActStates] /\ attempt \in [Nodes -> Nat] /\ DOMAIN outcome = Nodes
      /\ alive \subseteq Nodes \X (Nat \ {0}) /\ orphans \subseteq Nodes \X (Nat \ {0})
      /\ crashes \in 0..MaxCrashes
  BY DEF IInv, TypeOK
<1>3. attempt[n] <= input.retries[n] /\ attempt[n] \in Nat /\ input.retries \in [Nodes -> Nat]
  <2>1. input \in Inputs
    BY DEF IInv, TypeOK
  <2> QED
    BY <1>1, <1>2, <2>1, InputsAssumption DEF IInv, BudgetInv, WellFormed, Nodes
<1>4. TypeOK'
  BY <1>1, <1>2, <1>3, TypeFrame DEF ActStates
<1>5. OutcomeInv'
  BY <1>1, <1>2 DEF IInv, OutcomeInv
<1>6. BudgetInv'
  BY <1>1, <1>2, <1>3 DEF IInv, BudgetInv
<1>7. \A m \in Nodes : /\ act[m] = "none" <=> act'[m] = "none"
                       /\ act'[m] \in Open => act[m] \in Open
                       /\ outcome[m].kind = "ok" => outcome'[m] = outcome[m]
  BY <1>1, <1>2 DEF Open, ActStates
<1> QED
  BY <1>1, <1>4, <1>5, <1>6, <1>7, ActivityFrame

\* A timed-out attempt closes its activity, or leaves budget for another one.
LEMMA AttemptTimesOutInv ==
    ASSUME IInv, NEW n \in Nodes, AttemptTimesOut(n)
    PROVE  IInv'
<1>1. act[n] = "started" /\ AttemptFails(n) /\ UNCHANGED <<input, wfVars>>
      /\ alive' = alive /\ orphans' = orphans /\ crashes' = crashes
  BY DEF AttemptTimesOut, wrkVars
<1>2. /\ act' \in [Nodes -> ActStates] /\ attempt' = attempt /\ DOMAIN outcome' = Nodes
      /\ OutcomeInv' /\ BudgetInv'
      /\ \A m \in Nodes : /\ act[m] = "none" <=> act'[m] = "none"
                          /\ act'[m] \in Open => act[m] \in Open
                          /\ outcome[m].kind = "ok" => outcome'[m] = outcome[m]
  BY <1>1, AttemptFailsInv
<1>3. TypeOK'
  BY <1>1, <1>2, TypeFrame DEF IInv, TypeOK
<1> QED
  BY <1>1, <1>2, <1>3, ActivityFrame

\* An answer that is no envelope closes the activity as malformed.
LEMMA AttemptGarbledInv ==
    ASSUME IInv, NEW n \in Nodes, AttemptGarbled(n)
    PROVE  IInv'
<1> DEFINE how == [kind |-> "malformed"]
<1>1. /\ act[n] = "started" /\ UNCHANGED <<input, wfVars>> /\ attempt' = attempt
      /\ act' = [act EXCEPT ![n] = "completed"] /\ outcome' = [outcome EXCEPT ![n] = how]
      /\ alive' = alive \ {<<n, attempt[n]>>} /\ orphans' = orphans /\ crashes' = crashes
  BY DEF AttemptGarbled
<1>2. how.kind = "malformed"
  OBVIOUS
<1> HIDE DEF how
<1>3. /\ act' \in [Nodes -> ActStates] /\ DOMAIN outcome' = Nodes
      /\ OutcomeInv' /\ BudgetInv'
      /\ \A m \in Nodes : /\ act[m] = "none" <=> act'[m] = "none"
                          /\ act'[m] \in Open => act[m] \in Open
                          /\ outcome[m].kind = "ok" => outcome'[m] = outcome[m]
  BY <1>1, <1>2, CloseInv
<1>4. TypeOK'
  BY <1>1, <1>3, TypeFrame DEF IInv, TypeOK
<1> QED
  BY <1>1, <1>3, <1>4, ActivityFrame

\* The answer of a child closes the activity only with the node's own value.
LEMMA AttemptReturnsInv ==
    ASSUME IInv, NEW n \in Nodes, NEW k, AttemptReturns(n, k)
    PROVE  IInv'
<1>1. /\ UNCHANGED <<input, wfVars>> /\ orphans' = orphans /\ crashes' = crashes
      /\ alive' = alive \ {<<n, k>>}
      /\ alive' \subseteq Nodes \X (Nat \ {0})
  BY DEF AttemptReturns, IInv, TypeOK
<1>2. CASE UNCHANGED actVars
  BY <1>1, <1>2, TypeFrame, WorkerFrame DEF IInv, TypeOK, actVars
<1>3. ASSUME Current(n, k), NEW out \in ChildOutputs(n), CloseAttempt(n, out) PROVE IInv'
  <2>1. act[n] = "started"
    BY <1>3 DEF Current
  <2>2. /\ act' \in [Nodes -> ActStates] /\ attempt' = attempt /\ DOMAIN outcome' = Nodes
        /\ OutcomeInv' /\ BudgetInv'
        /\ \A m \in Nodes : /\ act[m] = "none" <=> act'[m] = "none"
                            /\ act'[m] \in Open => act[m] \in Open
                            /\ outcome[m].kind = "ok" => outcome'[m] = outcome[m]
    <3>1. CASE Classify(n, out) = "ok"
      <4> DEFINE how == [kind |-> "ok", id |-> out.id, value |-> Value(n, attempt[n])]
      <4>1. out.id = n
        BY <3>1 DEF Classify
      <4>2. /\ how.kind = "ok" /\ how.id = n
            /\ how.value.node = n /\ how.value.in = resolved[n]
        BY <4>1 DEF Value
      <4>3. /\ act' = [act EXCEPT ![n] = "completed"] /\ attempt' = attempt
            /\ outcome' = [outcome EXCEPT ![n] = how]
        BY <1>3, <3>1 DEF CloseAttempt
      <4> HIDE DEF how
      <4> QED
        BY <1>1, <2>1, <4>2, <4>3, CloseInv
    <3>2. CASE Classify(n, out) = "fatal"
      <4> DEFINE how == [kind |-> "failed"]
      <4>1. how.kind = "failed"
        OBVIOUS
      <4>2. /\ act' = [act EXCEPT ![n] = "failed"] /\ attempt' = attempt
            /\ outcome' = [outcome EXCEPT ![n] = how]
        BY <1>3, <3>2 DEF CloseAttempt
      <4> HIDE DEF how
      <4> QED
        BY <1>1, <2>1, <4>1, <4>2, CloseInv
    <3>3. CASE Classify(n, out) = "retryable"
      BY <1>1, <1>3, <2>1, <3>3, AttemptFailsInv DEF CloseAttempt
    <3> QED
      BY <1>3, <3>1, <3>2, <3>3 DEF CloseAttempt
  <2>3. TypeOK'
    BY <1>1, <2>2, TypeFrame DEF IInv, TypeOK
  <2> QED
    BY <1>1, <2>2, <2>3, ActivityFrame
<1> QED
  BY <1>2, <1>3 DEF AttemptReturns

---------------------------------------------------------------------------
(* Steps of the workflow.                                                  *)

\* What is known of the level the workflow stands at.
LEMMA RowFacts ==
    ASSUME IInv, Running
    PROVE  /\ input \in Inputs /\ lvl \in 1..Len(input.levels) /\ Len(input.levels) \in Nat
           /\ Len(Row) \in Nat /\ RowSet = {Row[j] : j \in 1..Len(Row)} /\ RowSet \subseteq Nodes
           /\ \A j \in 1..Len(Row) : Row[j] \in Nodes /\ Row[j] \in RowSet
           /\ \A j, l \in 1..Len(Row) : Row[j] = Row[l] => j = l
           /\ RowSet \cap Past = {}
           /\ Past \subseteq Nodes
           /\ DOMAIN completed = Past
<1>1. input \in Inputs /\ lvl \in 1..Len(input.levels) /\ Len(input.levels) \in Nat
  <2>1. input \in Inputs /\ lvl \in 1..(Len(input.levels) + 1) /\ lvl <= Len(input.levels)
    BY DEF IInv, TypeOK, Running
  <2>2. input.levels \in Seq(Seq(input.nodes))
    BY <2>1, InputsAssumption DEF WellFormed
  <2> QED
    BY <2>1, <2>2
<1>2. /\ Len(Row) \in Nat /\ RowSet = {Row[j] : j \in 1..Len(Row)} /\ RowSet \subseteq Nodes
      /\ \A j \in 1..Len(Row) : Row[j] \in Nodes /\ Row[j] \in RowSet
      /\ \A j, l \in 1..Len(Row) : Row[j] = Row[l] => j = l
  BY <1>1, LevelType, LevelsDisjoint DEF Row, RowSet, Nodes, NodesAt
<1>3. RowSet \cap Past = {}
  <2> SUFFICES ASSUME NEW n \in RowSet, NEW i \in 1..(lvl - 1), n \in NodesAt(input, i)
               PROVE  FALSE
    BY DEF Past
  <2>1. i \in 1..Len(input.levels) /\ i # lvl /\ n \in NodesAt(input, lvl)
    BY <1>1 DEF RowSet
  <2> QED
    BY <1>1, <2>1, LevelsDisjoint
<1>4. Past \subseteq Nodes /\ DOMAIN completed = Past
  BY DEF IInv, TypeOK, ProgressInv, Running
<1> QED
  BY <1>1, <1>2, <1>3, <1>4

\* Preparing a node fixes its inputs to the results stored for its dependencies.
LEMMA PrepareNodeInv ==
    ASSUME IInv, PrepareNode
    PROVE  IInv'
<1> DEFINE n == Row[pos]
<1>1. /\ Running /\ ~gathering /\ pos <= Len(Row) /\ Deps(n) \subseteq DOMAIN completed
      /\ resolved' = [resolved EXCEPT ![n] = [d \in Deps(n) |-> completed[d]]]
      /\ pos' = pos + 1
      /\ input' = input /\ wf' = wf /\ lvl' = lvl /\ gathering' = gathering
      /\ completed' = completed /\ culprit' = culprit
      /\ act' = act /\ attempt' = attempt /\ outcome' = outcome
      /\ alive' = alive /\ orphans' = orphans /\ crashes' = crashes
      /\ Nodes' = Nodes /\ Row' = Row /\ RowSet' = RowSet /\ Past' = Past
  BY DEF PrepareNode, actVars, wrkVars, Nodes, Row, RowSet, Past
<1>2. n \in Nodes /\ n \in RowSet /\ n \notin Past /\ pos \in 1..Len(Row)
  BY <1>1, RowFacts DEF IInv, TypeOK
<1>3. TypeOK'
  BY <1>1, <1>2 DEF IInv, TypeOK
<1>4. act[n] = "none" /\ outcome[n].kind = "open"
  BY <1>1, <1>2 DEF IInv, ProgressInv, OutcomeInv
<1>5. OutcomeInv'
  BY <1>1, <1>2, <1>4 DEF IInv, OutcomeInv, TypeOK
<1>6. BudgetInv' /\ DataflowConsistent'
  BY <1>1 DEF IInv, BudgetInv, DataflowConsistent, Deps
<1>7. ProgressInv'
  BY <1>1 DEF IInv, ProgressInv, Open
<1>8. ResolvedInv'
  <2> SUFFICES ASSUME NEW m \in Prepared'
               PROVE  /\ Deps(m) \subseteq DOMAIN completed
                      /\ resolved'[m] = [d \in Deps(m) |-> completed[d]]
    BY <1>1 DEF ResolvedInv, Deps
  <2>1. CASE m = n
    BY <1>1, <1>2, <2>1 DEF IInv, TypeOK
  <2>2. CASE m # n
    <3>1. m \in Prepared
      BY <1>1, <1>2, <2>2 DEF Prepared, PreparedNow
    <3>2. m \in Nodes
      BY <3>1, <1>1, RowFacts DEF Prepared, PreparedNow
    <3> QED
      BY <1>1, <2>2, <3>1, <3>2 DEF IInv, ResolvedInv, TypeOK
  <2> QED
    BY <2>1, <2>2
<1> QED
  BY <1>3, <1>5, <1>6, <1>7, <1>8 DEF IInv

\* Gathering schedules activities of the current level only, all of them new.
LEMMA GatherInv ==
    ASSUME IInv, Gather
    PROVE  IInv'
<1>1. /\ Running /\ ~gathering /\ pos > Len(Row) /\ gathering' = TRUE
      /\ act' = [n \in Nodes |-> IF n \in RowSet THEN "scheduled" ELSE act[n]]
      /\ input' = input /\ wf' = wf /\ lvl' = lvl /\ pos' = pos /\ resolved' = resolved
      /\ completed' = completed /\ culprit' = culprit
      /\ attempt' = attempt /\ outcome' = outcome
      /\ alive' = alive /\ orphans' = orphans /\ crashes' = crashes
      /\ Nodes' = Nodes /\ Row' = Row /\ RowSet' = RowSet /\ Past' = Past
  BY DEF Gather, LevelScheduled, wrkVars, Nodes, Row, RowSet, Past
<1>2. \A n \in RowSet : n \in Nodes /\ act[n] = "none"
  BY <1>1, RowFacts DEF IInv, ProgressInv
<1>3. act \in [Nodes -> ActStates]
  BY DEF IInv, TypeOK
<1>4. TypeOK'
  <2>1. act' \in [Nodes -> ActStates]
    BY <1>1, <1>3 DEF ActStates
  <2> QED
    BY <1>1, <2>1 DEF IInv, TypeOK
<1>5. OutcomeInv'
  BY <1>1, <1>2, <1>3 DEF IInv, OutcomeInv
<1>6. BudgetInv'
  BY <1>1, <1>2, <1>3 DEF IInv, BudgetInv
<1>7. ProgressInv'
  <2>1. wf = "running" /\ lvl <= Len(input.levels)
    BY <1>1 DEF Running
  <2>2. (\A n \in Nodes : act[n] # "none" => n \in Past \/ (gathering /\ n \in RowSet))'
    BY <1>1 DEF IInv, ProgressInv
  <2>3. (gathering => \A n \in RowSet : act[n] # "none")'
    BY <1>1, <1>2
  <2> QED
    BY <1>1, <2>1, <2>2, <2>3 DEF IInv, ProgressInv
<1>8. Prepared' = Prepared
  BY <1>1 DEF Prepared, PreparedNow
<1>9. ResolvedInv' /\ DataflowConsistent'
  BY <1>1, <1>8 DEF IInv, ResolvedInv, DataflowConsistent, Deps
<1> QED
  BY <1>4, <1>5, <1>6, <1>7, <1>9 DEF IInv

\* A workflow that ends while no level is gathered leaves nothing open.
LEMMA EndFrame ==
    ASSUME IInv, wf' \in Statuses, culprit' \in Nodes \cup {None},
           \A n \in Nodes : act[n] \notin Open,
           wf = "running",
           UNCHANGED <<input, lvl, pos, gathering, resolved, completed, actVars, wrkVars>>
    PROVE  IInv'
<1>1. /\ input' = input /\ lvl' = lvl /\ pos' = pos /\ gathering' = gathering
      /\ resolved' = resolved /\ completed' = completed
      /\ act' = act /\ attempt' = attempt /\ outcome' = outcome
      /\ alive' = alive /\ orphans' = orphans /\ crashes' = crashes
      /\ Nodes' = Nodes /\ Row' = Row /\ RowSet' = RowSet /\ Past' = Past
  BY DEF actVars, wrkVars, Nodes, Row, RowSet, Past
<1>2. TypeOK' /\ OutcomeInv' /\ BudgetInv'
  BY <1>1 DEF IInv, TypeOK, OutcomeInv, BudgetInv
<1>3. ProgressInv'
  BY <1>1 DEF IInv, ProgressInv
<1>4. ResolvedInv' /\ DataflowConsistent'
  BY <1>1 DEF IInv, ResolvedInv, Prepared, PreparedNow, DataflowConsistent, Deps
<1> QED
  BY <1>2, <1>3, <1>4 DEF IInv

\* Before a level is gathered every activity is either unborn or delivered.
LEMMA NothingOpen ==
    ASSUME IInv, ~gathering
    PROVE  \A n \in Nodes : act[n] \notin Open
BY DEF IInv, ProgressInv, OutcomeInv, Open

\* A malformed payload of prepare_node_inputs ends the run with nothing open.
LEMMA PrepareGarbledInv ==
    ASSUME IInv, PrepareGarbled
    PROVE  IInv'
<1>1. Running /\ ~gathering /\ pos <= Len(Row) /\ wf' = "failed" /\ culprit' = Row[pos]
      /\ UNCHANGED <<input, lvl, pos, gathering, resolved, completed, actVars, wrkVars>>
  BY DEF PrepareGarbled
<1>2. culprit' \in Nodes /\ wf = "running"
  BY <1>1, RowFacts DEF IInv, TypeOK, Running
<1> QED
  BY <1>1, <1>2, NothingOpen, EndFrame DEF Statuses

\* A graph without nodes ends at once.
LEMMA FinishEmptyInv ==
    ASSUME IInv, FinishEmpty
    PROVE  IInv'
<1>1. /\ wf = "running" /\ input.levels = <<>> /\ culprit' = culprit
      /\ wf' \in Statuses
      /\ UNCHANGED <<input, lvl, pos, gathering, resolved, completed, actVars, wrkVars>>
  BY DEF FinishEmpty, Finish, Statuses
<1>2. ~gathering
  BY <1>1 DEF IInv, ProgressInv, TypeOK
<1>3. culprit' \in Nodes \cup {None}
  BY <1>1 DEF IInv, TypeOK
<1> QED
  BY <1>1, <1>2, <1>3, NothingOpen, EndFrame

\* Cancelling the run cancels the open activities and touches no result.
LEMMA CancelInv ==
    ASSUME IInv, Cancel
    PROVE  IInv'
<1>1. /\ Running /\ wf' = "cancelled"
      /\ act' = [n \in Nodes |-> IF act[n] \in Open THEN "cancelled" ELSE act[n]]
      /\ input' = input /\ lvl' = lvl /\ pos' = pos /\ gathering' = gathering
      /\ resolved' = resolved /\ completed' = completed /\ culprit' = culprit
      /\ attempt' = attempt /\ outcome' = outcome
      /\ alive' = alive /\ orphans' = orphans /\ crashes' = crashes
      /\ Nodes' = Nodes /\ Row' = Row /\ RowSet' = RowSet /\ Past' = Past
  BY DEF Cancel, ActsCancelled, wrkVars, Nodes, Row, RowSet, Past
<1>2. act \in [Nodes -> ActStates] /\ RowSet \subseteq Nodes
  BY <1>1, RowFacts DEF IInv, TypeOK
<1>3. TypeOK'
  <2>1. act' \in [Nodes -> ActStates] /\ wf' \in Statuses
    BY <1>1, <1>2 DEF ActStates, Statuses
  <2> QED
    BY <1>1, <2>1 DEF IInv, TypeOK
<1>4. OutcomeInv'
  BY <1>1, <1>2 DEF IInv, OutcomeInv, Open
<1>5. BudgetInv'
  BY <1>1, <1>2 DEF IInv, BudgetInv, Open
<1>6. ProgressInv'
  BY <1>1, <1>2 DEF IInv, ProgressInv, Open
<1>8. Prepared' = Prepared
  BY <1>1 DEF Prepared, PreparedNow
<1>7. ResolvedInv' /\ DataflowConsistent'
  BY <1>1, <1>8 DEF IInv, ResolvedInv, DataflowConsistent, Deps
<1> QED
  BY <1>3, <1>4, <1>5, <1>6, <1>7 DEF IInv

\* The results a level adds were computed from results that stay as they are.
LEMMA StoredConsistent ==
    ASSUME IInv, Running, gathering, NEW stop \in 1..(Len(Row) + 1), StopsAt(stop),
           completed' = Stored(stop), input' = input, resolved' = resolved
    PROVE  /\ DOMAIN completed' = Past \cup {Row[j] : j \in 1..(stop - 1)}
           /\ DOMAIN completed' \subseteq Nodes
           /\ \A n \in Past \cup RowSet :
                 /\ Deps(n) \subseteq DOMAIN completed
                 /\ resolved[n] = [d \in Deps(n) |-> completed'[d]]
           /\ DataflowConsistent'
<1>1. /\ DOMAIN completed' = Past \cup {Row[j] : j \in 1..(stop - 1)}
      /\ \A m \in DOMAIN completed : completed'[m] = completed[m]
      /\ \A j \in 1..(stop - 1) : completed'[Row[j]] = outcome[Row[j]].value
  BY StoredLemma, RowFacts
<1>2. DOMAIN completed' \subseteq Nodes
  BY <1>1, RowFacts
<1>3. \A n \in Past \cup RowSet :
         /\ Deps(n) \subseteq DOMAIN completed
         /\ resolved[n] = [d \in Deps(n) |-> completed'[d]]
  <2> SUFFICES ASSUME NEW n \in Past \cup RowSet
               PROVE  /\ Deps(n) \subseteq DOMAIN completed
                      /\ resolved[n] = [d \in Deps(n) |-> completed'[d]]
    OBVIOUS
  <2>1. n \in Prepared
    <3>1. CASE n \in RowSet
      <4>1. PICK j \in 1..Len(Row) : n = Row[j]
        BY <3>1, RowFacts
      <4>2. pos \in Nat /\ pos > Len(Row) /\ lvl <= Len(input.levels) /\ Len(Row) \in Nat
        BY RowFacts DEF IInv, TypeOK, ProgressInv
      <4> QED
        BY <3>1, <4>1, <4>2, RowFacts DEF Prepared, PreparedNow
    <3> QED
      BY <3>1 DEF Prepared
  <2>2. Deps(n) \subseteq DOMAIN completed /\ resolved[n] = [d \in Deps(n) |-> completed[d]]
    BY <2>1 DEF IInv, ResolvedInv
  <2> QED
    BY <1>1, <2>2
<1>4. DataflowConsistent'
  <2> SUFFICES ASSUME NEW n \in DOMAIN completed'
               PROVE  /\ completed'[n].node = n
                      /\ Deps(n) \subseteq DOMAIN completed'
                      /\ completed'[n].in = [d \in Deps(n) |-> completed'[d]]
    BY DEF DataflowConsistent, Deps
  <2>1. CASE n \in Past
    <3>1. completed[n].node = n /\ Deps(n) \subseteq DOMAIN completed
          /\ completed[n].in = [d \in Deps(n) |-> completed[d]]
      BY <2>1, RowFacts DEF IInv, DataflowConsistent
    <3> QED
      BY <1>1, <2>1, <3>1, RowFacts
  <2>2. CASE n \notin Past
    <3>1. PICK j \in 1..(stop - 1) : n = Row[j]
      BY <1>1, <2>2
    <3>2. j \in 1..Len(Row) /\ ~Bad(j)
      BY RowFacts DEF StopsAt
    <3>3. n \in RowSet /\ n \in Nodes /\ outcome[n].kind = "ok"
      BY <3>1, <3>2, RowFacts DEF Bad
    <3>4. outcome[n].value.node = n /\ outcome[n].value.in = resolved[n]
      BY <3>3 DEF IInv, OutcomeInv
    <3> QED
      BY <1>1, <1>3, <3>1, <3>3, <3>4, RowFacts
  <2> QED
    BY <2>1, <2>2
<1> QED
  BY <1>1, <1>2, <1>3, <1>4

\* Storing a level moves its nodes to the past, or ends the run.
LEMMA StoreLevelInv ==
    ASSUME IInv, StoreLevel
    PROVE  IInv'
<1>1. /\ Running /\ gathering /\ LevelClosed
      /\ input' = input /\ resolved' = resolved
      /\ act' = act /\ attempt' = attempt /\ outcome' = outcome
      /\ alive' = alive /\ orphans' = orphans /\ crashes' = crashes
      /\ Nodes' = Nodes
  BY DEF StoreLevel, actVars, wrkVars, Nodes
<1>2. PICK stop \in 1..(Len(Row) + 1) :
         /\ StopsAt(stop)
         /\ completed' = Stored(stop)
         /\ \/ /\ stop <= Len(Row)
               /\ wf' = "failed"
               /\ culprit' = Blamed(stop)
               /\ UNCHANGED <<lvl, pos, gathering, output>>
            \/ /\ stop > Len(Row)
               /\ lvl' = lvl + 1
               /\ pos' = 1
               /\ gathering' = FALSE
               /\ IF lvl < Len(input.levels) THEN UNCHANGED <<wf, output>>
                                             ELSE Finish(Stored(stop))
               /\ UNCHANGED culprit
  BY DEF StoreLevel
<1>3. /\ DOMAIN completed' = Past \cup {Row[j] : j \in 1..(stop - 1)}
      /\ DOMAIN completed' \subseteq Nodes
      /\ \A n \in Past \cup RowSet :
            /\ Deps(n) \subseteq DOMAIN completed
            /\ resolved[n] = [d \in Deps(n) |-> completed'[d]]
      /\ DataflowConsistent'
  BY <1>1, <1>2, StoredConsistent
<1>4. OutcomeInv' /\ BudgetInv'
  BY <1>1 DEF IInv, OutcomeInv, BudgetInv
<1>5. \A n \in Nodes : act[n] \notin Open
  <2> SUFFICES ASSUME NEW n \in Nodes PROVE act[n] \notin Open
    OBVIOUS
  <2>1. CASE n \in RowSet
    BY <1>1, <2>1 DEF LevelClosed
  <2>2. CASE n \in Past
    BY <2>2 DEF IInv, ProgressInv, OutcomeInv, Open
  <2>3. CASE n \notin RowSet \cup Past
    BY <2>3 DEF IInv, ProgressInv, Open
  <2> QED
    BY <2>1, <2>2, <2>3
<1>6. CASE stop <= Len(Row)
  <2>1. /\ wf' = "failed" /\ culprit' = Row[stop]
        /\ lvl' = lvl /\ pos' = pos /\ gathering' = gathering
        /\ Row' = Row /\ RowSet' = RowSet /\ Past' = Past
    <3>1. ~(stop > Len(Row))
      BY <1>1, <1>6, RowFacts
    <3>2. /\ wf' = "failed" /\ culprit' = Blamed(stop)
          /\ UNCHANGED <<lvl, pos, gathering, output>>
      BY <1>2, <3>1
    <3> QED
      BY <1>1, <3>2 DEF Blamed, Row, RowSet, Past
  <2>2. culprit' \in Nodes
    BY <1>1, <1>6, <2>1, RowFacts
  <2>3. TypeOK'
    BY <1>1, <1>3, <2>1, <2>2 DEF IInv, TypeOK, Statuses
  <2>4. ProgressInv'
    BY <1>1, <1>3, <1>5, <2>1 DEF IInv, ProgressInv
  <2>5. ResolvedInv'
    <3> SUFFICES ASSUME NEW n \in Prepared'
                 PROVE  Deps(n) \subseteq DOMAIN completed'
                        /\ resolved[n] = [d \in Deps(n) |-> completed'[d]]
      BY <1>1 DEF ResolvedInv, Deps
    <3>1. n \in Past \cup RowSet
      BY <1>1, <2>1, RowFacts DEF Prepared, PreparedNow, IInv, TypeOK
    <3>2. DOMAIN completed \subseteq DOMAIN completed'
      BY <1>1, <1>3, RowFacts
    <3> QED
      BY <1>3, <3>1, <3>2
  <2> QED
    BY <1>3, <1>4, <2>3, <2>4, <2>5 DEF IInv
<1>7. CASE stop > Len(Row)
  <2>0. ~(stop <= Len(Row)) /\ stop = Len(Row) + 1 /\ wf = "running"
    BY <1>1, <1>7, RowFacts DEF Running
  <2>9. /\ lvl' = lvl + 1 /\ pos' = 1 /\ gathering' = FALSE /\ UNCHANGED culprit
        /\ \/ UNCHANGED <<wf, output>>
           \/ Finish(Stored(stop))
    BY <1>2, <2>0
  <2>1. /\ lvl' = lvl + 1 /\ pos' = 1 /\ gathering' = FALSE /\ culprit' = culprit
        /\ wf' \in {wf, "completed", "failed"} /\ stop = Len(Row) + 1
        /\ wf = "running"
    BY <2>0, <2>9 DEF Finish
  <2>2. Past' = Past \cup RowSet
    <3>1. lvl \in Nat \ {0} /\ 1..lvl = (1..(lvl - 1)) \cup {lvl}
      BY <1>1, RowFacts
    <3> QED
      BY <1>1, <2>1, <3>1 DEF Past, RowSet
  <2>3. DOMAIN completed' = Past'
    BY <1>1, <1>3, <2>1, <2>2, RowFacts
  <2>4. Prepared' \subseteq Past \cup RowSet
    BY <2>1, <2>2 DEF Prepared, PreparedNow
  <2>5. TypeOK'
    <3>1. lvl' \in 1..(Len(input.levels) + 1)
      BY <1>1, <2>1, RowFacts
    <3>2. wf' \in Statuses /\ gathering' \in BOOLEAN
      BY <2>1 DEF Statuses
    <3> QED
      BY <1>1, <1>3, <2>1, <3>1, <3>2 DEF IInv, TypeOK
  <2>6. \A n \in RowSet : outcome[n].kind = "ok"
    <3> SUFFICES ASSUME NEW j \in 1..Len(Row) PROVE outcome[Row[j]].kind = "ok"
      BY <1>1, RowFacts
    <3> QED
      BY <1>1, <1>2, <2>1, RowFacts DEF StopsAt, Bad
  <2>7. ProgressInv'
    <3>1. (\A n \in Past : outcome[n].kind = "ok")'
      BY <1>1, <2>2, <2>6 DEF IInv, ProgressInv
    <3>2. (\A n \in Nodes : act[n] # "none" => n \in Past)'
      BY <1>1, <2>2 DEF IInv, ProgressInv
    <3> QED
      BY <1>1, <1>5, <2>1, <2>3, <3>1, <3>2 DEF ProgressInv
  <2>8. ResolvedInv'
    <3>1. DOMAIN completed \subseteq DOMAIN completed'
      BY <1>1, <1>3, RowFacts
    <3> QED
      BY <1>1, <1>3, <2>4, <3>1 DEF ResolvedInv, Deps
  <2> QED
    BY <1>3, <1>4, <2>5, <2>7, <2>8 DEF IInv
<1> QED
  BY <1>6, <1>7, RowFacts, <1>1

---------------------------------------------------------------------------
(* The theorems.                                                           *)

\* Every step, and every stuttering step, preserves the invariant.
LEMMA NextInv == IInv /\ [Next]_vars => IInv'
<1> SUFFICES ASSUME IInv, [Next]_vars PROVE IInv'
  OBVIOUS
<1>1. CASE UNCHANGED vars
  BY <1>1, WorkerFrame DEF vars, wrkVars, IInv, TypeOK, wfVars, actVars, Nodes
<1>2. CASE WorkflowStep
  BY <1>2, PrepareNodeInv, PrepareGarbledInv, GatherInv, StoreLevelInv, FinishEmptyInv
     DEF WorkflowStep
<1>3. CASE Cancel
  BY <1>3, CancelInv
<1>4. ASSUME NEW n \in Nodes, ActivityStep(n) PROVE IInv'
  <2>1. CASE StartAttempt(n) \/ AttemptTimesOut(n) \/ AttemptGarbled(n)
    BY <2>1, StartAttemptInv, AttemptTimesOutInv, AttemptGarbledInv
  <2>2. ASSUME NEW k \in Tries(n), AttemptReturns(n, k) PROVE IInv'
    BY <2>2, AttemptReturnsInv
  <2>3. ASSUME NEW k \in Tries(n),
               HeartbeatCancels(n, k) \/ WorkerCrash(n, k) \/ OrphanExits(n, k)
        PROVE  IInv'
    <3>1. /\ UNCHANGED <<input, wfVars, actVars>>
          /\ alive' \subseteq alive
          /\ orphans' \subseteq orphans \cup alive
          /\ crashes' \in 0..MaxCrashes
      <4>1. crashes \in 0..MaxCrashes
        BY DEF IInv, TypeOK
      <4>2. CASE HeartbeatCancels(n, k)
        BY <4>1, <4>2 DEF HeartbeatCancels
      <4>3. CASE WorkerCrash(n, k)
        BY <4>1, <4>3, CrashAssumption DEF WorkerCrash
      <4>4. CASE OrphanExits(n, k)
        BY <4>1, <4>4 DEF OrphanExits
      <4> QED
        BY <2>3, <4>2, <4>3, <4>4
    <3>2. TypeOK'
      BY <3>1, TypeFrame DEF IInv, TypeOK, actVars
    <3> QED
      BY <3>1, <3>2, WorkerFrame
  <2> QED
    BY <1>4, <2>1, <2>2, <2>3 DEF ActivityStep
<1>5. CASE Ended
  BY <1>1, <1>5 DEF Ended
<1> QED
  BY <1>1, <1>2, <1>3, <1>4, <1>5 DEF Next

\* The invariant holds in every reachable state.
THEOREM Invariance == Spec => []IInv
BY InitInv, NextInv, PTL DEF Spec

\* The state keeps its shape for every set of well-formed inputs.
THEOREM TypeCorrect == Spec => []TypeOK
<1>1. IInv => TypeOK
  BY DEF IInv
<1> QED
  BY <1>1, Invariance, PTL

\* Each stored result was computed by an attempt of its own node from the
\* results stored for its dependencies, for every graph, every retry budget
\* and every schedule of failures, timeouts, late answers and crashes.
THEOREM ResultsFollowDependencies == Spec => []DataflowConsistent
<1>1. IInv => DataflowConsistent
  BY DEF IInv
<1> QED
  BY <1>1, Invariance, PTL

\* No task is started more than retries + 1 times.
THEOREM RetryBudgetKept == Spec => []AttemptsBounded
<1>1. IInv => AttemptsBounded
  BY DEF IInv, BudgetInv, AttemptsBounded
<1> QED
  BY <1>1, Invariance, PTL

\* Whatever ends the workflow, none of its activities is left open.
THEOREM EndClosesActivities == Spec => []NothingOpenAtEnd
<1>1. IInv => NothingOpenAtEnd
  BY DEF IInv, ProgressInv, NothingOpenAtEnd
<1> QED
  BY <1>1, Invariance, PTL

---------------------------------------------------------------------------
(* The level barrier, and the failure a run reports.                       *)

\* The server and the workers leave the workflow alone, start only scheduled
\* activities, judge only started ones and cancel none.
LEMMA ActivityEffect ==
    ASSUME IInv, NEW n \in Nodes, ActivityStep(n)
    PROVE  /\ UNCHANGED <<input, wfVars>>
           /\ \A m \in Nodes : /\ attempt'[m] # attempt[m] => act[m] = "scheduled"
                               /\ outcome'[m] # outcome[m] => act[m] = "started"
                               /\ act'[m] = "cancelled" => act[m] = "cancelled"
<1>1. attempt \in [Nodes -> Nat] /\ DOMAIN outcome = Nodes /\ act \in [Nodes -> ActStates]
  BY DEF IInv, TypeOK
<1>2. UNCHANGED <<input, wfVars>>
  BY DEF ActivityStep, StartAttempt, AttemptTimesOut, AttemptGarbled, AttemptReturns,
         HeartbeatCancels, WorkerCrash, OrphanExits
<1> SUFFICES ASSUME NEW m \in Nodes
             PROVE  /\ attempt'[m] # attempt[m] => act[m] = "scheduled"
                    /\ outcome'[m] # outcome[m] => act[m] = "started"
                    /\ act'[m] = "cancelled" => act[m] = "cancelled"
  BY <1>2
<1>3. CASE StartAttempt(n)
  BY <1>1, <1>3 DEF StartAttempt
<1>4. CASE AttemptTimesOut(n)
  BY <1>1, <1>4 DEF AttemptTimesOut, AttemptFails
<1>5. CASE AttemptGarbled(n)
  BY <1>1, <1>5 DEF AttemptGarbled
<1>6. ASSUME NEW k \in Tries(n), AttemptReturns(n, k)
      PROVE  /\ attempt'[m] # attempt[m] => act[m] = "scheduled"
             /\ outcome'[m] # outcome[m] => act[m] = "started"
             /\ act'[m] = "cancelled" => act[m] = "cancelled"
  BY <1>1, <1>6 DEF AttemptReturns, Current, CloseAttempt, AttemptFails, actVars
<1>7. ASSUME NEW k \in Tries(n),
             HeartbeatCancels(n, k) \/ WorkerCrash(n, k) \/ OrphanExits(n, k)
      PROVE  attempt' = attempt /\ outcome' = outcome /\ act' = act
  BY <1>7 DEF HeartbeatCancels, WorkerCrash, OrphanExits, actVars
<1> QED BY <1>3, <1>4, <1>5, <1>6, <1>7 DEF ActivityStep

\* An attempt starts only when every node of every earlier level has its
\* result stored.
THEOREM LevelsAreBarriers == Spec => LevelBarrier
<1>1. IInv /\ [Next]_vars =>
        [\A i, k \in 1..Len(input.levels) : k < i =>
          \A n \in NodesAt(input, i) : \A m \in NodesAt(input, k) :
             attempt'[n] # attempt[n] => m \in DOMAIN completed]_vars
  <2> SUFFICES ASSUME IInv, Next,
                      NEW i \in 1..Len(input.levels), NEW k \in 1..Len(input.levels), k < i,
                      NEW n \in NodesAt(input, i), NEW m \in NodesAt(input, k),
                      attempt'[n] # attempt[n]
               PROVE  m \in DOMAIN completed
    OBVIOUS
  <2>1. n \in Nodes /\ input \in Inputs
    BY LevelType DEF IInv, TypeOK, Nodes
  <2>2. \E p \in Nodes : ActivityStep(p)
    BY DEF Next, WorkflowStep, Cancel, Ended, PrepareNode, PrepareGarbled, Gather, StoreLevel,
           FinishEmpty, actVars, vars
  <2>3. act[n] = "scheduled"
    BY <2>1, <2>2, ActivityEffect
  <2>4. n \notin Past /\ gathering /\ n \in RowSet /\ Running
    <3>1. n \notin Past
      BY <2>1, <2>3 DEF IInv, ProgressInv, OutcomeInv
    <3> QED BY <2>1, <2>3, <3>1 DEF IInv, ProgressInv, Open, Running
  <2>5. i = lvl
    BY <2>1, <2>4, RowFacts, LevelsDisjoint DEF RowSet
  <2>6. m \in Past
    BY <2>4, <2>5, RowFacts DEF Past
  <2> QED BY <2>6 DEF IInv, ProgressInv
<1> QED BY <1>1, Invariance, PTL DEF Spec, LevelBarrier

\* While the workflow runs nothing has been cancelled.
NoneCancelled == wf = "running" => \A n \in Nodes : act[n] # "cancelled"

\* Storing a level that fails: the first bad result closed its activity.
LEMMA FailingLevel ==
    ASSUME IInv, NoneCancelled, StoreLevel, wf' = "failed", gathering'
    PROVE  FailureIsFirst'
<1>1. /\ Running /\ gathering /\ Row' = Row /\ outcome' = outcome
      /\ \A n \in RowSet : act[n] \notin Open
  BY DEF StoreLevel, Row, actVars, LevelClosed
<1>2. PICK stop \in 1..(Len(Row) + 1) :
         /\ StopsAt(stop) /\ completed' = Stored(stop)
         /\ stop <= Len(Row) /\ culprit' = Blamed(stop) /\ lvl' = lvl
  BY DEF StoreLevel
<1>3. stop \in 1..Len(Row) /\ culprit' = Row[stop] /\ Row[stop] \in Nodes /\ Row[stop] \in RowSet
  BY <1>1, <1>2, RowFacts DEF Blamed
<1>4. outcome[Row[stop]].kind \in {"failed", "malformed"}
  <2>1. outcome[Row[stop]].kind # "ok"
    BY <1>2, <1>3 DEF StopsAt, Bad
  <2>2. act[Row[stop]] \notin {"scheduled", "started", "none", "cancelled"}
    BY <1>1, <1>3 DEF IInv, ProgressInv, Open, NoneCancelled, Running
  <2>3. act[Row[stop]] \in {"completed", "failed"}
    BY <1>3, <2>2 DEF IInv, TypeOK, ActStates
  <2> QED BY <1>3, <2>1, <2>3 DEF IInv, OutcomeInv
<1>5. \A i \in 1..(stop - 1) : Row[i] \in DOMAIN completed'
  BY <1>1, <1>2, StoredLemma
<1> QED BY <1>1, <1>3, <1>4, <1>5 DEF FailureIsFirst

\* A run that fails at a level reports the first failure in level order, and
\* has kept the results before it.
THEOREM FirstFailureReported == Spec => []FailureIsFirst
<1>1. Init => FailureIsFirst /\ NoneCancelled
  BY DEF Init, FailureIsFirst, NoneCancelled
<1>2. IInv /\ NoneCancelled /\ [Next]_vars => NoneCancelled'
  <2> SUFFICES ASSUME IInv, NoneCancelled, [Next]_vars, wf' = "running",
                      NEW n \in Nodes'
               PROVE  act'[n] # "cancelled"
    BY DEF NoneCancelled
  <2>1. CASE UNCHANGED vars
    BY <2>1 DEF vars, wfVars, actVars, NoneCancelled, Nodes
  <2>2. ASSUME NEW p \in Nodes, ActivityStep(p)
        PROVE  act'[n] # "cancelled"
    BY <2>2, ActivityEffect DEF NoneCancelled, wfVars, Nodes
  <2>3. CASE Gather
    BY <2>3 DEF Gather, LevelScheduled, Running, NoneCancelled, Nodes
  <2>4. CASE PrepareNode \/ StoreLevel
    BY <2>4 DEF PrepareNode, StoreLevel, Running, actVars, NoneCancelled, Nodes
  <2>5. CASE PrepareGarbled \/ FinishEmpty \/ Cancel
    BY <2>5 DEF PrepareGarbled, FinishEmpty, Finish, Cancel
  <2> QED BY <2>1, <2>2, <2>3, <2>4, <2>5 DEF Next, WorkflowStep, Ended
<1>3. IInv /\ NoneCancelled /\ FailureIsFirst /\ [Next]_vars => FailureIsFirst'
  <2> SUFFICES ASSUME IInv, NoneCancelled, FailureIsFirst, [Next]_vars,
                      wf' = "failed", gathering'
               PROVE  FailureIsFirst'
    BY DEF FailureIsFirst
  <2>1. CASE UNCHANGED vars
    BY <2>1 DEF vars, wfVars, actVars, FailureIsFirst, Row
  <2>2. ASSUME NEW p \in Nodes, ActivityStep(p)
        PROVE  FailureIsFirst'
    <3>1. UNCHANGED <<input, wfVars>> /\ Row' = Row
      BY <2>2, ActivityEffect DEF wfVars, Row
    <3>2. PICK j \in 1..Len(Row) :
             /\ culprit = Row[j]
             /\ outcome[culprit].kind \in {"failed", "malformed"}
             /\ \A i \in 1..(j - 1) : Row[i] \in DOMAIN completed
      BY <3>1 DEF FailureIsFirst, wfVars
    <3>3. lvl \in 1..Len(input.levels) /\ input \in Inputs
      BY <3>1 DEF IInv, TypeOK, ProgressInv, wfVars
    <3>4. culprit \in Nodes
      BY <3>2, <3>3, LevelType DEF Row, Nodes
    <3>5. outcome'[culprit] = outcome[culprit]
      <4>1. act[culprit] # "started"
        BY <3>2, <3>4 DEF IInv, OutcomeInv
      <4> QED BY <2>2, <3>4, <4>1, ActivityEffect
    <3> QED BY <3>1, <3>2, <3>5 DEF FailureIsFirst, wfVars
  <2>3. CASE StoreLevel
    BY <2>3, FailingLevel
  <2>4. CASE PrepareNode \/ PrepareGarbled \/ Gather \/ Cancel
    BY <2>4 DEF PrepareNode, PrepareGarbled, Gather, Cancel, Running
  <2>5. CASE FinishEmpty
    BY <2>5 DEF FinishEmpty, IInv, TypeOK, ProgressInv
  <2> QED BY <2>1, <2>2, <2>3, <2>4, <2>5 DEF Next, WorkflowStep, Ended
<1> QED BY <1>1, <1>2, <1>3, Invariance, PTL DEF Spec

---------------------------------------------------------------------------
(* The run implements the abstract dataflow execution.                     *)

\* A level past the last one means that every node has been left behind.
LEMMA AllPast ==
    ASSUME NEW in \in Inputs, NEW n \in in.nodes
    PROVE  \E i \in 1..Len(in.levels) : n \in NodesAt(in, i)
BY InputsAssumption DEF WellFormed

\* Storing a level is one commit of the abstract execution, and returning
\* from the last level delivers.
LEMMA StoreLevelRefines ==
    ASSUME IInv, IInv', StoreLevel
    PROVE  Abstract!Next
<1>1. /\ Running /\ gathering /\ LevelClosed /\ wf = "running"
      /\ input' = input /\ resolved' = resolved /\ act' = act /\ outcome' = outcome
  BY DEF StoreLevel, actVars, Running
<1>2. PICK stop \in 1..(Len(Row) + 1) :
         /\ StopsAt(stop)
         /\ completed' = Stored(stop)
         /\ \/ /\ wf' = "failed"
               /\ output' = output
            \/ /\ stop > Len(Row)
               /\ lvl' = lvl + 1
               /\ IF lvl < Len(input.levels) THEN UNCHANGED <<wf, output>>
                                             ELSE Finish(Stored(stop))
  BY DEF StoreLevel
<1>3. /\ DOMAIN completed' = DOMAIN completed \cup {Row[j] : j \in 1..(stop - 1)}
      /\ \A m \in DOMAIN completed : completed'[m] = completed[m]
      /\ \A j \in 1..(stop - 1) : completed'[Row[j]] = outcome[Row[j]].value
  BY <1>1, <1>2, StoredLemma
<1>4. /\ \A n \in Past \cup RowSet :
            /\ Deps(n) \subseteq DOMAIN completed
            /\ resolved[n] = [d \in Deps(n) |-> completed'[d]]
  BY <1>1, <1>2, StoredConsistent
<1>5. Abstract!Commit
  <2> SUFFICES ASSUME NEW n \in DOMAIN completed' \ DOMAIN completed
               PROVE  /\ n \in input.nodes
                      /\ input.deps[n] \subseteq DOMAIN completed
                      /\ completed'[n].node = n
                      /\ completed'[n].in = [d \in input.deps[n] |-> completed[d]]
    BY <1>3 DEF Abstract!Commit, Abstract!IsResult
  <2>1. PICK j \in 1..(stop - 1) : n = Row[j]
    BY <1>3
  <2>2. j \in 1..Len(Row) /\ ~Bad(j)
    BY <1>1, <1>2, RowFacts DEF StopsAt
  <2>3. n \in RowSet /\ n \in Nodes /\ outcome[n].kind = "ok"
    BY <1>1, <2>1, <2>2, RowFacts DEF Bad
  <2>4. outcome[n].value.node = n /\ outcome[n].value.in = resolved[n]
    BY <2>3 DEF IInv, OutcomeInv
  <2>5. Deps(n) \subseteq DOMAIN completed
        /\ resolved[n] = [d \in Deps(n) |-> completed[d]]
    <3>1. /\ Deps(n) \subseteq DOMAIN completed
          /\ resolved[n] = [d \in Deps(n) |-> completed'[d]]
      BY <1>4, <2>3
    <3>2. \A d \in Deps(n) : completed'[d] = completed[d]
      BY <1>3, <3>1
    <3> QED
      BY <3>1, <3>2
  <2> QED
    BY <1>3, <2>1, <2>3, <2>4, <2>5 DEF Nodes, Deps
<1>6. CASE wf' = "failed" /\ output' = output
  BY <1>1, <1>5, <1>6 DEF Abstract!Next, Abstract!Continue
<1>7. CASE UNCHANGED <<wf, output>>
  BY <1>1, <1>5, <1>7 DEF Abstract!Next, Abstract!Continue
<1>8. CASE stop > Len(Row) /\ lvl' = lvl + 1 /\ ~(lvl < Len(input.levels)) /\ Finish(Stored(stop))
  <2>1. CASE wf' = "failed" /\ UNCHANGED output
    BY <1>6, <2>1
  <2>2. CASE wf' = "completed" /\ output' = [n \in OutputKeys(Stored(stop)) |-> Stored(stop)[n]]
    <3>1. stop = Len(Row) + 1 /\ lvl = Len(input.levels) /\ Len(Row) \in Nat /\ lvl \in Nat \ {0}
      BY <1>1, <1>8, RowFacts
    <3>2. DOMAIN completed' = Past \cup RowSet
      BY <1>1, <1>3, <3>1, RowFacts
    <3>3. Past \cup RowSet = input.nodes
      <4>1. Past \cup RowSet \subseteq input.nodes
        BY <1>1, RowFacts DEF Nodes
      <4>2. ASSUME NEW n \in input.nodes PROVE n \in Past \cup RowSet
        <5>1. PICK i \in 1..Len(input.levels) : n \in NodesAt(input, i)
          BY <1>1, RowFacts, AllPast
        <5>2. i = lvl \/ i \in 1..(lvl - 1)
          BY <3>1
        <5> QED
          BY <5>1, <5>2 DEF Past, RowSet
      <4> QED
        BY <4>1, <4>2
    <3>4. Abstract!Deliver
      BY <1>2, <2>2, <3>2, <3>3 DEF Abstract!Deliver, OutputKeys
    <3> QED
      BY <1>1, <1>5, <3>4 DEF Abstract!Next
  <2> QED
    BY <1>8, <2>1, <2>2 DEF Finish
<1> QED
  BY <1>2, <1>6, <1>7, <1>8

\* Every step of the run is a step or a stutter of the abstract execution.
LEMMA StepRefines ==
    ASSUME IInv, IInv', [Next]_vars
    PROVE  [Abstract!Next]_(Abstract!vars)
<1>1. CASE UNCHANGED <<input, wf, completed, output>>
  BY <1>1 DEF Abstract!vars
<1>2. ASSUME wf = "running", wf' \in {"failed", "cancelled"},
             UNCHANGED <<input, completed, output>>
      PROVE  Abstract!Next
  BY <1>2 DEF Abstract!Next, Abstract!Commit, Abstract!Continue
<1>3. CASE UNCHANGED vars
  BY <1>1, <1>3 DEF vars, wfVars
<1>4. CASE PrepareNode \/ Gather
  BY <1>1, <1>4 DEF PrepareNode, Gather
<1>5. CASE PrepareGarbled \/ Cancel
  BY <1>2, <1>5 DEF PrepareGarbled, Cancel, Running
<1>6. CASE StoreLevel
  BY <1>6, StoreLevelRefines
<1>7. CASE FinishEmpty
  <2>1. /\ wf = "running" /\ input.levels = <<>> /\ Finish(completed)
        /\ input' = input /\ completed' = completed /\ lvl' = lvl
    BY <1>7 DEF FinishEmpty
  <2>2. input.nodes = {}
    BY <2>1, AllPast DEF IInv, TypeOK
  <2>3. DOMAIN completed = {}
    BY <2>2 DEF IInv, TypeOK, Nodes
  <2>4. CASE wf' = "failed" /\ UNCHANGED output
    BY <1>2, <2>1, <2>4
  <2>5. CASE wf' = "completed" /\ output' = [n \in OutputKeys(completed) |-> completed[n]]
    BY <2>1, <2>2, <2>3, <2>5
       DEF Abstract!Next, Abstract!Commit, Abstract!Deliver, OutputKeys
  <2> QED
    BY <2>1, <2>4, <2>5 DEF Finish
<1>8. ASSUME NEW n \in Nodes, ActivityStep(n)
      PROVE  UNCHANGED <<input, wf, completed, output>>
  BY <1>8 DEF ActivityStep, StartAttempt, AttemptTimesOut, AttemptGarbled, AttemptReturns,
              HeartbeatCancels, WorkerCrash, OrphanExits, wfVars
<1>9. CASE Ended
  BY <1>3, <1>9 DEF Ended
<1> QED
  BY <1>1, <1>3, <1>4, <1>5, <1>6, <1>7, <1>8, <1>9 DEF Next, WorkflowStep

\* Whatever the schedule, the graph is executed as the abstract dataflow
\* execution says: one result per node, for good, computed from the results
\* of its dependencies, and a completed run returns the declared outputs.
THEOREM RunImplementsDataflow == Spec => ImplementsDataflow
<1>1. Init => Abstract!Init
  BY DEF Init, Abstract!Init
<1>2. IInv /\ IInv' /\ [Next]_vars => [Abstract!Next]_(Abstract!vars)
  BY StepRefines
<1> QED
  BY <1>1, <1>2, Invariance, PTL DEF Spec, Abstract!Spec, ImplementsDataflow
=============================================================================

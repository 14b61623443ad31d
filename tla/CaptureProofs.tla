---------------------------- MODULE CaptureProofs ----------------------------
(***************************************************************************)
(* Proofs about GraphLevels and Capture, for every set of identifiers,     *)
(* bound and shape of results.                                             *)
(*                                                                         *)
(* First the levels: they respect the dependencies, are as early as they   *)
(* can be, a cycle is only reported when there is one, and what a dispatch *)
(* makes of them is what JobWorkflow takes for granted of its input.  The  *)
(* invariant describes the loop of get_execution_order half way: remaining *)
(* is what is in no level, and once there is a level, whoever remains      *)
(* waits for a node of the last level or for one that remains.             *)
(*                                                                         *)
(* Then the values: every task receives what the body wrote.  Lemmas say   *)
(* what the conversions do to one value; the invariant adds that a node's  *)
(* dependencies are the proxy found in its argument, and that exactly the  *)
(* nodes of the levels that ran have results.                              *)
(***************************************************************************)
EXTENDS Capture, SequenceTheorems, WellFoundedInduction, TLAPS

Ordering == pc \in {"peel", "ordered"} \/ error = "cycle"

Fresh == pc = "capture" => levels = <<>> /\ error = "none"
Checked == Ordering => ~Missing
Covered == Ordering => \A n \in nodes \ remaining : \E i \in 1..Len(levels) : n \in levels[i]
Apart ==
    /\ \A i \in 1..Len(levels) : levels[i] \cap remaining = {}
    /\ \A i, k \in 1..Len(levels) : i # k => levels[i] \cap levels[k] = {}
Earlier ==
    \A i \in 1..Len(levels) : \A n \in levels[i] : \A m \in deps[n] :
        \E k \in 1..(i - 1) : m \in levels[k]
Waiting ==
    levels # <<>> => \A n \in remaining : \E m \in deps[n] :
        m \in levels[Len(levels)] \cup remaining
Stuck == error = "cycle" => remaining # {} /\ \A n \in remaining : deps[n] \cap remaining # {}
Emptied == pc = "ordered" => remaining = {}
NoCycleYet == pc = "peel" => error = "none"

LoopInv ==
    /\ TypeOK /\ Fresh /\ Checked /\ Covered /\ Apart
    /\ Earlier /\ Waiting /\ LevelsAreEarliest /\ Stuck /\ Emptied /\ NoCycleYet

\* The predecessors collected from the edges are the dependencies.
LEMMA PredecessorsAreDeps ==
    ASSUME TypeOK, NEW n \in nodes
    PROVE  Predecessors(n) = deps[n]
<1>1. deps[n] \subseteq Node
  BY DEF TypeOK
<1>2. \A d \in deps[n] : <<d, n>> \in edges
  BY <1>1 DEF TypeOK
<1>3. \A e \in edges : e[2] = n => e[1] \in deps[n]
  BY DEF TypeOK
<1>4. deps[n] \subseteq Predecessors(n)
  <2>1. ASSUME NEW d \in deps[n] PROVE d \in Predecessors(n)
    <3>1. <<d, n>> \in {f \in edges : f[2] = n} /\ <<d, n>>[1] = d
      BY <1>2
    <3> QED BY <3>1 DEF Predecessors
  <2> QED BY <2>1
<1>5. Predecessors(n) \subseteq deps[n]
  BY <1>3 DEF Predecessors
<1> QED BY <1>4, <1>5

\* Capturing a graph keeps the loop's invariant: there is no level yet.
LEMMA CaptureKeeps ==
    ASSUME LoopInv,
           (\E n \in Node : \E D \in SUBSET Node : AddNode(n, D))
              \/ (\E O \in SUBSET Node : SetOutputs(O))
    PROVE  LoopInv'
<1> USE DEF LoopInv
<1>1. CASE \E n \in Node : \E D \in SUBSET Node : AddNode(n, D)
  <2>1. PICK n \in Node, D \in SUBSET Node : AddNode(n, D)
    BY <1>1
  <2> USE <2>1 DEF AddNode
  <2>2. TypeOK'
    <3>1. deps' \in [nodes' -> SUBSET Node]
      BY DEF TypeOK
    <3>2. edges' = {e \in Node \X nodes' : e[1] \in deps'[e[2]]}
      BY DEF TypeOK, DependencyEdges
    <3>3. levels' \in Seq(SUBSET nodes')
      BY DEF Fresh
    <3> QED BY <3>1, <3>2, <3>3 DEF TypeOK
  <2>3. levels = <<>> /\ levels' = <<>> /\ pc' = "capture" /\ error' = "none"
    BY DEF Fresh
  <2>4. Apart' /\ Earlier' /\ LevelsAreEarliest'
    BY <2>3 DEF Apart, Earlier, LevelsAreEarliest
  <2> QED
    BY <2>2, <2>3, <2>4 DEF Fresh, Checked, Covered, Waiting, Stuck, Emptied, Ordering, NoCycleYet
<1>2. CASE \E O \in SUBSET Node : SetOutputs(O)
  <2>1. PICK O \in SUBSET Node : SetOutputs(O)
    BY <1>2
  <2> USE <2>1 DEF SetOutputs
  <2>2. TypeOK'
    BY DEF TypeOK
  <2>3. levels = <<>> /\ levels' = <<>> /\ pc' = "capture" /\ error' = "none"
    BY DEF Fresh
  <2>4. Apart' /\ Earlier' /\ LevelsAreEarliest'
    BY <2>3 DEF Apart, Earlier, LevelsAreEarliest
  <2> QED
    BY <2>2, <2>3, <2>4 DEF Fresh, Checked, Covered, Waiting, Stuck, Emptied, Ordering, NoCycleYet
<1> QED BY <1>1, <1>2

\* Starting get_execution_order establishes it with every node remaining.
LEMMA BeginKeeps ==
    ASSUME LoopInv, BeginOrder
    PROVE  LoopInv'
<1> USE DEF LoopInv
<1>1. levels = <<>> /\ levels' = <<>> /\ UNCHANGED graph /\ pc = "capture" /\ error = "none"
  BY DEF BeginOrder, Fresh
<1>2. TypeOK'
  BY <1>1 DEF BeginOrder, TypeOK, graph
<1>3. Missing' = Missing
  BY <1>1 DEF Missing, graph
<1>4. Apart' /\ Earlier' /\ LevelsAreEarliest' /\ Waiting'
  BY <1>1 DEF Apart, Earlier, LevelsAreEarliest, Waiting
<1>5. CASE Missing
  BY <1>5, <1>1, <1>2, <1>3, <1>4
     DEF BeginOrder, Fresh, Checked, Covered, Stuck, Emptied, Ordering, NoCycleYet
<1>6. CASE ~Missing
  <2>1. remaining' = nodes' /\ error' = "none" /\ pc' \in {"peel", "ordered"}
    BY <1>6, <1>1 DEF BeginOrder, graph
  <2>2. pc' = "ordered" => remaining' = {}
    BY <1>6, <1>1 DEF BeginOrder, graph
  <2> QED
    BY <2>1, <2>2, <1>6, <1>1, <1>2, <1>3, <1>4
       DEF Fresh, Checked, Covered, Stuck, Emptied, Ordering, NoCycleYet
<1> QED BY <1>5, <1>6

\* One round of the loop keeps it.
LEMMA PeelKeeps ==
    ASSUME LoopInv, Peel
    PROVE  LoopInv'
<1> USE DEF LoopInv
<1>1. pc = "peel" /\ UNCHANGED graph /\ error = "none" /\ ~Missing
  BY DEF Peel, Checked, Ordering, NoCycleYet
<1>2. \A n \in nodes : Predecessors(n) = deps[n]
  BY PredecessorsAreDeps
<1>3. \A n \in nodes : deps[n] \subseteq nodes
  BY <1>1 DEF Missing
<1>4. Missing' = Missing /\ nodes' = nodes /\ deps' = deps
  BY <1>1 DEF Missing, graph
<1>5. remaining \subseteq nodes /\ levels \in Seq(SUBSET nodes)
  BY DEF TypeOK
<1>6. Ready = {n \in remaining : deps[n] \cap remaining = {}}
  BY <1>2, <1>5 DEF Ready
<1>7. CASE Cyclic
  <2>1. levels' = levels /\ remaining' = remaining /\ error' = "cycle" /\ pc' = "refused"
    BY <1>7 DEF Peel, Cyclic
  <2>2. TypeOK'
    BY <2>1, <1>1 DEF TypeOK, graph
  <2>3. Stuck'
    BY <2>1, <1>6, <1>7, <1>1, <1>4 DEF Stuck, Cyclic, TypeOK
  <2>4. Apart' /\ Earlier' /\ LevelsAreEarliest' /\ Waiting'
    BY <2>1, <1>4 DEF Apart, Earlier, LevelsAreEarliest, Waiting
  <2>5. Checked' /\ Covered'
    BY <2>1, <1>1, <1>4 DEF Checked, Covered, Ordering
  <2> QED
    BY <2>1, <2>2, <2>3, <2>4, <2>5 DEF Fresh, Emptied, NoCycleYet
<1>8. CASE ~Cyclic
  <2> DEFINE N == Len(levels)
  <2>1. /\ levels' = Append(levels, Ready)
        /\ remaining' = remaining \ Ready
        /\ pc' = IF remaining \subseteq Ready THEN "ordered" ELSE "peel"
        /\ error' = "none"
        /\ Ready # {}
    BY <1>8, <1>1 DEF Peel, Cyclic
  <2>2. Ready \subseteq remaining
    BY <1>6
  <2>3. /\ N \in Nat /\ Len(levels') = N + 1
        /\ levels' \in Seq(SUBSET nodes)
        /\ levels'[N + 1] = Ready
        /\ \A i \in 1..N : levels'[i] = levels[i]
    BY <2>1, <2>2, <1>5
  <2>4. TypeOK'
    <3>1. pc' = "peel" => remaining' # {}
      BY <2>1
    <3> QED BY <3>1, <2>1, <2>3, <1>1, <1>4 DEF TypeOK, graph
  <2>5. Apart'
    <3>1. \A i \in 1..(N + 1) : levels'[i] \cap remaining' = {}
      BY <2>1, <2>3 DEF Apart
    <3>2. \A i \in 1..N : levels'[i] \cap levels'[N + 1] = {}
      BY <2>2, <2>3 DEF Apart
    <3>3. \A i, k \in 1..N : i # k => levels'[i] \cap levels'[k] = {}
      BY <2>3 DEF Apart
    <3> QED BY <3>1, <3>2, <3>3, <2>3 DEF Apart
  <2>6. Covered'
    <3>1. ASSUME NEW n \in nodes \ remaining'
          PROVE  \E i \in 1..(N + 1) : n \in levels'[i]
      <4>1. CASE n \in Ready
        BY <4>1, <2>3
      <4>2. CASE n \notin Ready
        <5>1. n \in nodes \ remaining
          BY <4>2, <2>1
        <5>2. PICK i \in 1..N : n \in levels[i]
          BY <5>1, <1>1 DEF Covered, Ordering
        <5> QED BY <5>2, <2>3
      <4> QED BY <4>1, <4>2
    <3> QED BY <3>1, <2>3, <1>4 DEF Covered
  <2>7. Earlier'
    <3>1. ASSUME NEW i \in 1..N, NEW n \in levels'[i], NEW m \in deps[n]
          PROVE  \E k \in 1..(i - 1) : m \in levels'[k]
      <4>1. PICK k \in 1..(i - 1) : m \in levels[k]
        BY <2>3 DEF Earlier
      <4>2. k \in 1..N /\ levels'[k] = levels[k]
        BY <2>3
      <4> QED BY <4>1, <4>2
    <3>2. ASSUME NEW n \in Ready, NEW m \in deps[n]
          PROVE  \E k \in 1..N : m \in levels'[k]
      <4>1. m \in nodes \ remaining
        BY <1>6, <1>3, <1>5
      <4>2. PICK k \in 1..N : m \in levels[k]
        BY <4>1, <1>1 DEF Covered, Ordering
      <4> QED BY <4>2, <2>3
    <3> QED BY <3>1, <3>2, <2>3, <1>4 DEF Earlier
  <2>8. Waiting'
    <3>1. ASSUME NEW n \in remaining'
          PROVE  \E m \in deps[n] : m \in Ready \cup remaining'
      BY <1>6, <2>1
    <3> QED BY <3>1, <2>3, <1>4 DEF Waiting
  <2>9. LevelsAreEarliest'
    <3>1. ASSUME NEW i \in 1..N
          PROVE  /\ levels'[i] # {}
                 /\ i > 1 => \A n \in levels'[i] : \E m \in levels'[i - 1] : m \in deps[n]
      BY <2>3 DEF LevelsAreEarliest
    <3>2. ASSUME N + 1 > 1, NEW n \in Ready
          PROVE  \E m \in levels'[N] : m \in deps[n]
      <4>1. levels # <<>> /\ n \in remaining
        BY <3>2, <2>2, <1>5
      <4>2. PICK m \in deps[n] : m \in levels[N] \cup remaining
        BY <4>1 DEF Waiting
      <4>3. m \in levels[N]
        BY <4>2, <1>6
      <4> QED BY <4>3, <3>2, <2>3
    <3> QED BY <3>1, <3>2, <2>1, <2>3, <1>4 DEF LevelsAreEarliest
  <2>10. Fresh' /\ Checked' /\ Stuck' /\ NoCycleYet'
    BY <2>1, <1>1, <1>4 DEF Fresh, Checked, Stuck, NoCycleYet
  <2>11. Emptied'
    BY <2>1 DEF Emptied
  <2> QED BY <2>4, <2>5, <2>6, <2>7, <2>8, <2>9, <2>10, <2>11
<1> QED BY <1>7, <1>8

LEMMA LoopStarts == Init => LoopInv
BY DEF Init, LoopInv, TypeOK, Fresh, Checked, Covered, Apart, Earlier, Waiting,
       LevelsAreEarliest, Stuck, Emptied, Ordering, NoCycleYet

LEMMA LoopKept == LoopInv /\ [Next]_vars => LoopInv'
<1>1. LoopInv /\ UNCHANGED vars => LoopInv'
  BY DEF vars, graph, LoopInv, TypeOK, Fresh, Checked, Covered, Apart, Earlier, Waiting,
         LevelsAreEarliest, Stuck, Emptied, Ordering, NoCycleYet, Missing
<1> QED
  BY <1>1, CaptureKeeps, BeginKeeps, PeelKeeps DEF Next, Over

\* The loop's invariant holds in every reachable state.
LEMMA LoopInvariance == Spec => []LoopInv
BY LoopStarts, LoopKept, PTL DEF Spec

---------------------------------------------------------------------------
\* The variables keep their types; the edges always repeat the dependencies
\* (TransportGraph.add_node).
THEOREM GraphTypeCorrect == Spec => []TypeOK
<1>1. LoopInv => TypeOK
  BY DEF LoopInv
<1> QED BY <1>1, LoopInvariance, PTL

\* What the invariant says of the levels once they are complete.
LEMMA OrderedLevels == LoopInv => LevelsRespectDependencies
<1> SUFFICES ASSUME LoopInv, pc = "ordered"
             PROVE  LevelsRespectDependencies
  BY DEF LevelsRespectDependencies
<1> USE DEF LoopInv
<1>1. remaining = {} /\ ~Missing /\ levels \in Seq(SUBSET nodes)
  BY DEF Emptied, Checked, Ordering, TypeOK
<1>2. \A n \in nodes : \E i \in 1..Len(levels) : n \in levels[i]
  BY <1>1 DEF Covered, Ordering
<1>3. ASSUME NEW i \in 1..Len(levels), NEW k \in 1..Len(levels),
             NEW n \in levels[i], NEW m \in levels[k]
      PROVE  (n = m => i = k) /\ (m \in deps[n] => k < i)
  <2>1. n = m => i = k
    BY DEF Apart
  <2>2. ASSUME m \in deps[n] PROVE k < i
    <3>1. PICK j \in 1..(i - 1) : m \in levels[j]
      BY <2>2 DEF Earlier
    <3>2. j \in 1..Len(levels)
      BY <1>1
    <3>3. j = k
      BY <3>1, <3>2 DEF Apart
    <3> QED BY <3>3, <1>1
  <2> QED BY <2>1, <2>2
<1> QED BY <1>1, <1>2, <1>3 DEF LevelsRespectDependencies, Missing

\* Whatever graph get_execution_order accepts, its levels hold every node once,
\* after everything the node depends on.
THEOREM LevelsCorrect == Spec => []LevelsRespectDependencies
<1> QED BY OrderedLevels, LoopInvariance, PTL

\* Every node stands in the earliest level its dependencies allow.
THEOREM LevelsEarliest == Spec => []LevelsAreEarliest
<1>1. LoopInv => LevelsAreEarliest
  BY DEF LoopInv
<1> QED BY <1>1, LoopInvariance, PTL

\* The error "Cycle detected" is raised for graphs with a cycle only.
THEOREM CycleErrorIsReal == Spec => []CycleIsReal
<1>1. LoopInv => CycleIsReal
  <2> SUFFICES ASSUME LoopInv, error = "cycle"
               PROVE  \E S \in SUBSET nodes : S # {} /\ \A n \in S : deps[n] \cap S # {}
    BY DEF CycleIsReal
  <2>1. remaining \in SUBSET nodes
    BY DEF LoopInv, TypeOK
  <2> QED BY <2>1 DEF LoopInv, Stuck
<1> QED BY <1>1, LoopInvariance, PTL

---------------------------------------------------------------------------
(* From the levels to the input of JobWorkflow.                            *)

Dispatched == INSTANCE WorkflowInput

\* The levels as sequences, in any order of their nodes.
Arranges(seqs) ==
    /\ Len(seqs) = Len(levels)
    /\ \A i \in 1..Len(seqs) :
          /\ {seqs[i][j] : j \in 1..Len(seqs[i])} = levels[i]
          /\ \A j, k \in 1..Len(seqs[i]) : seqs[i][j] = seqs[i][k] => j = k

InputOf(seqs, retries) ==
    [nodes |-> nodes, deps |-> deps, retries |-> retries, outputs |-> outputs, levels |-> seqs]

InputsWellFormed ==
    pc = "ordered" =>
        \A seqs \in Seq(Seq(nodes)), retries \in [nodes -> Nat] :
            Arranges(seqs) => Dispatched!WellFormed(InputOf(seqs, retries))

\* JobWorkflow is right to take its input for well formed: whatever graph was
\* captured, in whatever order the nodes of a level are listed.
THEOREM DispatchedInputsWellFormed == Spec => []InputsWellFormed
<1>1. LoopInv => InputsWellFormed
  <2> SUFFICES ASSUME LoopInv, pc = "ordered",
                      NEW seqs \in Seq(Seq(nodes)), NEW retries \in [nodes -> Nat],
                      Arranges(seqs)
               PROVE  Dispatched!WellFormed(InputOf(seqs, retries))
    BY DEF InputsWellFormed
  <2> DEFINE in == InputOf(seqs, retries)
  <2>1. /\ in.nodes = nodes /\ in.deps = deps /\ in.retries = retries
        /\ in.outputs = outputs /\ in.levels = seqs
    BY DEF InputOf
  <2> HIDE DEF in
  <2>2. LevelsRespectDependencies
    BY OrderedLevels
  <2>3. \A i \in 1..Len(seqs) : Dispatched!NodesAt(in, i) = levels[i]
    BY <2>1 DEF Arranges, Dispatched!NodesAt
  <2>4. in.nodes \subseteq Node /\ in.outputs \subseteq Node
    BY <2>1 DEF LoopInv, TypeOK
  <2>5. in.deps \in [in.nodes -> SUBSET in.nodes]
    BY <2>1, <2>2 DEF LoopInv, TypeOK, LevelsRespectDependencies
  <2>6. Len(seqs) = Len(levels)
    BY DEF Arranges
  <2>7. \A n \in in.nodes : \E i \in 1..Len(in.levels) : n \in Dispatched!NodesAt(in, i)
    <3> SUFFICES ASSUME NEW n \in nodes
                 PROVE  \E i \in 1..Len(seqs) : n \in Dispatched!NodesAt(in, i)
      BY <2>1
    <3>1. PICK i \in 1..Len(levels) : n \in levels[i]
      BY <2>2 DEF LevelsRespectDependencies
    <3>2. i \in 1..Len(seqs) /\ n \in Dispatched!NodesAt(in, i)
      BY <2>3, <2>6, <3>1
    <3> QED BY <3>2
  <2>8. \A i, k \in 1..Len(in.levels) :
          \A n \in Dispatched!NodesAt(in, i) : \A m \in Dispatched!NodesAt(in, k) :
             (n = m => i = k) /\ (m \in in.deps[n] => k < i)
    BY <2>1, <2>2, <2>3, <2>6 DEF LevelsRespectDependencies
  <2>9. \A i \in 1..Len(in.levels) : \A j, k \in 1..Len(in.levels[i]) :
          in.levels[i][j] = in.levels[i][k] => j = k
    BY <2>1 DEF Arranges
  <2>10. Dispatched!WellFormed(in)
    BY <2>1, <2>4, <2>5, <2>7, <2>8, <2>9 DEF Dispatched!WellFormed
  <2> QED BY <2>10 DEF in
<1> QED BY <1>1, LoopInvariance, PTL
---------------------------------------------------------------------------
(* Conversions of one value.                                               *)

ValueOf(leaves) == [wraps : Seq(Kinds), leaf : leaves, of : Node \cup {Nil}]
BodyLeaves == {"plain", "opaque", "lock", "proxy"}
ReturnLeaves == BodyLeaves \cup {"awaitable"}
SentLeaves == BodyLeaves \cup {"placeholder"}

\* A set of numbers has a least one.
LEMMA LeastNumber ==
    ASSUME NEW T \in SUBSET Nat, T # {}
    PROVE  \E x \in T : \A y \in T : x <= y
<1>1. PICK x \in T : \A y \in T : ~(<<y, x>> \in OpToRel(<, Nat))
  BY NatLessThanWellFounded, WFMin, Zenon
<1>2. ASSUME NEW y \in T, y < x PROVE <<y, x>> \in OpToRel(<, Nat)
  BY <1>2 DEF OpToRel
<1>3. \A y \in T : ~(y < x)
  BY <1>1, <1>2, Zenon
<1> QED BY <1>3

\* JSON knows one kind of sequence, whatever it is made of.
LEMMA JsonKinds ==
    ASSUME NEW s \in Seq(Kinds)
    PROVE  /\ Json(s) \in Seq(Kinds) /\ Len(Json(s)) = Len(s)
           /\ Json(Json(s)) = Json(s)
<1>1. Json(s) \in Seq(Kinds) /\ Len(Json(s)) = Len(s)
  BY DEF Json, Kinds, Walked, Sequential
<1>2. \A i \in 1..Len(s) : Json(s)[i] = IF s[i] \in Sequential THEN "list" ELSE s[i]
  BY DEF Json
<1>3. Json(Json(s)) = [i \in 1..Len(s) |-> Json(s)[i]]
  BY <1>1, <1>2 DEF Json, Sequential
<1> QED BY <1>1, <1>3

LEMMA JsonConcat ==
    ASSUME NEW s \in Seq(Kinds), NEW t \in Seq(Kinds)
    PROVE  Json(s \o t) = Json(s) \o Json(t)
<1>1. s \o t \in Seq(Kinds) /\ Len(s \o t) = Len(s) + Len(t)
  BY ConcatProperties
<1>2. /\ Json(s) \in Seq(Kinds) /\ Len(Json(s)) = Len(s)
      /\ Json(t) \in Seq(Kinds) /\ Len(Json(t)) = Len(t)
      /\ Json(s \o t) \in Seq(Kinds) /\ Len(Json(s \o t)) = Len(s) + Len(t)
  BY <1>1, JsonKinds
<1>3. /\ Json(s) \o Json(t) \in Seq(Kinds)
      /\ Len(Json(s) \o Json(t)) = Len(s) + Len(t)
  BY <1>2, ConcatProperties
<1>4. ASSUME NEW i \in 1..(Len(s) + Len(t))
      PROVE  Json(s \o t)[i] = (Json(s) \o Json(t))[i]
  <2>1. (s \o t)[i] = IF i <= Len(s) THEN s[i] ELSE t[i - Len(s)]
    BY ConcatProperties
  <2>2. (Json(s) \o Json(t))[i] = IF i <= Len(s) THEN Json(s)[i] ELSE Json(t)[i - Len(s)]
    BY <1>2, ConcatProperties
  <2>3. i <= Len(s) => i \in 1..Len(s)
    OBVIOUS
  <2>4. ~(i <= Len(s)) => i - Len(s) \in 1..Len(t)
    OBVIOUS
  <2> QED BY <1>1, <2>1, <2>2, <2>3, <2>4 DEF Json
<1> QED BY <1>2, <1>3, <1>4, SeqEqual

LEMMA SplitSeq ==
    ASSUME NEW S, NEW s \in Seq(S), NEW k \in 0..Len(s)
    PROVE  SubSeq(s, 1, k) \o SubSeq(s, k + 1, Len(s)) = s
<1>1. 1 \in 1..(Len(s) + 1) /\ k \in (1 - 1)..Len(s) /\ Len(s) \in k..Len(s)
  OBVIOUS
<1>2. SubSeq(s, 1, k) \o SubSeq(s, k + 1, Len(s)) = SubSeq(s, 1, Len(s))
  BY <1>1, ConcatAdjacentSubSeq
<1> QED BY <1>2, SubSeqFull

\* What is converted to JSON and what is packed after it make up the whole.
LEMMA JsonParts ==
    ASSUME NEW s \in Seq(Kinds), NEW c \in 1..(Len(s) + 1)
    PROVE  /\ SubSeq(s, 1, c - 1) \in Seq(Kinds) /\ SubSeq(s, c, Len(s)) \in Seq(Kinds)
           /\ Json(Json(SubSeq(s, 1, c - 1)) \o SubSeq(s, c, Len(s))) = Json(s)
<1> DEFINE front == SubSeq(s, 1, c - 1)
           back  == SubSeq(s, c, Len(s))
<1>1. front \in Seq(Kinds) /\ back \in Seq(Kinds)
  OBVIOUS
<1>2. front \o back = s
  <2>1. c - 1 \in 0..Len(s) /\ c - 1 + 1 = c
    OBVIOUS
  <2> QED BY <2>1, SplitSeq
<1> HIDE DEF front, back
<1>3. Json(Json(front) \o back) = Json(Json(front)) \o Json(back)
  BY <1>1, JsonKinds, JsonConcat
<1>4. Json(Json(front) \o back) = Json(front) \o Json(back)
  BY <1>1, <1>3, JsonKinds
<1>5. Json(front) \o Json(back) = Json(s)
  BY <1>1, <1>2, JsonConcat
<1> QED BY <1>1, <1>4, <1>5 DEF front, back

\* Where pickling starts, in an argument and in a result.
LEMMA CutRange ==
    ASSUME NEW v \in ValueOf(SentLeaves)
    PROVE  /\ Cut(v) \in 1..(Len(v.wraps) + 2)
           /\ \A i \in 1..Len(v.wraps) : ~Opens(v, i) => Cut(v) <= i
           /\ v.leaf \in {"opaque", "lock"} => Cut(v) <= Len(v.wraps) + 1
<1> DEFINE closed == {i \in 1..Len(v.wraps) : ~Opens(v, i)}
<1>1. Len(v.wraps) \in Nat
  BY DEF ValueOf
<1>2. CASE closed # {}
  <2>1. closed \in SUBSET Nat
    BY <1>1
  <2>2. \E x \in closed : \A y \in closed : x <= y
    BY <1>2, <2>1, LeastNumber
  <2>3. Cut(v) \in closed /\ \A j \in closed : Cut(v) <= j
    BY <1>2, <2>2 DEF Cut
  <2> QED BY <2>3, <1>1
<1>3. CASE closed = {}
  <2>1. Cut(v) = IF v.leaf \in {"opaque", "lock"} THEN Len(v.wraps) + 1 ELSE Len(v.wraps) + 2
    BY <1>3 DEF Cut
  <2> QED BY <2>1, <1>1, <1>3
<1> QED BY <1>2, <1>3

LEMMA ResultCutRange ==
    ASSUME NEW v \in ValueOf({"opaque"})
    PROVE  ResultCut(v) \in 1..(Len(v.wraps) + 1)
<1> DEFINE closed == {i \in 1..Len(v.wraps) : v.wraps[i] \notin Sequential \union {"dict"}}
<1>1. Len(v.wraps) \in Nat
  BY DEF ValueOf
<1>2. CASE closed # {}
  <2>1. closed \in SUBSET Nat
    BY <1>1
  <2>2. \E x \in closed : \A y \in closed : x <= y
    BY <1>2, <2>1, LeastNumber
  <2>3. ResultCut(v) \in closed
    BY <1>2, <2>2 DEF ResultCut
  <2> QED BY <2>3, <1>1
<1>3. CASE closed = {}
  BY <1>3, <1>1 DEF ResultCut
<1> QED BY <1>2, <1>3

\* Encoding keeps a value up to the kind of its sequences, wherever pickling
\* starts (_transport_arg, _serialize_value).
LEMMA EncodingKeeps ==
    ASSUME NEW L, NEW v \in ValueOf(L), NEW c \in 1..(Len(v.wraps) + 2)
    PROVE  LET e == Encoded(v, c)
           IN  /\ e = [wraps |-> e.wraps, packed |-> e.packed]
               /\ e.wraps \in Seq(Kinds) /\ e.packed.wraps \in Seq(Kinds)
               /\ e.packed.leaf = v.leaf /\ e.packed.of = v.of
               /\ Json(e.wraps \o e.packed.wraps) = Json(v.wraps)
               /\ c > Len(v.wraps) + 1 => e.wraps = Json(v.wraps) /\ e.packed.wraps = <<>>
<1> DEFINE e == Encoded(v, c)
<1>1. v.wraps \in Seq(Kinds) /\ Len(v.wraps) \in Nat
  BY DEF ValueOf
<1>2. Json(v.wraps) \in Seq(Kinds) /\ Json(Json(v.wraps)) = Json(v.wraps)
  BY <1>1, JsonKinds
<1>3. CASE c > Len(v.wraps) + 1
  <2>1. /\ e.wraps = Json(v.wraps) /\ e.packed.wraps = <<>>
        /\ e.packed.leaf = v.leaf /\ e.packed.of = v.of
        /\ e = [wraps |-> e.wraps, packed |-> e.packed]
    BY <1>3 DEF Encoded, Value
  <2>2. e.wraps \o e.packed.wraps = Json(v.wraps) /\ <<>> \in Seq(Kinds)
    BY <2>1, <1>2, ConcatEmptySeq
  <2> QED BY <2>1, <2>2, <1>2
<1>4. CASE c <= Len(v.wraps) + 1
  <2>1. c \in 1..(Len(v.wraps) + 1)
    BY <1>4, <1>1
  <2>2. /\ e.wraps = Json(SubSeq(v.wraps, 1, c - 1))
        /\ e.packed.wraps = SubSeq(v.wraps, c, Len(v.wraps))
        /\ e.packed.leaf = v.leaf /\ e.packed.of = v.of
        /\ e = [wraps |-> e.wraps, packed |-> e.packed]
    <3>1. ~(c > Len(v.wraps) + 1)
      BY <1>4, <1>1
    <3>2. e = [wraps |-> Json(Upto(v, c - 1)), packed |-> From(v, c)]
      BY <3>1 DEF Encoded
    <3> HIDE DEF e
    <3> QED BY <3>2 DEF Value, From, Upto
  <2>3. /\ e.packed.wraps \in Seq(Kinds)
        /\ Json(e.wraps \o e.packed.wraps) = Json(v.wraps)
    BY <2>1, <2>2, <1>1, JsonParts
  <2>4. e.wraps \in Seq(Kinds)
    BY <2>1, <2>2, <1>1, JsonParts, JsonKinds
  <2> QED BY <2>2, <2>3, <2>4, <1>1, <1>4
<1> QED BY <1>1, <1>3, <1>4

\* A proxy that the graph does not know is not sent, unless it is in an object
\* in an object (_hides_task_proxy).
LEMMA HiddenIsRefused ==
    ASSUME NEW v \in ValueOf(BodyLeaves), v.leaf = "proxy", ~Nested(v), ~Found(v)
    PROVE  CannotSend(v)
<1>1. v.wraps \in Seq(Kinds) /\ Len(v.wraps) \in Nat /\ v \in ValueOf(SentLeaves)
  BY DEF ValueOf, SentLeaves
<1>2. PICK i \in 1..Len(v.wraps) : v.wraps[i] \notin Walked
  BY DEF Found, Holds
<1>3. ~Opens(v, i)
  BY <1>2 DEF Opens, Walked, Sequential
<1>4. Cut(v) \in Nat /\ 1 <= Cut(v) /\ Cut(v) <= Len(v.wraps)
  BY <1>1, <1>3, CutRange
<1> DEFINE c == Cut(v)
           w == From(v, c)
<1> HIDE DEF c
<1>5. c \in Nat /\ 1 <= c /\ c <= Len(v.wraps)
  BY <1>4 DEF c
<1>6. /\ w.leaf = "proxy"
      /\ Len(w.wraps) = Len(v.wraps) - c + 1
      /\ \A j \in 1..Len(w.wraps) : w.wraps[j] = v.wraps[c + j - 1]
  BY <1>1, <1>5 DEF From, Value
<1>7. ~Nested(w)
  <2>1. ASSUME NEW j \in 1..Len(w.wraps), NEW k \in 1..Len(w.wraps), j < k,
               w.wraps[j] = "object", w.wraps[k] = "object"
        PROVE  FALSE
    <3>1. /\ c + j - 1 \in 1..Len(v.wraps) /\ c + k - 1 \in 1..Len(v.wraps)
          /\ c + j - 1 < c + k - 1
      BY <2>1, <1>1, <1>5, <1>6
    <3>2. v.wraps[c + j - 1] = "object" /\ v.wraps[c + k - 1] = "object"
      BY <2>1, <1>6
    <3> QED BY <3>1, <3>2 DEF Nested
  <2> QED BY <2>1 DEF Nested
<1>8. HidesProxy(w)
  BY <1>6, <1>7 DEF HidesProxy
<1> QED BY <1>4, <1>8, <1>1 DEF CannotSend, c, w

\* What a task returned, encoded and decoded, is what it returned.
LEMMA ResultKeeps ==
    ASSUME NEW n, results[n] \in ValueOf({"opaque"}), results[n].of = n
    PROVE  LET e == ResultEncoded(n)
           IN  /\ e = [wraps |-> e.wraps, packed |-> e.packed]
               /\ e.wraps \in Seq(Kinds) /\ e.packed.wraps \in Seq(Kinds)
               /\ e.packed.leaf = "opaque" /\ e.packed.of = n
               /\ Json(e.wraps \o e.packed.wraps) = Json(results[n].wraps)
<1>1. results[n].leaf = "opaque"
  BY DEF ValueOf
<1>2. ResultCut(results[n]) \in 1..(Len(results[n].wraps) + 1) /\ Len(results[n].wraps) \in Nat
  BY ResultCutRange DEF ValueOf
<1>3. ResultCut(results[n]) \in 1..(Len(results[n].wraps) + 2)
  BY <1>2
<1> QED BY <1>1, <1>3, EncodingKeeps DEF ResultEncoded

\* What a body passes to a task arrives, when it can be sent, and a proxy in
\* it is one that the graph knows.
LEMMA ArgumentArrives ==
    ASSUME NEW v \in ValueOf(BodyLeaves), ~Nested(v), ~CannotSend(Serialized(v)),
           Found(v) => results[v.of] \in ValueOf({"opaque"}) /\ results[v.of].of = v.of
    PROVE  /\ v.leaf = "proxy" => Found(v)
           /\ Alike(Decoded(Resolved(Encoded(Serialized(v), Cut(Serialized(v))))), v)
<1> DEFINE s == Serialized(v)
           e == Encoded(s, Cut(s))
<1>1. v.leaf = "proxy" => Found(v)
  BY HiddenIsRefused DEF Serialized
<1>2. s \in ValueOf(SentLeaves) /\ s.wraps = v.wraps /\ s.of = v.of
  BY DEF Serialized, ValueOf, SentLeaves
<1>3. v.wraps \in Seq(Kinds) /\ Len(v.wraps) \in Nat
  BY DEF ValueOf
<1>4. Cut(s) \in 1..(Len(s.wraps) + 2)
  BY <1>2, CutRange
<1>5. /\ e = [wraps |-> e.wraps, packed |-> e.packed]
      /\ e.wraps \in Seq(Kinds) /\ e.packed.wraps \in Seq(Kinds)
      /\ e.packed.leaf = s.leaf /\ e.packed.of = v.of
      /\ Json(e.wraps \o e.packed.wraps) = Json(v.wraps)
      /\ Cut(s) > Len(v.wraps) + 1 => e.wraps = Json(v.wraps) /\ e.packed.wraps = <<>>
  BY <1>2, <1>4, EncodingKeeps
<1>6. ~CannotSend(s)
  OBVIOUS
<1> HIDE DEF e
<1>7. CASE Found(v)
  <2> DEFINE r == results[v.of]
             f == ResultEncoded(v.of)
  <2>1. s.leaf = "placeholder" /\ v.leaf = "proxy"
    BY <1>7 DEF Serialized, ValueOf, Found
  <2>2. Cut(s) > Len(v.wraps) + 1
    BY <2>1, <1>6, <1>2, <1>3, <1>4 DEF CannotSend
  <2>3. e.wraps = Json(v.wraps)
    BY <1>5, <2>2
  <2>4. /\ f = [wraps |-> f.wraps, packed |-> f.packed]
        /\ f.wraps \in Seq(Kinds) /\ f.packed.wraps \in Seq(Kinds)
        /\ f.packed.leaf = "opaque" /\ f.packed.of = v.of
        /\ Json(f.wraps \o f.packed.wraps) = Json(r.wraps)
    BY <1>7, ResultKeeps
  <2>5. r.leaf = "opaque" /\ r.wraps \in Seq(Kinds)
    BY <1>7 DEF ValueOf
  <2> DEFINE d == Decoded(Resolved(e))
  <2>6. /\ Resolved(e).wraps = e.wraps \o f.wraps
        /\ Resolved(e).packed = f.packed
    <3>1. Resolved(e) = [f EXCEPT !.wraps = e.wraps \o f.wraps]
      BY <1>5, <2>1 DEF Resolved
    <3> HIDE DEF f
    <3> QED BY <3>1, <2>4
  <2>7. d = Value((Json(v.wraps) \o f.wraps) \o f.packed.wraps, "opaque", v.of)
    BY <2>3, <2>4, <2>6 DEF Decoded
  <2> HIDE DEF f
  <2>8. Json(d.wraps) = Json(v.wraps \o r.wraps)
    <3>1. Json(v.wraps) \in Seq(Kinds) /\ Json(Json(v.wraps)) = Json(v.wraps)
      BY <1>3, JsonKinds
    <3>2. (Json(v.wraps) \o f.wraps) \o f.packed.wraps = Json(v.wraps) \o (f.wraps \o f.packed.wraps)
      <4>1. \A x, y, z \in Seq(Kinds) : (x \o y) \o z = x \o (y \o z)
        BY ConcatAssociative
      <4> QED BY <4>1, <3>1, <2>4
    <3>3. f.wraps \o f.packed.wraps \in Seq(Kinds)
      BY <2>4, ConcatProperties
    <3>4. Json(Json(v.wraps) \o (f.wraps \o f.packed.wraps))
             = Json(Json(v.wraps)) \o Json(f.wraps \o f.packed.wraps)
      BY <3>1, <3>3, JsonConcat
    <3>5. Json(v.wraps \o r.wraps) = Json(v.wraps) \o Json(r.wraps)
      BY <1>3, <2>5, JsonConcat
    <3> QED BY <2>7, <3>1, <3>2, <3>4, <3>5, <2>4 DEF Value
  <2>9. Meant(v) = Value(Json(v.wraps \o r.wraps), "opaque", v.of)
    BY <2>1, <2>5 DEF Meant, Substituted, Value
  <2>10. d.leaf = "opaque" /\ d.of = v.of
    BY <2>7 DEF Value
  <2> QED BY <1>1, <2>8, <2>9, <2>10 DEF Alike, e
<1>8. CASE ~Found(v)
  <2>1. v.leaf # "proxy" /\ s = v /\ s.leaf # "placeholder"
    BY <1>1, <1>8 DEF Serialized, ValueOf, BodyLeaves
  <2>2. Decoded(Resolved(e)) = Value(e.wraps \o e.packed.wraps, v.leaf, v.of)
    BY <2>1, <1>5 DEF Decoded, Resolved
  <2>3. Meant(v) = Value(Json(v.wraps), v.leaf, v.of)
    BY <2>1 DEF Meant, Substituted
  <2> QED BY <1>1, <1>5, <2>2, <2>3 DEF Alike, Value, e
<1> QED BY <1>7, <1>8

---------------------------------------------------------------------------
(* The session.                                                            *)

\* The nodes of the levels that have run.
Ran == {n \in nodes : \E i \in 1..(level - 1) : n \in levels[i]}

SessionType ==
    /\ builder \in {"body", "methods"}
    /\ stage \in {"body", "dispatch", "running", "ended", "refused"}
    /\ level \in 1..(Len(levels) + 1)
NothingRan ==
    stage \notin {"running", "ended"} => level = 1 /\ got = <<>> /\ results = <<>>
ByMethods == builder = "methods" => stage = "body"
Arguments ==
    builder = "body" =>
        \A n \in nodes : written[n] \in ValueOf(BodyLeaves) /\ deps[n] = Dependencies(written[n])
Returned ==
    stage \in {"dispatch", "running", "ended"} =>
        returned \in ValueOf(ReturnLeaves) /\ Outputs(returned) \subseteq nodes
Sendable ==
    stage \in {"running", "ended"} => builder = "body" /\ pc = "ordered" /\ ~CannotPrepare
ResultsOfRan ==
    /\ DOMAIN results = Ran /\ DOMAIN got = Ran
    /\ \A n \in Ran : results[n] \in ValueOf({"opaque"}) /\ results[n].of = n
AllRan == stage = "ended" => level = Len(levels) + 1
Arrived ==
    \A n \in Ran : ~Nested(written[n]) =>
        /\ written[n].leaf = "proxy" => written[n].of \in Ran
        /\ Alike(got[n], written[n])

SessionInv ==
    /\ SessionType /\ NothingRan /\ ByMethods /\ Arguments /\ Returned
    /\ Sendable /\ ResultsOfRan /\ AllRan /\ Arrived

CaptureInv == LoopInv /\ SessionInv

\* What a body writes is a value, and its proxies are nodes.
LEMMA BodyValues ==
    ASSUME TypeOK, NEW leaves, leaves \subseteq Leaves \cup {<<"awaitable", Nil>>},
           NEW v \in Values(leaves)
    PROVE  /\ v \in ValueOf(ReturnLeaves)
           /\ leaves \subseteq Leaves => v \in ValueOf(BodyLeaves)
           /\ v.leaf = "proxy" => v.of \in Node
<1>1. PICK w \in UNION {Shapes(n) : n \in 0..WrapsLeft}, l \in leaves : v = Value(w, l[1], l[2])
  BY DEF Values
<1>2. w \in Seq(Kinds)
  <2>1. PICK n \in 0..WrapsLeft : w \in Shapes(n)
    BY <1>1
  <2>2. PICK m \in 0..n : w \in [1..m -> Kinds]
    BY <2>1 DEF Shapes, SeqOf
  <2>3. m \in Nat
    BY <2>2
  <2> QED BY <2>2, <2>3
<1>3. Foreign \in Node /\ nodes \subseteq Node
  BY CaptureAssumption DEF TypeOK
<1>4. ASSUME NEW k \in Leaves
      PROVE  k[1] \in BodyLeaves /\ k[2] \in Node \cup {Nil} /\ (k[1] = "proxy" => k[2] \in Node)
  BY <1>3 DEF Leaves, BodyLeaves
<1>5. l \in Leaves \/ l = <<"awaitable", Nil>>
  BY <1>1
<1>6. l[1] \in ReturnLeaves /\ l[2] \in Node \cup {Nil} /\ (l[1] = "proxy" => l[2] \in Node)
  BY <1>4, <1>5 DEF ReturnLeaves
<1>7. leaves \subseteq Leaves => l[1] \in BodyLeaves
  BY <1>4, <1>1
<1> QED BY <1>1, <1>2, <1>6, <1>7 DEF Value, ValueOf

\* A step of the session is a step of the graph, or leaves it alone.
LEMMA SessionSteps ==
    ASSUME LoopInv, [CaptureNext]_<<vars, session>>
    PROVE  [Next]_vars
<1>1. TypeOK
  BY DEF LoopInv
<1>2. ASSUME NEW n \in Node, NEW v \in Values(Leaves), CallTask(n, v)
      PROVE  Next
  <2>1. Dependencies(v) \in SUBSET Node
    BY <1>1, BodyValues DEF Dependencies, Found
  <2> QED BY <1>2, <2>1 DEF CallTask, Next
<1>3. ASSUME NEW r, Return(r)
      PROVE  [Next]_vars
  <2>1. Outputs(r) \subseteq nodes => Outputs(r) \in SUBSET Node
    BY <1>1 DEF TypeOK
  <2> QED BY <1>3, <2>1 DEF Return, Next
<1>4. CASE InBody
  BY <1>2, <1>3, <1>4 DEF InBody, OrderNodes, Dispatch, RunLevel, Complete, Next
<1>5. CASE UseMethods
  BY <1>5 DEF UseMethods
<1> QED BY <1>4, <1>5 DEF CaptureNext, vars

\* While nothing has run, only the types and the arguments matter.
LEMMA BeforeRunning ==
    ASSUME LoopInv', SessionType, NothingRan, stage \notin {"running", "ended"},
           UNCHANGED <<level, got, results>>, stage' \notin {"running", "ended"},
           stage' \in {"body", "dispatch", "refused"}, builder' \in {"body", "methods"}
    PROVE  /\ SessionType' /\ NothingRan' /\ Sendable' /\ ResultsOfRan' /\ AllRan' /\ Arrived'
<1>1. level' = 1 /\ got' = <<>> /\ results' = <<>>
  BY DEF NothingRan
<1>2. Len(levels') \in Nat
  BY DEF LoopInv, TypeOK
<1>3. SessionType'
  BY <1>1, <1>2 DEF SessionType
<1>4. Ran' = {}
  BY <1>1 DEF Ran
<1> QED
  BY <1>1, <1>3, <1>4 DEF NothingRan, Sendable, ResultsOfRan, AllRan, Arrived

LEMMA CallTaskKeeps ==
    ASSUME CaptureInv, LoopInv', builder = "body", NEW n \in Node \ nodes,
           NEW v \in Values(Leaves), CallTask(n, v)
    PROVE  SessionInv'
<1> USE DEF CaptureInv, SessionInv
<1>1. stage = "body" /\ stage' = "body" /\ builder' = builder /\ UNCHANGED <<level, got, results>>
  BY DEF CallTask
<1>2. /\ SessionType' /\ NothingRan' /\ Sendable' /\ ResultsOfRan' /\ AllRan' /\ Arrived'
  BY <1>1, BeforeRunning DEF SessionType
<1>3. Arguments'
  <2>1. v \in ValueOf(BodyLeaves)
    BY BodyValues DEF LoopInv
  <2>2. ASSUME NEW m \in nodes'
        PROVE  written'[m] \in ValueOf(BodyLeaves) /\ deps'[m] = Dependencies(written'[m])
    <3>1. CASE m = n
      BY <2>1, <3>1 DEF CallTask, AddNode
    <3>2. CASE m # n
      <4>1. m \in nodes /\ written'[m] = written[m] /\ deps'[m] = deps[m]
        BY <3>2 DEF CallTask, AddNode
      <4> QED BY <4>1 DEF Arguments
    <3> QED BY <3>1, <3>2
  <2> QED BY <2>2 DEF Arguments
<1> QED BY <1>1, <1>2, <1>3 DEF ByMethods, Returned

LEMMA ReturnKeeps ==
    ASSUME CaptureInv, LoopInv', builder = "body",
           NEW r \in Values(Leaves \union {<<"awaitable", Nil>>}), Return(r)
    PROVE  SessionInv'
<1> USE DEF CaptureInv, SessionInv
<1>1. /\ stage = "body" /\ stage' \in {"dispatch", "refused"} /\ builder' = builder
      /\ UNCHANGED <<level, got, results, nodes, deps, written>>
      /\ returned' = r /\ (stage' = "dispatch" => Outputs(r) \subseteq nodes)
  BY DEF Return, SetOutputs, vars, graph
<1>2. /\ SessionType' /\ NothingRan' /\ Sendable' /\ ResultsOfRan' /\ AllRan' /\ Arrived'
  BY <1>1, BeforeRunning DEF SessionType
<1>3. r \in ValueOf(ReturnLeaves)
  BY BodyValues DEF LoopInv
<1>4. Returned'
  BY <1>1, <1>3 DEF Returned
<1> QED BY <1>1, <1>2, <1>4 DEF ByMethods, Arguments

LEMMA OrderNodesKeeps ==
    ASSUME CaptureInv, LoopInv', OrderNodes
    PROVE  SessionInv'
<1> USE DEF CaptureInv, SessionInv
<1>1. /\ stage = "dispatch" /\ UNCHANGED session /\ UNCHANGED <<nodes, deps>>
  BY DEF OrderNodes, BeginOrder, Peel, graph
<1>2. /\ SessionType' /\ NothingRan' /\ Sendable' /\ ResultsOfRan' /\ AllRan' /\ Arrived'
  BY <1>1, BeforeRunning DEF SessionType, session
<1> QED BY <1>1, <1>2 DEF ByMethods, Arguments, Returned, session

LEMMA DispatchKeeps ==
    ASSUME CaptureInv, LoopInv', builder = "body", Dispatch
    PROVE  SessionInv'
<1> USE DEF CaptureInv, SessionInv
<1>1. /\ stage = "dispatch" /\ pc = "ordered" /\ UNCHANGED vars
      /\ UNCHANGED <<builder, written, returned, level, got, results>>
      /\ stage' = IF CannotPrepare THEN "refused" ELSE "running"
  BY DEF Dispatch
<1>2. CannotPrepare' = CannotPrepare /\ Ran' = Ran
  BY <1>1 DEF CannotPrepare, Ran, vars, graph
<1>3. ResultsOfRan' /\ Arrived'
  <2>1. level = 1 /\ got = <<>> /\ results = <<>>
    BY <1>1 DEF NothingRan
  <2>2. Ran = {}
    BY <2>1 DEF Ran
  <2> QED BY <1>1, <1>2, <2>1, <2>2 DEF ResultsOfRan, Arrived
<1> QED
  BY <1>1, <1>2, <1>3 DEF vars, graph, SessionType, NothingRan, ByMethods, Arguments, Returned,
         Sendable, AllRan

\* What a level needs has run before it.
LEMMA LevelReady ==
    ASSUME CaptureInv, stage = "running", level <= Len(levels), NEW n \in levels[level]
    PROVE  /\ n \in nodes /\ n \notin Ran
           /\ written[n] \in ValueOf(BodyLeaves) /\ ~CannotSend(Serialized(written[n]))
           /\ Found(written[n]) => written[n].of \in Ran
<1> USE DEF CaptureInv, SessionInv, LoopInv
<1>1. level \in 1..Len(levels) /\ levels \in Seq(SUBSET nodes) /\ Len(levels) \in Nat
  BY DEF SessionType, TypeOK
<1>2. n \in nodes
  BY <1>1
<1>3. builder = "body" /\ ~CannotPrepare
  BY DEF Sendable
<1>4. written[n] \in ValueOf(BodyLeaves) /\ ~CannotSend(Serialized(written[n]))
  BY <1>2, <1>3 DEF Arguments, CannotPrepare
<1>5. n \notin Ran
  <2>1. ASSUME NEW i \in 1..(level - 1), n \in levels[i] PROVE FALSE
    <3>1. i \in 1..Len(levels) /\ i # level
      BY <1>1
    <3> QED BY <3>1, <2>1, <1>1 DEF Apart
  <2> QED BY <2>1 DEF Ran
<1>6. ASSUME Found(written[n]) PROVE written[n].of \in Ran
  <2>1. written[n].of \in deps[n]
    BY <1>2, <1>3, <1>6 DEF Arguments, Dependencies
  <2>2. PICK k \in 1..(level - 1) : written[n].of \in levels[k]
    BY <2>1, <1>1 DEF Earlier
  <2>3. k \in 1..Len(levels)
    BY <1>1
  <2>4. levels[k] \subseteq nodes
    BY <2>3, <1>1
  <2> QED BY <2>2, <2>4 DEF Ran
<1> QED BY <1>2, <1>4, <1>5, <1>6

LEMMA RunLevelKeeps ==
    ASSUME CaptureInv, LoopInv', RunLevel
    PROVE  SessionInv'
<1> USE DEF CaptureInv, SessionInv
<1> DEFINE now == levels[level]
<1>1. /\ stage = "running" /\ level <= Len(levels) /\ level' = level + 1
      /\ UNCHANGED vars /\ UNCHANGED <<builder, stage, written, returned>>
      /\ got' = [n \in DOMAIN got \union now |->
                   IF n \in now THEN Decoded(Resolved(Sent(n))) ELSE got[n]]
  BY DEF RunLevel
<1>2. PICK shape \in [now -> ResultWraps] :
        results' = [n \in DOMAIN results \union now |->
                      IF n \in now THEN Value(shape[n], "opaque", n) ELSE results[n]]
  BY DEF RunLevel
<1>3. level \in 1..Len(levels) /\ Len(levels) \in Nat /\ levels \in Seq(SUBSET nodes) /\ nodes \subseteq Node
  BY <1>1 DEF SessionType, LoopInv, TypeOK
<1>4. now \subseteq nodes /\ now \cap Ran = {}
  BY <1>1, LevelReady
<1>5. Ran' = Ran \cup now
  <2>1. 1..(level' - 1) = 1..(level - 1) \cup {level} /\ levels' = levels /\ nodes' = nodes
    BY <1>1, <1>3 DEF vars, graph
  <2> QED BY <2>1, <1>4 DEF Ran
<1>6. DOMAIN results = Ran /\ DOMAIN got = Ran
  BY DEF ResultsOfRan
<1>7. /\ DOMAIN results' = Ran' /\ DOMAIN got' = Ran'
      /\ \A n \in Ran : results'[n] = results[n] /\ got'[n] = got[n]
  BY <1>1, <1>2, <1>4, <1>5, <1>6
<1>8. ASSUME NEW n \in now
      PROVE  results'[n] \in ValueOf({"opaque"}) /\ results'[n].of = n
  <2>1. results'[n] = Value(shape[n], "opaque", n)
    BY <1>2
  <2>2. shape[n] \in Seq(Kinds) /\ n \in Node
    BY ResultWrapsAssumption, <1>3, <1>4
  <2> QED BY <2>1, <2>2 DEF Value, ValueOf
<1>9. ResultsOfRan'
  BY <1>5, <1>7, <1>8 DEF ResultsOfRan
<1>10. Arrived'
  <2>1. ASSUME NEW n \in now, ~Nested(written[n])
        PROVE  /\ written[n].leaf = "proxy" => written[n].of \in Ran
               /\ Alike(got[n], written[n])'
    <3>1. /\ written[n] \in ValueOf(BodyLeaves) /\ ~CannotSend(Serialized(written[n]))
          /\ Found(written[n]) => written[n].of \in Ran
      BY <1>1, LevelReady
    <3>2. Found(written[n]) =>
             results[written[n].of] \in ValueOf({"opaque"}) /\ results[written[n].of].of = written[n].of
      BY <3>1 DEF ResultsOfRan
    <3>3. /\ written[n].leaf = "proxy" => Found(written[n])
          /\ Alike(Decoded(Resolved(Sent(n))), written[n])
      BY <2>1, <3>1, <3>2, ArgumentArrives DEF Sent
    <3>4. written[n].leaf = "proxy" => results'[written[n].of] = results[written[n].of]
      BY <3>1, <3>3, <1>7
    <3>5. got'[n] = Decoded(Resolved(Sent(n)))
      BY <1>1
    <3>6. Substituted(written[n])' = Substituted(written[n])
      BY <3>4, <1>1 DEF Substituted
    <3> QED BY <3>1, <3>3, <3>5, <3>6, <1>1 DEF Alike, Meant
  <2>2. ASSUME NEW n \in Ran, ~Nested(written[n])
        PROVE  /\ written[n].leaf = "proxy" => written[n].of \in Ran
               /\ Alike(got[n], written[n])'
    <3>1. written[n].leaf = "proxy" => written[n].of \in Ran
      BY <2>2 DEF Arrived
    <3>2. Alike(got[n], written[n]) /\ got'[n] = got[n]
      BY <2>2, <1>7 DEF Arrived
    <3>3. Substituted(written[n])' = Substituted(written[n])
      BY <3>1, <1>7, <1>1 DEF Substituted
    <3> QED BY <3>1, <3>2, <3>3, <1>1 DEF Alike, Meant
  <2> QED BY <2>1, <2>2, <1>1, <1>5 DEF Arrived
<1>11. SessionType' /\ AllRan'
  BY <1>1, <1>3 DEF vars, SessionType, AllRan
<1>12. Sendable'
  BY <1>1 DEF Sendable, CannotPrepare, vars, graph
<1> QED
  BY <1>1, <1>9, <1>10, <1>11, <1>12
     DEF vars, graph, NothingRan, ByMethods, Arguments, Returned

LEMMA CompleteKeeps ==
    ASSUME CaptureInv, LoopInv', Complete
    PROVE  SessionInv'
<1> USE DEF CaptureInv, SessionInv
<1>1. /\ stage = "running" /\ level > Len(levels) /\ stage' = "ended" /\ UNCHANGED vars
      /\ UNCHANGED <<builder, written, returned, level, got, results>>
  BY DEF Complete
<1>2. level = Len(levels) + 1
  BY <1>1 DEF SessionType, LoopInv, TypeOK
<1>3. Ran' = Ran /\ CannotPrepare' = CannotPrepare /\ levels' = levels
  BY <1>1 DEF Ran, CannotPrepare, vars, graph
<1>4. Arrived' /\ ResultsOfRan'
  BY <1>1, <1>3 DEF Arrived, ResultsOfRan, Alike, Meant, Substituted
<1> QED
  BY <1>1, <1>2, <1>3, <1>4
     DEF vars, graph, SessionType, NothingRan, ByMethods, Arguments, Returned, Sendable, AllRan

LEMMA NothingChanges ==
    ASSUME CaptureInv, LoopInv', UNCHANGED <<vars, session>>
    PROVE  SessionInv'
<1> USE DEF CaptureInv, SessionInv, vars, graph, session
<1>1. Ran' = Ran /\ CannotPrepare' = CannotPrepare /\ levels' = levels
  BY DEF Ran, CannotPrepare
<1>2. Arrived' /\ ResultsOfRan'
  BY <1>1 DEF Arrived, ResultsOfRan, Alike, Meant, Substituted
<1> QED
  BY <1>1, <1>2 DEF SessionType, NothingRan, ByMethods, Arguments, Returned, Sendable, AllRan

LEMMA UseMethodsKeeps ==
    ASSUME CaptureInv, LoopInv', UseMethods
    PROVE  SessionInv'
<1> USE DEF CaptureInv, SessionInv
<1>1. builder = "methods" /\ UNCHANGED session /\ stage = "body"
  BY DEF UseMethods, ByMethods
<1>2. /\ SessionType' /\ NothingRan' /\ Sendable' /\ ResultsOfRan' /\ AllRan' /\ Arrived'
  BY <1>1, BeforeRunning DEF SessionType, session
<1> QED BY <1>1, <1>2 DEF ByMethods, Arguments, Returned, session

LEMMA CaptureInvariance == CaptureSpec => []CaptureInv
<1>1. CaptureInit => CaptureInv
  <2> SUFFICES ASSUME CaptureInit PROVE CaptureInv
    OBVIOUS
  <2> USE DEF CaptureInit
  <2>1. LoopInv
    BY LoopStarts
  <2>2. Ran = {} /\ nodes = {} /\ Len(levels) = 0
    BY DEF Ran, Init
  <2>3. SessionInv
    BY <2>2 DEF SessionInv, SessionType, NothingRan, ByMethods, Arguments, Returned, Sendable,
         ResultsOfRan, AllRan, Arrived
  <2> QED BY <2>1, <2>3 DEF CaptureInv
<1>2. CaptureInv /\ [CaptureNext]_<<vars, session>> => CaptureInv'
  <2> SUFFICES ASSUME CaptureInv, [CaptureNext]_<<vars, session>> PROVE CaptureInv'
    OBVIOUS
  <2>1. LoopInv'
    BY SessionSteps, LoopKept DEF CaptureInv
  <2>2. SessionInv'
    <3>1. CASE UNCHANGED <<vars, session>>
      BY <3>1, <2>1, NothingChanges
    <3>2. CASE UseMethods
      BY <3>2, <2>1, UseMethodsKeeps
    <3>3. CASE InBody
      BY <3>3, <2>1, CallTaskKeeps, ReturnKeeps, OrderNodesKeeps, DispatchKeeps, RunLevelKeeps,
         CompleteKeeps, NothingChanges DEF InBody
    <3> QED BY <3>1, <3>2, <3>3 DEF CaptureNext
  <2> QED BY <2>1, <2>2 DEF CaptureInv
<1> QED BY <1>1, <1>2, PTL DEF CaptureSpec

\* A session only does to its graph what a graph allows, so all that is proved
\* of GraphLevels holds of every workflow that is captured and dispatched.
THEOREM CaptureBuildsGraphs == CaptureSpec => Spec
<1>1. CaptureInit => Init
  BY DEF CaptureInit
<1>2. CaptureInv /\ [CaptureNext]_<<vars, session>> => [Next]_vars
  BY SessionSteps DEF CaptureInv
<1> QED BY <1>1, <1>2, CaptureInvariance, PTL DEF CaptureSpec, Spec

\* What a body returns with a proxy in containers that the walk opens comes back
\* whole, unless capture() refuses it (_map_output).
LEMMA OutputArrives ==
    ASSUME NEW v \in ValueOf(ReturnLeaves), ~CannotCapture(v), Holds(v, Walked)
    PROVE  ResolvedOutput(Referring(v)) = Substituted(v) /\ v.leaf # "awaitable"
<1>1. Holds(v, Plain)
  <2> DEFINE T == {i \in 1..Len(v.wraps) : v.wraps[i] \notin Plain}
  <2>1. Len(v.wraps) \in Nat /\ T \in SUBSET Nat
    BY DEF ValueOf
  <2>2. ASSUME T # {} PROVE FALSE
    <3>1. PICK i \in T : \A j \in T : i <= j
      BY <2>1, <2>2, LeastNumber
    <3>2. v.wraps[i] = "named"
      BY <3>1 DEF Holds, Walked, Sequential, Plain
    <3>3. \A j \in 1..(i - 1) : v.wraps[j] \in Plain
      BY <3>1, <2>1
    <3> QED BY <3>1, <3>2, <3>3 DEF CannotCapture, Subclassed
  <2> QED BY <2>2 DEF Holds
<1>2. ~NoReference(v)
  BY <1>1 DEF CannotCapture
<1>3. CASE v.leaf = "proxy"
  <2>1. /\ Referring(v).leaf = "reference" /\ Referring(v).wraps = v.wraps
        /\ Referring(v).of = v.of
    BY <1>1, <1>3 DEF Referring, ValueOf
  <2> QED BY <2>1, <1>2, <1>3 DEF ResolvedOutput, Substituted, NoReference
<1>4. CASE v.leaf # "proxy"
  <2>1. Referring(v) = v /\ v.leaf # "reference"
    BY <1>4 DEF Referring, ValueOf, ReturnLeaves, BodyLeaves
  <2> QED BY <2>1, <1>2, <1>4 DEF ResolvedOutput, Substituted, NoReference
<1> QED BY <1>3, <1>4

\* Whatever a body writes and returns, and whatever its tasks return: every task
\* receives what was meant for it, the caller gets the result of the task that
\* was returned, and an adapter all of the output (transport, activity, capture).
THEOREM ValuesAlwaysArrive == CaptureSpec => []ValuesArrive
<1>1. CaptureInv => ValuesArrive
  <2> SUFFICES ASSUME CaptureInv PROVE ValuesArrive
    OBVIOUS
  <2> USE DEF CaptureInv, SessionInv
  <2>1. ASSUME stage = "running", level <= Len(levels), NEW n \in levels[level],
               Sent(n).packed.leaf = "placeholder"
        PROVE  Sent(n).packed.of \in DOMAIN results
    <3> DEFINE v == written[n]
               s == Serialized(v)
    <3>1. v \in ValueOf(BodyLeaves) /\ (Found(v) => v.of \in Ran)
      BY <2>1, LevelReady
    <3>2. s \in ValueOf(SentLeaves) /\ s.of = v.of
      BY <3>1 DEF Serialized, ValueOf, SentLeaves
    <3>3. Sent(n).packed.leaf = s.leaf /\ Sent(n).packed.of = v.of
      BY <3>2, CutRange, EncodingKeeps DEF Sent
    <3>4. Found(v)
      BY <2>1, <3>1, <3>3 DEF Serialized, ValueOf, BodyLeaves
    <3> QED BY <3>1, <3>3, <3>4 DEF ResultsOfRan
  <2>2. \A n \in DOMAIN got : ~Nested(written[n]) => Alike(got[n], written[n])
    BY DEF ResultsOfRan, Arrived
  <2>3. ASSUME stage = "ended", Outputs(returned) # {}, returned.wraps = <<>>
        PROVE  Alike(RunResult(returned.of), returned)
    <3> DEFINE n == returned.of
               e == ResultEncoded(n)
    <3>1. returned.leaf = "proxy" /\ n \in nodes
      BY <2>3 DEF Outputs, Returned
    <3>2. n \in Ran
      <4>1. \E i \in 1..Len(levels) : n \in levels[i]
        BY <2>3, <3>1 DEF Sendable, LoopInv, Emptied, Covered, Ordering
      <4>2. level - 1 = Len(levels)
        BY <2>3 DEF AllRan, LoopInv, TypeOK
      <4> QED BY <4>1, <4>2, <3>1 DEF Ran
    <3>3. results[n] \in ValueOf({"opaque"}) /\ results[n].of = n
      BY <3>2 DEF ResultsOfRan
    <3>4. /\ e.packed.leaf = "opaque" /\ e.packed.of = n
          /\ Json(e.wraps \o e.packed.wraps) = Json(results[n].wraps)
      BY <3>3, ResultKeeps
    <3>5. results[n].leaf = "opaque" /\ <<>> \o results[n].wraps = results[n].wraps
      BY <3>3, ConcatEmptySeq DEF ValueOf
    <3> HIDE DEF e
    <3>6. Decoded(e) = Value(e.wraps \o e.packed.wraps, "opaque", n)
      BY <3>4 DEF Decoded
    <3>7. Meant(returned) = Value(Json(results[n].wraps), "opaque", n)
      BY <2>3, <3>1, <3>5 DEF Meant, Substituted, Value
    <3> QED BY <3>4, <3>6, <3>7 DEF Alike, RunResult, Value, e
  <2>4. ASSUME stage = "ended", Captured # Nil, Holds(returned, Walked)
        PROVE  ResolvedOutput(Captured) = Substituted(returned) /\ returned.leaf # "awaitable"
    <3>1. ~CannotCapture(returned) /\ Captured = Referring(returned)
      BY <2>4 DEF Captured
    <3> QED BY <3>1, <2>4, OutputArrives DEF Returned
  <2> QED BY <2>1, <2>2, <2>3, <2>4 DEF ValuesArrive
<1> QED BY <1>1, CaptureInvariance, PTL
=============================================================================

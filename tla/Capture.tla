------------------------------ MODULE Capture ------------------------------
(***************************************************************************)
(* From the body of a @workflow to the values its tasks receive.           *)
(*                                                                         *)
(* The body calls tasks and gets proxies (workflows/decorators.py); calls  *)
(* become nodes of the graph (GraphLevels); dispatch encodes their         *)
(* arguments as JSON; before a node runs prepare_node_inputs puts results  *)
(* in the places of proxies (workflows/activity.py); the child decodes     *)
(* them and encodes the result (workflows/_task_child.py).                 *)
(*                                                                         *)
(* A value is a leaf inside some containers, the outermost first, each     *)
(* holding one item: no conversion looks from one item to another.  A task *)
(* takes one argument.  Sizes are left out.                                *)
(*                                                                         *)
(* Mistaken... operators are wrong versions of the definition after them;  *)
(* no action uses them.                                                    *)
(***************************************************************************)
EXTENDS GraphLevels, SequencesExt

CONSTANTS
    Nil,
    Foreign,        \* a node of another invocation's graph
    MaxCalls,       \* calls of tasks in a body
    MaxWraps,       \* containers a body writes
    ResultWraps     \* the containers of a task's result

ASSUME CaptureAssumption == Foreign \in Node /\ Nil \notin Node

VARIABLES
    builder,    \* who builds the graph: a workflow "body", or calls of its "methods"
    stage,      \* "body", "dispatch", "running", "ended" or "refused"
    written,    \* node -> the argument the body passed
    returned,   \* what the body returned
    level,      \* the level that runs next
    got,        \* node -> the argument its task received
    results     \* node -> what its task returned

session == <<builder, stage, written, returned, level, got, results>>

---------------------------------------------------------------------------
(* Values.  "named" is a namedtuple, "keyed" a dict with a key that is no  *)
(* string, "object" holds the value in an attribute; a "lock" cannot be    *)
(* pickled; a placeholder and a reference stand for a proxy; an "awaitable" *)
(* is a coroutine or the dispatch of another workflow.                     *)
Value(wraps, leaf, of) == [wraps |-> wraps, leaf |-> leaf, of |-> of]
Sequential == {"list", "tuple", "named"}
Walked == Sequential \union {"dict", "keyed"}
Kinds == Walked \union {"set", "object"}

ASSUME ResultWrapsAssumption == ResultWraps \subseteq Seq(Kinds)

\* A set holds what can be hashed.
Sensible(wraps) ==
    \A i \in 2..Len(wraps) : wraps[i - 1] \in {"set"} =>
        \A j \in i..Len(wraps) : wraps[j] \in {"tuple", "named", "set", "object"}
Shapes(n) == {w \in SeqOf(Kinds, n) : Sensible(w)}

Holds(v, kinds) == \A i \in 1..Len(v.wraps) : v.wraps[i] \in kinds
From(v, i) == Value(SubSeq(v.wraps, i, Len(v.wraps)), v.leaf, v.of)
Upto(v, i) == SubSeq(v.wraps, 1, i)

\* A proxy that extract_dependencies and _serialize_arg find.
Found(v) == v.leaf = "proxy" /\ Holds(v, Walked)
MistakenDependencies(v) == IF v.leaf = "proxy" /\ Holds(v, Sequential) THEN {v.of} ELSE {}
Dependencies(v) == IF Found(v) THEN {v.of} ELSE {}
Serialized(v) == IF Found(v) THEN [v EXCEPT !.leaf = "placeholder"] ELSE v

\* _transport_arg goes into these containers, and pickles the others whole.
\* It unpacks a namedtuple only for a placeholder in it.
Opens(v, i) ==
    \/ v.wraps[i] \in {"list", "tuple", "dict"}
    \/ v.wraps[i] = "named" /\ v.leaf = "placeholder"

\* Where pickling starts, one past the end if nothing is pickled.
Cut(v) ==
    LET closed == {i \in 1..Len(v.wraps) : ~Opens(v, i)}
    IN  IF closed # {} THEN CHOOSE i \in closed : \A j \in closed : i <= j
        ELSE IF v.leaf \in {"opaque", "lock"} THEN Len(v.wraps) + 1 ELSE Len(v.wraps) + 2

\* _hides_task_proxy looks into the attributes of an object, but of no object
\* in them.
Nested(v) == \E i, j \in 1..Len(v.wraps) : i < j /\ v.wraps[i] = "object" /\ v.wraps[j] = "object"
HidesProxy(v) == v.leaf = "proxy" /\ ~Nested(v)

\* _transport_arg raises TypeError.
CannotSend(v) ==
    /\ Cut(v) <= Len(v.wraps) + 1
    /\ \/ v.leaf = "lock"
       \/ v.leaf = "placeholder"
       \/ HidesProxy(From(v, Cut(v)))

\* JSON: lists and dicts, a placeholder, a scalar, or a pickled value.
Json(wraps) == [i \in 1..Len(wraps) |-> IF wraps[i] \in Sequential THEN "list" ELSE wraps[i]]
Encoded(v, cut) ==
    IF cut > Len(v.wraps) + 1
    THEN [wraps |-> Json(v.wraps), packed |-> Value(<<>>, v.leaf, v.of)]
    ELSE [wraps |-> Json(Upto(v, cut - 1)), packed |-> From(v, cut)]

\* _serialize_value: the child encodes a result, and unpacks every sequence.
ResultCut(v) ==
    LET closed == {i \in 1..Len(v.wraps) : v.wraps[i] \notin Sequential \union {"dict"}}
    IN  IF closed # {} THEN CHOOSE i \in closed : \A j \in closed : i <= j ELSE Len(v.wraps) + 1
ResultEncoded(n) == Encoded(results[n], ResultCut(results[n]))

\* resolve_arg: the result, encoded as it is, takes the place of the placeholder.
Resolved(e) ==
    IF e.packed.leaf # "placeholder" THEN e
    ELSE LET r == ResultEncoded(e.packed.of) IN [r EXCEPT !.wraps = e.wraps \o r.wraps]

\* _deserialize_value
Decoded(e) == Value(e.wraps \o e.packed.wraps, e.packed.leaf, e.packed.of)

---------------------------------------------------------------------------
(* The workflow.                                                           *)
CaptureInit ==
    /\ Init
    /\ builder \in {"body", "methods"}
    /\ stage = "body"
    /\ written = <<>> /\ returned = Nil
    /\ level = 1
    /\ got = <<>> /\ results = <<>>

WrapsLeft == MaxWraps - FoldFunction(LAMBDA v, n : Len(v.wraps) + n, 0, written)

\* The leaves a body can write: a value of its own, or a proxy it has.
Leaves == {<<"plain", Nil>>, <<"opaque", Nil>>, <<"lock", Nil>>}
              \union {<<"proxy", n>> : n \in nodes \union {Foreign}}
Values(leaves) ==
    {Value(w, l[1], l[2]) : w \in UNION {Shapes(n) : n \in 0..WrapsLeft}, l \in leaves}

\* The wrapper of a task, with a graph that is active.
CallTask(n, v) ==
    /\ stage = "body" /\ Len(levels) = 0 /\ pc = "capture"
    /\ n # Foreign
    /\ AddNode(n, Dependencies(v))
    /\ written' = [m \in nodes \union {n} |-> IF m = n THEN v ELSE written[m]]
    /\ UNCHANGED <<builder, stage, returned, level, got, results>>

\* The proxies the wrapper of a workflow takes for outputs.
Outputs(r) == IF r.leaf = "proxy" /\ Len(r.wraps) <= 1 /\ Holds(r, Walked) THEN {r.of} ELSE {}

Return(r) ==
    /\ stage = "body" /\ pc = "capture"
    /\ returned' = r
    /\ IF Outputs(r) \subseteq nodes
       THEN /\ stage' = "dispatch"
            /\ SetOutputs(Outputs(r))
       ELSE /\ stage' = "refused"
            /\ UNCHANGED vars
    /\ UNCHANGED <<builder, written, level, got, results>>

\* get_execution_order
OrderNodes == stage = "dispatch" /\ (BeginOrder \/ Peel) /\ UNCHANGED session

\* The rest of _prepare_workflow_input raises.
CannotPrepare == \E n \in nodes : CannotSend(Serialized(written[n]))

\* Prepared, and then started under a new id.
Dispatch ==
    /\ stage = "dispatch" /\ pc = "ordered"
    /\ stage' = IF CannotPrepare THEN "refused" ELSE "running"
    /\ UNCHANGED <<vars, builder, written, returned, level, got, results>>

Sent(n) == LET v == Serialized(written[n]) IN Encoded(v, Cut(v))

\* The tasks of a level: prepared, and run.
RunLevel ==
    /\ stage = "running" /\ level <= Len(levels)
    /\ got' = [n \in DOMAIN got \union levels[level] |->
          IF n \in levels[level] THEN Decoded(Resolved(Sent(n))) ELSE got[n]]
    /\ \E shape \in [levels[level] -> ResultWraps] :
          results' = [n \in DOMAIN results \union levels[level] |->
             IF n \in levels[level] THEN Value(shape[n], "opaque", n) ELSE results[n]]
    /\ level' = level + 1
    /\ UNCHANGED <<vars, builder, stage, written, returned>>

Complete ==
    /\ stage = "running" /\ level > Len(levels)
    /\ stage' = "ended"
    /\ UNCHANGED <<vars, builder, written, returned, level, got, results>>

\* A graph built with add_node and set_output_nodes (GraphLevels).
UseMethods == builder = "methods" /\ Next /\ UNCHANGED session

InBody ==
    /\ builder = "body"
    /\ \/ Cardinality(nodes) < MaxCalls /\ \E n \in Node \ nodes, v \in Values(Leaves) : CallTask(n, v)
       \/ \E r \in Values(Leaves \union {<<"awaitable", Nil>>}) : Return(r)
       \/ OrderNodes \/ Dispatch \/ RunLevel \/ Complete
       \/ (stage \in {"ended", "refused"} \/ pc = "refused") /\ UNCHANGED <<vars, session>>

CaptureNext == UseMethods \/ InBody

CaptureSpec == CaptureInit /\ [][CaptureNext]_<<vars, session>>

---------------------------------------------------------------------------
(* What the caller gets.                                                   *)

\* WorkflowDispatch.run of a workflow with one output.
RunResult(n) == Decoded(ResultEncoded(n))

\* An adapter takes the graph and the return value by capture(), runs the tasks
\* itself and asks resolve_output.  _map_output walks plain containers and
\* refuses their subclasses; to it everything else is a leaf.
Plain == {"list", "tuple", "dict", "keyed"}
Subclassed(v) == \E i \in 1..Len(v.wraps) :
    v.wraps[i] = "named" /\ \A j \in 1..(i - 1) : v.wraps[j] \in Plain

\* capture_output raises: no completed task of this graph stands behind the leaf.
NoReference(v) == v.leaf = "awaitable" \/ (v.leaf = "proxy" /\ v.of \notin nodes)
CannotCapture(v) == Subclassed(v) \/ (Holds(v, Plain) /\ NoReference(v))

Referring(v) == IF Holds(v, Plain) /\ v.leaf = "proxy" THEN [v EXCEPT !.leaf = "reference"] ELSE v
Captured == IF CannotCapture(returned) THEN Nil ELSE Referring(returned)

ResolvedOutput(t) ==
    IF t.leaf = "reference"
    THEN Value(t.wraps \o results[t.of].wraps, results[t.of].leaf, t.of) ELSE t

\* A value with the results in the places of its proxies; and that up to the
\* kind of its sequences.
Substituted(v) ==
    IF v.leaf = "proxy" THEN Value(v.wraps \o results[v.of].wraps, results[v.of].leaf, v.of) ELSE v
Meant(v) == Value(Json(Substituted(v).wraps), Substituted(v).leaf, v.of)
Alike(v, w) == Value(Json(v.wraps), v.leaf, v.of) = Meant(w)

\* What the body writes is what the tasks receive, with the results of tasks in
\* the places of their proxies, up to the kind of a sequence - or the dispatch
\* is refused: no result is looked up before it is there, no task receives a
\* proxy, no container loses its keys.  (A proxy in an object in an object is
\* not noticed: _hides_task_proxy says so.)  The same holds for what run()
\* returns of a workflow that returns the result of a task.  An adapter that runs
\* the captured graph gets all that the body returned, every container of its
\* kind, unless a set or an object hid it from the walk, or capture() refused.
ValuesArrive ==
    /\ stage = "running" /\ level <= Len(levels) =>
          \A n \in levels[level] : Sent(n).packed.leaf = "placeholder" =>
             Sent(n).packed.of \in DOMAIN results
    /\ \A n \in DOMAIN got : ~Nested(written[n]) => Alike(got[n], written[n])
    /\ stage = "ended" /\ Outputs(returned) # {} /\ returned.wraps = <<>> =>
          Alike(RunResult(returned.of), returned)
    /\ stage = "ended" /\ Captured # Nil /\ Holds(returned, Walked) =>
          /\ ResolvedOutput(Captured) = Substituted(returned)
          /\ returned.leaf # "awaitable"
=============================================================================

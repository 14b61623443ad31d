--------------------------- MODULE CircuitImport ---------------------------
(***************************************************************************)
(* Circuit.from_braket, from_qiskit (from_openqasm), from_cirq,            *)
(* from_pennylane and from_pyquil: a program of another framework becomes  *)
(* a circuit, which has gates only, or is refused.                         *)
(*                                                                         *)
(* A foreign program is a sequence of instructions; the operation "op" of  *)
(* an instruction is                                                       *)
(*   "gate"        a gate or an identity, named as in Circuits;            *)
(*   "measure"     a measurement of its qubit into the classical bit of    *)
(*                 the same index, or under the key of that index;         *)
(*   "conditioned" a gate that runs if the classical bit "reads" is set;   *)
(*   "reset"       puts its qubit in state 0;                              *)
(*   "modified"    a gate under the modifier "controlled on on[1]";        *)
(*   "barrier"     a hint to the compiler;                                 *)
(*   "declare"     a classical declaration;                                *)
(*   "repeated"    its body, twice: a subcircuit or a gate with a          *)
(*                 decomposition.                                          *)
(***************************************************************************)
EXTENDS Circuits

\* The instructions on given qubits; the qubits of a gate are distinct.
Elementary(W) ==
    {w \in [op : {"gate"}, name : OneQubit \union {"I"}, on : [1..1 -> W]]
          \union [op : {"gate"}, name : TwoQubit, on : [1..2 -> W]]
          \union [op : {"gate"}, name : ThreeQubit, on : [1..3 -> W]] : RequireDistinct(w.on)}
    \union [op : {"measure", "reset"}, on : [1..1 -> W]]
    \union [op : {"conditioned"}, on : [1..1 -> W], reads : W]
    \union [op : {"modified"}, name : {"X"}, on : [1..2 -> W]]
    \union [op : {"barrier", "declare"}, on : Seq(W)]

\* The operations an importer's framework can write down.
Operations(lang) ==
    CASE lang = "braket" -> {"gate", "measure", "reset", "modified"}
      [] lang = "qiskit" -> {"gate", "measure", "conditioned", "reset", "barrier", "repeated"}
      [] lang = "cirq" -> {"gate", "measure", "conditioned", "reset", "repeated"}
      [] lang = "pennylane" -> {"gate", "barrier", "repeated"}
      [] lang = "pyquil" -> {"gate", "measure", "reset", "modified", "declare"}

\* Subcircuits and decomposable gates are unrolled before anything is checked.
Flat(p) == FlattenSeq([i \in DOMAIN p |->
               IF p[i].op = "repeated" THEN p[i].body \o p[i].body ELSE <<p[i]>>])

MeasureOf(p, i) == p[i].on[1]
Touches(w, q) == q \in ToSet(w.on)
Reads(w, q) == w.op = "conditioned" /\ w.reads = q
Disturbs(w, q) == Touches(w, q) \/ Reads(w, q)
IsGate(w) == w.op = "gate"
IsHarmless(w) == IsGate(w) /\ IsIdentity(w)
GateOf(w) == Gate(w.name, w.on)

\* A measurement is terminal: it can be dropped because nothing after it
\* touches its qubit or reads what it measured.
BraketTerminal(p, i) == \A j \in (i + 1)..Len(p) : ~Touches(p[j], MeasureOf(p, i))

QiskitTerminal(p, i) ==
    \A j \in (i + 1)..Len(p) : p[j].op = "barrier" \/ ~Disturbs(p[j], MeasureOf(p, i))

\* Tracked by position: a repeated subcircuit yields the same operation object
\* for each repetition.  An identity changes nothing.
MistakenCirqTerminal(p, i) ==
    \E k \in {j \in DOMAIN p : p[j] = p[i]} :
        \A j \in (k + 1)..Len(p) : IsHarmless(p[j]) \/ ~Disturbs(p[j], MeasureOf(p, i))
CirqTerminal(p, i) ==
    \A j \in (i + 1)..Len(p) : IsHarmless(p[j]) \/ ~Disturbs(p[j], MeasureOf(p, i))

PyquilTerminal(p, i) == \A j \in (i + 1)..Len(p) : ~Touches(p[j], MeasureOf(p, i))

Measurements(p) == {i \in DOMAIN p : p[i].op = "measure"}
Only(p, ops) == \A i \in DOMAIN p : p[i].op \in ops

\* The converters check the whole program, or refuse on the way: nothing of a
\* refused program is returned.
Accepts(lang, p) ==
    CASE lang = "braket" ->
            Only(p, {"gate", "measure"}) /\ \A i \in Measurements(p) : BraketTerminal(p, i)
      [] lang = "qiskit" ->
            Only(p, {"gate", "measure", "barrier"}) /\ \A i \in Measurements(p) : QiskitTerminal(p, i)
      [] lang = "cirq" ->
            Only(p, {"gate", "measure"}) /\ \A i \in Measurements(p) : CirqTerminal(p, i)
      [] lang = "pennylane" -> Only(p, {"gate", "barrier"})
      [] lang = "pyquil" ->
            Only(p, {"gate", "measure", "declare"}) /\ \A i \in Measurements(p) : PyquilTerminal(p, i)

\* The gates of a program, in order.
GatesOf(p) ==
    FlattenSeq([i \in DOMAIN p |-> IF IsGate(p[i]) THEN <<GateOf(p[i])>> ELSE <<>>])

\* Three CNOTs in a row that make a SWAP are imported as one.
IsSwap(p, i) ==
    /\ i + 2 <= Len(p)
    /\ \A j \in i..(i + 2) : IsGate(p[j]) /\ p[j].name = "CNOT"
    /\ p[i + 1].on = <<p[i].on[2], p[i].on[1]>>
    /\ p[i + 2].on = p[i].on

PyquilGates(p) ==
    LET from[i \in 1..(Len(p) + 1)] ==
            IF i > Len(p) THEN <<>>
            ELSE IF IsSwap(p, i) THEN <<Gate("SWAP", p[i].on)>> \o from[i + 3]
            ELSE IF IsGate(p[i]) THEN <<GateOf(p[i])>> \o from[i + 1]
            ELSE from[i + 1]
    IN  from[1]

Converted(lang, p) ==
    DropInnerIdentities(IF lang = "pyquil" THEN PyquilGates(p) ELSE GatesOf(p))

-----------------------------------------------------------------------------
\* What a foreign program computes: each measurement copies its qubit to a wire
\* of its own, which a conditioned gate reads; a reset exchanges its qubit with
\* such a wire.  The program's own wires are those below n.
Records(p, i) == Cardinality({j \in 1..i : p[j].op \in {"measure", "reset"}})

LastMeasure(p, i, q) == {j \in 1..(i - 1) : p[j].op = "measure" /\ MeasureOf(p, j) = q}

Deferred(p, n) ==
    FlattenSeq([i \in DOMAIN p |->
        CASE p[i].op = "gate" -> <<GateOf(p[i])>>
          [] p[i].op = "modified" -> <<Gate("CNOT", p[i].on)>>
          [] p[i].op = "measure" -> <<Gate("CNOT", <<MeasureOf(p, i), n + Records(p, i) - 1>>)>>
          [] p[i].op = "reset" -> <<Gate("SWAP", <<p[i].on[1], n + Records(p, i) - 1>>)>>
          [] p[i].op = "conditioned" ->
                LET written == LastMeasure(p, i, p[i].reads)
                IN  IF written = {} THEN <<>>
                    ELSE <<Gate("CNOT", <<n + Records(p, Max(written)) - 1, p[i].on[1]>>)>>
          [] OTHER -> <<>>])

ForeignCounts(p, n) == Counts(Deferred(p, n), n + Records(p, Len(p)), Register(n))
=============================================================================

------------------------------ MODULE Circuits ------------------------------
(***************************************************************************)
(* The circuit of marqov/circuits.py and the local executor that defines   *)
(* what its counts mean.  A circuit is the sequence of its gates; a gate   *)
(* is a name and the qubits it acts on, in order.  Angles are left out: H  *)
(* and the permutation gates tell states, wires and orders apart.          *)
(*                                                                         *)
(* An amplitude is an integer: H is taken without its factor 1/sqrt 2, so  *)
(* the weights of one circuit are its probabilities times 2^(number of H). *)
(* Two programs with the same H gates are compared by their weights.       *)
(***************************************************************************)
EXTENDS Integers, Sequences, FiniteSets, SequencesExt, FiniteSetsExt

Gate(name, on) == [name |-> name, on |-> on]

\* The gates each name takes, by the number of qubits of its method.
OneQubit == {"H", "X"}
TwoQubit == {"CNOT", "SWAP"}
ThreeQubit == {"CCX", "CSWAP"}

\* The gates on given qubits, the identity included.
Gates(W) ==
    [name : OneQubit \union {"I"}, on : [1..1 -> W]]
    \union [name : TwoQubit, on : [1..2 -> W]]
    \union [name : ThreeQubit, on : [1..3 -> W]]

\* A fluent method refuses a gate on a repeated qubit.
RequireDistinct(on) == IsInjective(on)

IsIdentity(g) == g.name = "I"

\* The qubits some gate names, and those one that is not an identity names.
Named(c) == UNION {ToSet(c[i].on) : i \in DOMAIN c}
Working(c) == UNION {ToSet(c[i].on) : i \in {j \in DOMAIN c : ~IsIdentity(c[j])}}

NumQubits(c) == IF c = <<>> THEN 0 ELSE Max(Named(c)) + 1

Wires(c) == 0..(NumQubits(c) - 1)
MistakenIdleQubits(c) == Wires(c) \ Named(c)
IdleQubits(c) == Wires(c) \ Working(c)
UnnamedQubits(c) == Wires(c) \ Named(c)

Register(n) == [i \in 1..n |-> i - 1]
Ascending(S) ==
    [i \in 1..Cardinality(S) |-> CHOOSE q \in S : Cardinality({p \in S : p < q}) = i - 1]

\* What a sequence has at the positions I.
Select(c, I) == FlattenSeq([i \in DOMAIN c |-> IF i \in I THEN <<c[i]>> ELSE <<>>])

\* An importer drops its identities below the largest other index.
DropInnerIdentities(c) ==
    LET top == Max(Working(c) \union {-1})
    IN  Select(c, {i \in DOMAIN c : ~IsIdentity(c[i]) \/ \E q \in ToSet(c[i].on) : q > top})

WithoutIdentities(c) == Select(c, {i \in DOMAIN c : ~IsIdentity(c[i])})

\* An explicit identity on each wire that no operation names.
Padded(c) == [i \in 1..Cardinality(UnnamedQubits(c)) |->
                  Gate("I", <<Ascending(UnnamedQubits(c))[i]>>)] \o c

-----------------------------------------------------------------------------
\* to_dict and from_dict: the gates whose records can be restored.
DictGates == OneQubit \union TwoQubit \union ThreeQubit \union {"I"}

DictRestores(c) == \A i \in DOMAIN c : c[i].name \in DictGates /\ RequireDistinct(c[i].on)

-----------------------------------------------------------------------------
\* What a circuit computes, on the wires 0..n-1.
Bits(n) == [0..(n - 1) -> {0, 1}]

Flip(b, q) == [b EXCEPT ![q] = 1 - b[q]]
Exchange(b, p, q) == [b EXCEPT ![p] = b[q], ![q] = b[p]]

\* The permutation a gate other than H applies to the basis states.
Permuted(g, b) ==
    CASE g.name = "I" -> b
      [] g.name = "X" -> Flip(b, g.on[1])
      [] g.name = "CNOT" -> IF b[g.on[1]] = 1 THEN Flip(b, g.on[2]) ELSE b
      [] g.name = "SWAP" -> Exchange(b, g.on[1], g.on[2])
      [] g.name = "CCX" -> IF b[g.on[1]] = 1 /\ b[g.on[2]] = 1 THEN Flip(b, g.on[3]) ELSE b
      [] g.name = "CSWAP" -> IF b[g.on[1]] = 1 THEN Exchange(b, g.on[2], g.on[3]) ELSE b

Evolve(amp, g) ==
    IF g.name = "H"
    THEN LET q == g.on[1] IN [b \in DOMAIN amp |->
             amp[[b EXCEPT ![q] = 0]] + (IF b[q] = 1 THEN -1 ELSE 1) * amp[[b EXCEPT ![q] = 1]]]
    ELSE [b \in DOMAIN amp |-> amp[Permuted(g, b)]]

Ground(n) == [b \in Bits(n) |-> IF \A q \in DOMAIN b : b[q] = 0 THEN 1 ELSE 0]

Weights(c, n) ==
    LET amp == FoldLeft(Evolve, Ground(n), c)
    IN  [b \in Bits(n) |-> amp[b] * amp[b]]

\* The counts of c on n wires, read from the given wires in that order: the
\* weight of each key that can be seen.
Counts(c, n, read) ==
    LET w == Weights(c, n)
        seen == {b \in Bits(n) : w[b] > 0}
        key(b) == [i \in DOMAIN read |-> b[read[i]]]
    IN  [k \in {key(b) : b \in seen} |-> SumFunctionOnSet(w, {b \in seen : key(b) = k})]
=============================================================================

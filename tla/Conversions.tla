---------------------------- MODULE Conversions ----------------------------
(***************************************************************************)
(* A user of the circuit layer: writes a program in some framework and     *)
(* imports it, goes on with the circuit's own methods, and runs the        *)
(* circuit where it pleases; and the allocation of a histogram, which      *)
(* shares no state with it.                                                *)
(***************************************************************************)
EXTENDS CountsRoutes, ShotAllocation

CONSTANTS
    WordWires,     \* the qubits of a program are 0..WordWires-1
    Instructions,  \* what a program may say
    Beginnings,    \* the first instructions of a program
    MaxWritten,    \* how many instructions are written after them
    FluentGates,   \* the gates the user applies with the fluent methods
    MaxApplied     \* to circuits of fewer gates than this

Langs == {"braket", "qiskit", "cirq", "pennylane", "pyquil"}

VARIABLES
    lang,      \* the framework of the program
    program,   \* the foreign program
    circuit,   \* the circuit
    stage      \* "writing", "imported", "refused", "building" or "allocating"

conversion == <<lang, program, circuit, stage>>
vars == <<lang, program, circuit, stage, allocation>>

\* Only a subcircuit repeats measurements, not a gate with a decomposition.
Words(l) ==
    {w \in Instructions :
        /\ w.op \in Operations(l)
        /\ w.op = "repeated" => Only(w.body, IF l = "cirq" THEN {"gate", "measure"} ELSE {"gate"})}

ASSUME WordsAssumption ==
    LET W == 0..(WordWires - 1)
    IN  /\ WordWires \in Nat
        /\ \A w \in Instructions :
              \/ w.op # "repeated" /\ w \in Elementary(W)
              \/ w.op = "repeated" /\ w.body \in Seq(Elementary(W))
        /\ Beginnings \subseteq Seq(Instructions)

ASSUME FluentAssumption == FluentGates \subseteq Gates(Nat)

Init ==
    /\ \/ stage = "writing" /\ lang \in Langs /\ program \in Beginnings \intersect Seq(Words(lang))
       \/ stage \in {"building", "allocating"} /\ lang = "braket" /\ program = <<>>
    /\ circuit = <<>>
    /\ AllocationInit
    /\ stage # "allocating" => /\ probs = [k \in Bins |-> 0]
                               /\ asked = CHOOSE n \in ShotNumbers : TRUE

Write ==
    /\ stage = "writing" /\ Len(program) < MaxWritten
    /\ \E w \in Words(lang) : program' = Append(program, w)
    /\ UNCHANGED <<lang, circuit, stage, allocation>>

Import ==
    /\ stage = "writing"
    /\ LET p == Flat(program)
       IN  IF Accepts(lang, p)
           THEN circuit' = Converted(lang, p) /\ stage' = "imported"
           ELSE stage' = "refused" /\ UNCHANGED circuit
    /\ UNCHANGED <<lang, program, allocation>>

\* The circuit is the user's, wherever it came from.
Keep ==
    /\ stage = "imported" /\ stage' = "building"
    /\ lang' = "braket" /\ program' = <<>>
    /\ UNCHANGED <<circuit, allocation>>

Apply(g) ==
    /\ stage = "building" /\ Len(circuit) < MaxApplied
    /\ RequireDistinct(g.on)
    /\ circuit' = Append(circuit, g)
    /\ UNCHANGED <<lang, program, stage, allocation>>

Allocate ==
    /\ stage = "allocating" /\ AllocationNext
    /\ UNCHANGED conversion

Over ==
    /\ \/ stage = "refused"
       \/ stage = "building" /\ Len(circuit) >= MaxApplied
       \/ stage = "allocating" /\ phase = "done"
    /\ UNCHANGED vars

Next == Write \/ Import \/ Keep \/ (\E g \in FluentGates : Apply(g)) \/ Allocate \/ Over

Spec == Init /\ [][Next]_vars

-----------------------------------------------------------------------------
(* An imported circuit computes what the program computed: on the wires    *)
(* that a gate or an identity of the program names, with those above them  *)
(* in state 0, every outcome has the probability it has in the program,    *)
(* its measurements, resets and conditions included.  What the circuit     *)
(* cannot express is refused.                                              *)
ImportFaithful ==
    stage = "imported" =>
        LET p == Flat(program)
        IN  /\ NumQubits(circuit) = NumQubits(GatesOf(p))
            /\ Counts(circuit, WordWires, Register(WordWires)) = ForeignCounts(p, WordWires)

(* The counts of a circuit mean the same wherever it runs: every executor  *)
(* and every way through MarqovDevice.run that does not refuse it returns, *)
(* on the same keys, the counts LocalExecutor stands for - as many         *)
(* characters as the width, qubit 0 leftmost - and so does the circuit     *)
(* after a round trip through another framework.                           *)
KeysFaithful ==
    stage \in {"imported", "building"} /\ NumQubits(circuit) > 0 =>
        ExecutorWays(circuit) \union DeviceCountsOf(circuit) = {LocalCounts(circuit)}
=============================================================================

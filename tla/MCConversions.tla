--------------------------- MODULE MCConversions ---------------------------
(* Programs on two qubits, circuits on three, histograms of three bins.    *)
EXTENDS Conversions

H0 == [op |-> "gate", name |-> "H", on |-> <<0>>]

I1 == [op |-> "gate", name |-> "I", on |-> <<1>>]

MCInstructions ==
    {[op |-> "gate", name |-> "H", on |-> <<0>>], [op |-> "gate", name |-> "H", on |-> <<1>>],
     [op |-> "gate", name |-> "X", on |-> <<1>>],
     [op |-> "gate", name |-> "CNOT", on |-> <<0, 1>>], [op |-> "gate", name |-> "CNOT", on |-> <<1, 0>>],
     [op |-> "gate", name |-> "I", on |-> <<0>>], [op |-> "gate", name |-> "I", on |-> <<1>>],
     [op |-> "measure", on |-> <<0>>], [op |-> "measure", on |-> <<1>>],
     [op |-> "conditioned", on |-> <<1>>, reads |-> 0],
     [op |-> "reset", on |-> <<0>>],
     [op |-> "modified", name |-> "X", on |-> <<0, 1>>],
     [op |-> "barrier", on |-> <<0, 1>>],
     [op |-> "declare", on |-> <<>>],
     [op |-> "repeated", on |-> <<0>>, body |-> <<H0>>],
     [op |-> "repeated", on |-> <<0>>, body |-> <<H0, [op |-> "measure", on |-> <<0>>]>>]}

MCBeginnings == {<<H0>>, <<I1>>}

MCFluentGates ==
    {Gate(n, <<q>>) : n \in OneQubit, q \in 0..2}
    \union {Gate(n, <<p, q>>) : n \in TwoQubit, p \in {0, 2}, q \in {0, 1, 2}}
    \union {Gate("CCX", <<2, 0, 1>>), Gate("CSWAP", <<0, 1, 2>>), Gate("CCX", <<0, 0, 1>>)}
=============================================================================

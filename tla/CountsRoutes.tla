---------------------------- MODULE CountsRoutes ----------------------------
(***************************************************************************)
(* The ways from a circuit to its counts: what each executor (and          *)
(* MarqovDevice.run) sends to its provider, which wires the provider       *)
(* reads in which order, and what the executor makes of the keys.  The     *)
(* providers' own conventions are external: they run the gates they are    *)
(* sent and report the order given here.                                   *)
(*                                                                         *)
(* Left out: the CUNQA and IonQ v0.3 keys, whose order the code takes as   *)
(* the vendor gives it and calls unverified (ionq.py:274-284), and the     *)
(* native gate sets of QB remote and to_braket_native.                     *)
(***************************************************************************)
EXTENDS CircuitImport

\* The SDK's own meaning of counts: LocalExecutor, qubit 0 leftmost.
LocalCounts(c) == Counts(c, NumQubits(c), Register(NumQubits(c)))

\* Each character of each key, from the other end.
Reversed(counts) == [k \in {Reverse(key) : key \in DOMAIN counts} |-> counts[Reverse(k)]]

\* A '0' is put in each key for each wire that was not sent.
Widened(c, counts, measured) ==
    LET bit(k, q) == IF q \in ToSet(measured)
                     THEN k[CHOOSE j \in DOMAIN measured : measured[j] = q] ELSE 0
        wide(k) == [i \in 1..NumQubits(c) |-> bit(k, i - 1)]
    IN  [w \in {wide(k) : k \in DOMAIN counts} |->
            SumFunctionOnSet(counts, {k \in DOMAIN counts : wide(k) = w})]

IdentityOnly(c) == NumQubits(c) > 0 /\ IdleQubits(c) = Wires(c)

HasOnly(c, names) == \A i \in DOMAIN c : c[i].name \in names

\* The exports.  Braket and Quil are sent no identity; a Cirq circuit and a
\* PennyLane script have the wires that some operation names, so an identity is
\* put on each of the others.
ToBraket(c) == WithoutIdentities(c)
ToPyquil(c) == WithoutIdentities(c)
ToQiskit(c) == c
ToPytket(c) == ToQiskit(c)
ToCirq(c) == Padded(c)
ToPennylane(c) == Padded(c)

-----------------------------------------------------------------------------
(* Braket and Quil: only the qubits in use are read.                       *)

WorkingWires(c) == Ascending(Working(c))
ReadWorking(c, sent) == Counts(sent, NumQubits(c), WorkingWires(c))
Restored(c, counts) ==
    IF IdleQubits(c) = {} THEN counts ELSE Widened(c, counts, WorkingWires(c))

BraketCounts(c) == Restored(c, ReadWorking(c, ToBraket(c)))
RigettiCounts(c) == Restored(c, ReadWorking(c, ToPyquil(c)))

-----------------------------------------------------------------------------
(* Qiskit's register has the circuit's width; its keys put qubit 0 last.   *)

ReadQiskit(c) == Counts(ToQiskit(c), NumQubits(c), Reverse(Register(NumQubits(c))))

IbmCounts(c) == Reversed(ReadQiskit(c))
AzureQiskitCounts(c) == Reversed(ReadQiskit(c))
AliceBobCounts(c) == Reversed(ReadQiskit(c))

\* The same register, read from qubit 0 on.
ReadForward(c, sent) == Counts(sent, NumQubits(c), Register(NumQubits(c)))

QuantinuumCounts(c) == ReadForward(c, ToPytket(c))
QristalCounts(c) == ReadForward(c, ToQiskit(c))
CudaqCounts(c) == ReadForward(c, ToQiskit(c))
IonqV04Counts(c) == ReadForward(c, ToQiskit(c))
QilisdkCounts(c) == ReadForward(c, c)

SmallGates == {"H", "X", "CNOT", "SWAP"}
CudaqAccepts(c) == HasOnly(c, SmallGates)
QilisdkAccepts(c) == HasOnly(c, SmallGates)
IonqV04Accepts(c) == Named(c) = Wires(c) /\ Wires(c) # {} /\ HasOnly(c, SmallGates)

-----------------------------------------------------------------------------
(* Cirq and PennyLane.                                                     *)

\* IonQ's serializer refuses identities: they are dropped, and every qubit of
\* the width is measured.
AzureCirqCounts(c) ==
    ReadForward(c, WithoutIdentities(ToCirq(c)))

\* The sorted wires of the script are read.
LightningCounts(c) ==
    Counts(ToPennylane(c), NumQubits(c), Ascending(Named(ToPennylane(c))))

-----------------------------------------------------------------------------
(* MarqovDevice.run: the provider is told from the backend and the params. *)

Params == SUBSET {"ibm_token", "channel", "azure_subscription_id", "subscription_id", "device_arn"}
Backends == {"local", "named"}

IsBraket(p) == "device_arn" \in p
IsAzure(p) ==
    \/ "azure_subscription_id" \in p
    \/ "subscription_id" \in p /\ ~IsBraket(p)
IsIbm(p) ==
    \/ "ibm_token" \in p
    \/ "channel" \in p /\ ~IsAzure(p) /\ ~IsBraket(p)

\* The provider whose device is made, and whose result is decoded.
DeviceOf(b, p) ==
    IF b = "local" THEN "braket"
    ELSE IF IsIbm(p) THEN "ibm"
    ELSE IF IsAzure(p) THEN "azure"
    ELSE IF IsBraket(p) THEN "braket" ELSE "none"

\* The format the circuit is sent in.
FormatOf(b, p) ==
    IF b = "local" THEN "braket"
    ELSE IF IsIbm(p) \/ IsAzure(p) THEN "qiskit" ELSE "braket"

\* Whether a circuit of identities only is refused first.
RefusesIdentities(b, p) ==
    \/ b = "local"
    \/ ~IsIbm(p) /\ ~IsAzure(p) /\ IsBraket(p)

\* The histogram of an Azure job is keyed as Qiskit keys it.
AzureJobCounts(counts) == Reversed(counts)

DeviceCounts(format, device, c) ==
    LET read == IF format = "qiskit" THEN ReadQiskit(c) ELSE ReadWorking(c, ToBraket(c))
    IN  CASE device = "ibm" -> Reversed(read)
          [] device = "azure" -> AzureJobCounts(read)
          [] device = "braket" -> Restored(c, read)

\* The distinct ways run() can take: refused first, sent, decoded.
DeviceWays ==
    {<<RefusesIdentities(w[1], w[2]), FormatOf(w[1], w[2]), DeviceOf(w[1], w[2])>> :
        w \in {v \in Backends \X Params : DeviceOf(v[1], v[2]) # "none"}}

-----------------------------------------------------------------------------
(* Every way of a circuit to counts: refused, or the counts it returns.    *)

\* A circuit exported to a framework and imported again.
Exported(lang, c) ==
    LET sent == CASE lang = "braket" -> ToBraket(c)
                  [] lang = "pyquil" -> ToPyquil(c)
                  [] lang = "qiskit" -> ToQiskit(c)
                  [] lang = "cirq" -> ToCirq(c)
                  [] lang = "pennylane" -> ToPennylane(c)
    IN  [i \in DOMAIN sent |-> [op |-> "gate", name |-> sent[i].name, on |-> sent[i].on]]

\* Braket and Quil lose the identity wires above every other gate.
Returns(c) == {"qiskit", "cirq", "pennylane"} \union
              (IF NumQubits(c) - 1 \in Working(c) THEN {"braket", "pyquil"} ELSE {})

ExecutorWays(c) ==
    {LocalCounts(c), IbmCounts(c), AzureQiskitCounts(c), AliceBobCounts(c), QuantinuumCounts(c),
     QristalCounts(c), AzureCirqCounts(c), LightningCounts(c)}
    \union {LocalCounts(Converted(lang, Exported(lang, c))) : lang \in Returns(c)}
    \union (IF DictRestores(c) THEN {LocalCounts(c)} ELSE {})
    \union (IF IdentityOnly(c) THEN {} ELSE {BraketCounts(c), RigettiCounts(c)})
    \union (IF CudaqAccepts(c) THEN {CudaqCounts(c)} ELSE {})
    \union (IF QilisdkAccepts(c) THEN {QilisdkCounts(c)} ELSE {})
    \union (IF IonqV04Accepts(c) THEN {IonqV04Counts(c)} ELSE {})

DeviceCountsOf(c) ==
    {DeviceCounts(w[2], w[3], c) : w \in {v \in DeviceWays : ~(v[1] /\ IdentityOnly(c))}}
=============================================================================

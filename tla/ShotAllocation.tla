--------------------------- MODULE ShotAllocation ---------------------------
(***************************************************************************)
(* allocate_counts of executors/_counts.py: a histogram of probabilities   *)
(* becomes counts.  A probability is probs[k]/Parts, in the order the      *)
(* histogram lists its bins; the float arithmetic is exact here.  One step *)
(* is one turn of a loop.                                                  *)
(***************************************************************************)
EXTENDS Integers, FiniteSets

CONSTANTS
    NBins,        \* the bins of a histogram are 1..NBins, in their order
    Parts,        \* a probability is a multiple of 1/Parts
    ShotNumbers   \* the shots a job asks for

ASSUME ShotAssumption ==
    NBins \in Nat \ {0} /\ Parts \in Nat \ {0} /\ ShotNumbers \subseteq Nat

Bins == 1..NBins

VARIABLES
    probs,      \* the histogram: bin -> numerator
    asked,      \* shots
    counts,     \* the counts so far
    leftover,   \* the shots still to hand out (positive) or to take back
    turn,       \* the loop index
    limit,      \* the turns the reclaiming loop may take
    phase       \* "floor", "handing", "reclaiming" or "done"

allocation == <<probs, asked, counts, leftover, turn, limit, phase>>

\* The sum of the first bins.
Sums(f) == LET sum[k \in 0..NBins] == IF k = 0 THEN 0 ELSE sum[k - 1] + f[k] IN sum
Total(f) == Sums(f)[NBins]

Floored(k) == (probs[k] * asked) \div Parts
Remainder(k) == (probs[k] * asked) % Parts

\* Largest remainder first, smallest remainder first; equal ones keep the
\* order of the histogram.
LargestFirst(j, k) == Remainder(j) > Remainder(k) \/ (Remainder(j) = Remainder(k) /\ j < k)
SmallestFirst(j, k) == Remainder(j) < Remainder(k) \/ (Remainder(j) = Remainder(k) /\ j < k)

\* Whose turn it is, round robin: the bin that as many others come before.
HandedTo(i) ==
    CHOOSE k \in Bins : Cardinality({j \in Bins : LargestFirst(j, k)}) = i % NBins
TakenFrom(i) ==
    CHOOSE k \in Bins : Cardinality({j \in Bins : SmallestFirst(j, k)}) = i % NBins

AllocationInit ==
    /\ probs \in [Bins -> 0..Parts] /\ asked \in ShotNumbers
    /\ counts = [k \in Bins |-> 0] /\ leftover = 0 /\ turn = 0 /\ limit = 0 /\ phase = "floor"

\* Every bin is floored; no shots leave no counts.
Floor ==
    /\ phase = "floor"
    /\ IF asked = 0
       THEN phase' = "done" /\ UNCHANGED <<counts, leftover, limit>>
       ELSE /\ counts' = [k \in Bins |-> Floored(k)]
            /\ leftover' = asked - Total(counts')
            /\ limit' = NBins * (1 - leftover')
            /\ phase' = IF leftover' >= 0 THEN "handing" ELSE "reclaiming"
    /\ UNCHANGED <<probs, asked, turn>>

Hand ==
    /\ phase = "handing" /\ turn < leftover
    /\ counts' = [counts EXCEPT ![HandedTo(turn)] = @ + 1]
    /\ turn' = turn + 1
    /\ UNCHANGED <<probs, asked, leftover, limit, phase>>

\* The bound of the reclaiming loop is computed once, before it: leftover
\* shrinks meanwhile.
MistakenBound == NBins * (1 - leftover)
Bound == limit

Reclaim ==
    /\ phase = "reclaiming" /\ leftover < 0 /\ turn < Bound
    /\ LET k == TakenFrom(turn)
       IN  IF counts[k] > 0
           THEN counts' = [counts EXCEPT ![k] = @ - 1] /\ leftover' = leftover + 1
           ELSE UNCHANGED <<counts, leftover>>
    /\ turn' = turn + 1
    /\ UNCHANGED <<probs, asked, limit, phase>>

Return ==
    /\ \/ phase = "handing" /\ turn >= leftover
       \/ phase = "reclaiming" /\ ~(leftover < 0 /\ turn < Bound)
    /\ phase' = "done"
    /\ UNCHANGED <<probs, asked, counts, leftover, turn, limit>>

AllocationNext == Floor \/ Hand \/ Reclaim \/ Return

AllocationSpec == AllocationInit /\ [][AllocationNext]_allocation

-----------------------------------------------------------------------------
(* Counts made of a histogram add up to the shots, whatever it sums to,    *)
(* and no count is negative; when it sums to one no bin is a whole shot    *)
(* away from its share, and when it sums to more an outcome of probability *)
(* 0 is not counted.                                                       *)
CountsExact ==
    phase = "done" =>
        /\ Total(counts) = asked
        /\ \A k \in Bins : counts[k] >= 0
        /\ Total(probs) = Parts =>
             \A k \in Bins : counts[k] \in {Floored(k), Floored(k) + 1}
        /\ Total(probs) >= Parts => \A k \in Bins : probs[k] = 0 => counts[k] = 0
=============================================================================

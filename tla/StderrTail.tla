----------------------------- MODULE StderrTail -----------------------------
(***************************************************************************)
(* _StderrTail (workflows/activity.py): the last bytes of a child's stderr *)
(* and the number of bytes dropped before them, which the error message of *)
(* a child without a result quotes.                                        *)
(*                                                                         *)
(* A byte is its position in the stream; a chunk is what one read of the   *)
(* pipe returned.  A component to be composed, as RemoteCall; Mistaken...  *)
(* operators are wrong versions of the definition after them.              *)
(***************************************************************************)
EXTENDS Naturals, SequencesExt

CONSTANTS
    Limit,          \* MAX_STDERR_TAIL_BYTES
    ChunkSizes,     \* how many bytes a read may return
    MaxBytes        \* bound on the bytes the task writes

ASSUME LimitAssumption == Limit \in Nat \ {0} /\ MaxBytes \in Nat
ASSUME ChunkSizesAssumption == ChunkSizes \subseteq Nat \ {0}

VARIABLES
    chunks,         \* self._chunks
    size,           \* self._size
    dropped,        \* self.dropped
    fed             \* bytes read so far

tail == <<chunks, size, dropped, fed>>

TailInit == chunks = <<>> /\ size = 0 /\ dropped = 0 /\ fed = 0

\* The bytes in the first k of the chunks cs.
FirstBytes(cs, k) == Len(FlattenSeq(SubSeq(cs, 1, k)))

\* The while loop: whether the chunk after the first k goes too.
MistakenEvicts(cs, total, k) == k < Len(cs) /\ total - FirstBytes(cs, k) > Limit
Evicts(cs, total, k) == k < Len(cs) /\ total - FirstBytes(cs, k + 1) >= Limit

Evicted(cs, total) ==
    CHOOSE k \in 0..Len(cs) :
        /\ ~Evicts(cs, total, k)
        /\ \A j \in 0..(k - 1) : Evicts(cs, total, j)

\* Whole chunks go first, then the beginning of the oldest one left.
Feed(n) ==
    LET all    == Append(chunks, [i \in 1..n |-> fed + i])
        gone   == Evicted(all, size + n)
        left   == SubSeq(all, gone + 1, Len(all))
        total  == size + n - FirstBytes(all, gone)
        excess == IF total > Limit THEN total - Limit ELSE 0
    IN  /\ chunks' = IF excess = 0 THEN left
                     ELSE <<SubSeq(Head(left), excess + 1, Len(Head(left)))>> \o Tail(left)
        /\ size' = total - excess
        /\ dropped' = dropped + FirstBytes(all, gone) + excess
        /\ fed' = fed + n

\* What text() decodes.
Kept == FlattenSeq(chunks)

\* _drain_stderr: one read of the pipe.
ReadChunk == \E n \in ChunkSizes : fed + n <= MaxBytes /\ Feed(n)
---------------------------------------------------------------------------
(* Properties.                                                             *)

\* The tail is what it is said to be, however the stream is cut into chunks:
\* the most recent bytes, as many as the limit allows and in order, after
\* exactly as many dropped ones as the message says.
TailExact ==
    /\ Kept = [i \in 1..(fed - dropped) |-> dropped + i]
    /\ Len(Kept) = IF fed < Limit THEN fed ELSE Limit
=============================================================================

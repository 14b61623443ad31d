------------------------- MODULE ConversionsProofs -------------------------
(***************************************************************************)
(* Proofs about Conversions, for any programs, circuits and histograms.    *)
(*                                                                         *)
(* The counts of a circuit: running it, flattening, selecting and padding  *)
(* are recursive, so what they compute is proved by induction over a set   *)
(* of numbers; keys that tell the outcomes apart give each the weight of   *)
(* one amplitude, and every way from a circuit to its counts reads such    *)
(* keys of the same amplitudes.  An import: an accepted program measures a *)
(* wire only when nothing moves it any more, so the wires its simulation   *)
(* copies the measurements to repeat the measured ones to the end.         *)
(*                                                                         *)
(* An allocation: the rounds of its loops are counted, and the bound of    *)
(* the reclaiming one is shown to be enough.                               *)
(***************************************************************************)
EXTENDS Conversions, SequenceTheorems, FiniteSetTheorems, WellFoundedInduction, TLAPS

---------------------------------------------------------------------------
(* Induction over numbers and sequences.                                   *)

\* A set of numbers has a least one; a set with 0 that is closed under
\* successors up to a bound holds all numbers up to it.
LEMMA LeastNumber ==
    ASSUME NEW T \in SUBSET Nat, T # {}
    PROVE  \E x \in T : \A y \in T : x <= y
<1>1. PICK x \in T : \A y \in T : ~(<<y, x>> \in OpToRel(<, Nat))
  BY NatLessThanWellFounded, WFMin, Zenon
<1>2. ASSUME NEW y \in T, y < x PROVE <<y, x>> \in OpToRel(<, Nat)
  BY <1>2 DEF OpToRel
<1>3. \A y \in T : ~(y < x)
  BY <1>1, <1>2, Zenon
<1> QED BY <1>3

LEMMA BoundedInduction ==
    ASSUME NEW N \in Nat, NEW S, 0 \in S, \A n \in 0..(N - 1) : n \in S => n + 1 \in S
    PROVE  \A n \in 0..N : n \in S
<1> DEFINE T == (0..N) \ S
<1>1. SUFFICES ASSUME T # {} PROVE FALSE
  OBVIOUS
<1>2. PICK x \in T : \A y \in T : x <= y
  <2>1. T \in SUBSET Nat
    OBVIOUS
  <2> QED BY <1>1, <2>1, LeastNumber
<1>3. x \in Nat /\ x # 0 /\ x <= N /\ x \notin S
  BY <1>2
<1>4. x - 1 \in 0..(N - 1) /\ x - 1 \notin T /\ (x - 1) + 1 = x
  BY <1>2, <1>3
<1>5. x - 1 \in S
  BY <1>3, <1>4
<1> QED BY <1>3, <1>4, <1>5

\* A prefix is the next shorter one with an element appended.
LEMMA PrefixAppend ==
    ASSUME NEW G, NEW c \in Seq(G), NEW n \in 0..(Len(c) - 1)
    PROVE  /\ SubSeq(c, 1, n) \in Seq(G) /\ c[n + 1] \in G
           /\ SubSeq(c, 1, n + 1) = Append(SubSeq(c, 1, n), c[n + 1])
<1>1. 1 \in 1..Len(c) /\ n + 1 \in 1..Len(c) /\ (n + 1) - 1 = n /\ n + 1 \in Nat
  BY LenProperties
<1>2. SubSeq(c, 1, n + 1) = SubSeq(c, 1, n) \o <<c[n + 1]>>
  BY <1>1, SubSeqRecursiveSecond
<1>3. SubSeq(c, 1, n) \in Seq(G) /\ c[n + 1] \in G
  <2>1. \A i \in 1..n : c[i] \in G
    BY <1>1
  <2> QED BY <2>1, <1>1, SubSeqProperties
<1> QED BY <1>2, <1>3, AppendIsConcat

\* A set with the empty sequence that is closed under appending holds all sequences.
LEMMA SequenceInduction ==
    ASSUME NEW G, NEW S, <<>> \in S,
           \A c \in Seq(G), g \in G : c \in S => Append(c, g) \in S
    PROVE  \A c \in Seq(G) : c \in S
<1> TAKE c \in Seq(G)
<1> DEFINE T == {n \in Nat : SubSeq(c, 1, n) \in S}
<1>0. Len(c) \in Nat
  OBVIOUS
<1>1. 0 \in T
  <2>1. SubSeq(c, 1, 0) = <<>>
    BY SubSeqEmpty, 1 \in Int, 0 \in Int, 0 < 1
  <2> QED BY <2>1
<1>2. ASSUME NEW n \in 0..(Len(c) - 1), n \in T PROVE n + 1 \in T
  <2>1. SubSeq(c, 1, n) \in Seq(G) /\ c[n + 1] \in G
        /\ SubSeq(c, 1, n + 1) = Append(SubSeq(c, 1, n), c[n + 1])
    BY PrefixAppend
  <2>2. n + 1 \in Nat /\ SubSeq(c, 1, n) \in S
    BY <1>0, <1>2
  <2>3. Append(SubSeq(c, 1, n), c[n + 1]) \in S
    BY <2>1, <2>2
  <2> QED BY <2>1, <2>2, <2>3
<1> HIDE DEF T
<1>3. Len(c) \in T
  <2>1. \A n \in 0..Len(c) : n \in T
    BY <1>0, <1>1, <1>2, BoundedInduction
  <2> QED BY <2>1, <1>0
<1> QED BY <1>3, SubSeqFull, ZenonT(30) DEF T

---------------------------------------------------------------------------
(* A circuit is run gate by gate.                                          *)

Runs(h, c) == FoldLeft(Evolve, h, c)

Through(s, h, c) ==
    s[0] = h /\ \A i \in 1..Len(c) : s[i] = Evolve(s[i - 1], c[i])

\* A run of a circuit has a state before the first gate and after each gate.
LEMMA RunStates ==
    ASSUME NEW G, NEW c \in Seq(G), NEW h
    PROVE  \E s : Through(s, h, c) /\ Runs(h, c) = s[Len(c)]
<1> DEFINE N == Len(c)
           Folds(f, n) == f = [x \in SUBSET (1..n) |->
                                  IF x = {} THEN h ELSE Evolve(f[x \ {Max(x)}], c[Max(x)])]
           S == {n \in 0..N : \E f : Folds(f, n)}
<1>0. N \in Nat /\ DOMAIN c = 1..N
  OBVIOUS
<1> HIDE DEF N
<1>1. ASSUME NEW n \in Nat, NEW x \in SUBSET (1..n), n \in x PROVE Max(x) = n
  <2> DEFINE Top(y) == \A z \in x : y >= z
  <2>1. n \in x /\ Top(n)
    BY <1>1
  <2>2. \A y \in x : Top(y) => y = n
    BY <1>1
  <2>3. Max(x) = CHOOSE y \in x : Top(y)
    BY DEF Max
  <2> HIDE DEF Top
  <2> QED BY <2>1, <2>2, <2>3
<1>2. 0 \in S
  <2>1. Folds([x \in SUBSET (1..0) |-> h], 0)
    OBVIOUS
  <2> QED BY <2>1, <1>0
<1>3. ASSUME NEW n \in 0..(N - 1), n \in S PROVE n + 1 \in S
  <2>1. PICK f : Folds(f, n)
    BY <1>3
  <2> DEFINE g == [x \in SUBSET (1..(n + 1)) |->
                      IF n + 1 \in x THEN Evolve(f[x \ {n + 1}], c[n + 1]) ELSE f[x]]
  <2>2. ASSUME NEW x \in SUBSET (1..(n + 1))
        PROVE  g[x] = IF x = {} THEN h ELSE Evolve(g[x \ {Max(x)}], c[Max(x)])
    <3>1. CASE n + 1 \in x
      <4>1. Max(x) = n + 1
        BY <3>1, <1>1
      <4>2. x \ {n + 1} \in SUBSET (1..(n + 1)) /\ n + 1 \notin x \ {n + 1}
        OBVIOUS
      <4>3. g[x \ {n + 1}] = f[x \ {n + 1}] /\ g[x] = Evolve(f[x \ {n + 1}], c[n + 1])
        BY <4>2, <3>1
      <4> QED BY <4>1, <4>3, <3>1
    <3>2. CASE n + 1 \notin x
      <4>1. x \in SUBSET (1..n)
        BY <3>2
      <4>2. f[x] = IF x = {} THEN h ELSE Evolve(f[x \ {Max(x)}], c[Max(x)])
        BY <4>1, <2>1
      <4>3. g[x] = f[x]
        BY <3>2
      <4>4. x \ {Max(x)} \in SUBSET (1..(n + 1)) /\ n + 1 \notin x \ {Max(x)}
        BY <3>2
      <4>5. g[x \ {Max(x)}] = f[x \ {Max(x)}]
        BY <4>4
      <4> HIDE DEF g, Folds
      <4> QED BY <4>2, <4>3, <4>5
    <3> QED BY <3>1, <3>2
  <2>3. g = [x \in SUBSET (1..(n + 1)) |-> g[x]]
    OBVIOUS
  <2> HIDE DEF g
  <2>4. Folds(g, n + 1)
    BY <2>2, <2>3
  <2>5. n + 1 \in 0..N
    BY <1>0
  <2> HIDE DEF Folds
  <2> QED BY <2>4, <2>5
<1>4. PICK f : Folds(f, N)
  <2> HIDE DEF S
  <2>1. \A n \in 0..N : n \in S
    BY <1>0, <1>2, <1>3, BoundedInduction
  <2>2. N \in 0..N
    BY <1>0
  <2> HIDE DEF Folds
  <2> QED BY <2>1, <2>2 DEF S
<1> DEFINE d == CHOOSE e : Folds(e, N)
<1>5. Folds(d, N)
  <2> HIDE DEF Folds
  <2> QED BY <1>4
<1>6. Runs(h, c) = d[1..N]
  BY <1>0, Zenon DEF Runs, FoldLeft, MapThenFoldSet
<1> HIDE DEF d
<1> DEFINE s == [i \in 0..N |-> d[1..i]]
<1>7. s[0] = h
  <2>1. 1..0 = {} /\ {} \in SUBSET (1..N) /\ 0 \in 0..N
    BY <1>0
  <2>2. d[{}] = h
    BY <2>1, <1>5
  <2> QED BY <2>1, <2>2
<1>8. ASSUME NEW i \in 1..N PROVE s[i] = Evolve(s[i - 1], c[i])
  <2>1. 1..i \in SUBSET (1..N) /\ 1..i # {} /\ i \in 1..i /\ i \in Nat
    BY <1>0
  <2>2. Max(1..i) = i
    BY <2>1, <1>1
  <2>3. (1..i) \ {i} = 1..(i - 1)
    BY <2>1
  <2>4. d[1..i] = Evolve(d[(1..i) \ {Max(1..i)}], c[Max(1..i)])
    BY <2>1, <1>5
  <2>5. d[1..i] = Evolve(d[1..(i - 1)], c[i])
    BY <2>2, <2>3, <2>4
  <2>6. i \in 0..N /\ i - 1 \in 0..N
    BY <1>0
  <2> HIDE DEF Folds
  <2> QED BY <2>5, <2>6
<1>9. s[N] = d[1..N]
  BY <1>0
<1> HIDE DEF s
<1>10. Through(s, h, c)
  BY <1>7, <1>8 DEF Through, N
<1> QED BY <1>6, <1>9, <1>10 DEF N

\* One more gate is one more step.
LEMMA RunAppend ==
    ASSUME NEW G, NEW c \in Seq(G), NEW g \in G, NEW h
    PROVE  Runs(h, Append(c, g)) = Evolve(Runs(h, c), g)
<1> DEFINE d == Append(c, g)
           N == Len(c)
<1>1. d \in Seq(G) /\ N \in Nat /\ Len(d) = N + 1 /\ d[N + 1] = g /\ \A i \in 1..N : d[i] = c[i]
  BY AppendProperties
<1> HIDE DEF d
<1>2. PICK s : Through(s, h, c) /\ Runs(h, c) = s[N]
  BY RunStates
<1>3. PICK t : Through(t, h, d) /\ Runs(h, d) = t[N + 1]
  BY <1>1, RunStates
<1> DEFINE S == {n \in 0..N : s[n] = t[n]}
<1>4. 0 \in S
  BY <1>1, <1>2, <1>3 DEF Through
<1>5. ASSUME NEW n \in 0..(N - 1), n \in S PROVE n + 1 \in S
  <2>1. n + 1 \in 1..N /\ n + 1 \in 1..(N + 1) /\ (n + 1) - 1 = n
    BY <1>1
  <2>2. s[n + 1] = Evolve(s[n], c[n + 1]) /\ t[n + 1] = Evolve(t[n], d[n + 1])
    BY <2>1, <1>1, <1>2, <1>3 DEF Through
  <2> QED BY <2>1, <2>2, <1>1, <1>5
<1> HIDE DEF S, N
<1>6. N \in S
  <2>1. \A n \in 0..N : n \in S
    BY <1>1, <1>4, <1>5, BoundedInduction
  <2> QED BY <2>1, <1>1
<1>7. t[N + 1] = Evolve(t[N], g)
  <2>1. N + 1 \in 1..(N + 1) /\ (N + 1) - 1 = N
    BY <1>1
  <2> QED BY <2>1, <1>1, <1>3 DEF Through
<1> QED BY <1>2, <1>3, <1>6, <1>7 DEF S, d

\* No gates change nothing.
LEMMA RunNothing ==
    ASSUME NEW h
    PROVE  Runs(h, <<>>) = h
<1>1. PICK s : Through(s, h, <<>>) /\ Runs(h, <<>>) = s[Len(<<>>)]
  <2>1. <<>> \in Seq({})
    OBVIOUS
  <2> QED BY <2>1, RunStates
<1> QED BY <1>1 DEF Through

\* One gate is one step.
LEMMA RunGate ==
    ASSUME NEW h, NEW g
    PROVE  Runs(h, <<g>>) = Evolve(h, g)
<1>1. <<>> \in Seq({g}) /\ Append(<<>>, g) = <<g>>
  OBVIOUS
<1> QED BY <1>1, RunAppend, RunNothing, ZenonT(30)

\* A circuit after another starts from what the first one left.
LEMMA RunConcat ==
    ASSUME NEW G, NEW c \in Seq(G), NEW d \in Seq(G), NEW h
    PROVE  Runs(h, c \o d) = Runs(Runs(h, c), d)
<1> DEFINE S == {e \in Seq(G) : Runs(h, c \o e) = Runs(Runs(h, c), e)}
<1>1. <<>> \in S
  <2>1. c \o <<>> = c
    BY ConcatEmptySeq
  <2> QED BY <2>1, RunNothing
<1>2. ASSUME NEW e \in Seq(G), NEW g \in G, e \in S PROVE Append(e, g) \in S
  <2>1. c \o Append(e, g) = Append(c \o e, g) /\ c \o e \in Seq(G) /\ Append(e, g) \in Seq(G)
    OBVIOUS
  <2>2. Runs(h, Append(c \o e, g)) = Evolve(Runs(h, c \o e), g)
    BY <2>1, RunAppend
  <2>3. Runs(Runs(h, c), Append(e, g)) = Evolve(Runs(Runs(h, c), e), g)
    BY RunAppend
  <2> QED BY <2>1, <2>2, <2>3, <1>2
<1> HIDE DEF S
<1>3. \A e \in Seq(G) : e \in S
  BY <1>1, <1>2, SequenceInduction
<1> QED BY <1>3 DEF S

---------------------------------------------------------------------------
(* A sequence of blocks, one after another.                                *)

Flattening(f, bs) ==
    f[1] = bs[1] /\ \A i \in 2..Len(bs) : f[i] = f[i - 1] \o bs[i]

\* Flattening has an intermediate result for each block.
LEMMA FlattenStates ==
    ASSUME NEW G, NEW bs \in Seq(Seq(G)), bs # <<>>
    PROVE  \E f : Flattening(f, bs) /\ FlattenSeq(bs) = f[Len(bs)]
<1> DEFINE N == Len(bs)
           Blocks(f, n) == f = [i \in 1..n |-> IF i = 1 THEN bs[i] ELSE f[i - 1] \o bs[i]]
           S == {n \in 0..N : \E f : Blocks(f, n)}
<1>0. N \in Nat /\ N # 0 /\ DOMAIN bs = 1..N
  BY EmptySeq
<1> HIDE DEF N
<1>1. 0 \in S
  <2>1. Blocks([i \in 1..0 |-> 0], 0)
    OBVIOUS
  <2> HIDE DEF Blocks
  <2> QED BY <2>1, <1>0
<1>2. ASSUME NEW n \in 0..(N - 1), n \in S PROVE n + 1 \in S
  <2>1. PICK f : Blocks(f, n)
    BY <1>2
  <2> DEFINE g == [i \in 1..(n + 1) |-> IF i = n + 1
                                        THEN IF i = 1 THEN bs[i] ELSE f[i - 1] \o bs[i]
                                        ELSE f[i]]
  <2>2. ASSUME NEW i \in 1..(n + 1)
        PROVE  g[i] = IF i = 1 THEN bs[i] ELSE g[i - 1] \o bs[i]
    <3>1. CASE i = n + 1
      <4>1. i # 1 => i - 1 \in 1..(n + 1) /\ i - 1 # n + 1
        BY <3>1
      <4>2. i # 1 => g[i - 1] = f[i - 1]
        BY <4>1
      <4> QED BY <4>2, <3>1
    <3>2. CASE i # n + 1
      <4>1. i \in 1..n /\ (i # 1 => i - 1 \in 1..(n + 1) /\ i - 1 # n + 1)
        BY <3>2
      <4>2. f[i] = IF i = 1 THEN bs[i] ELSE f[i - 1] \o bs[i]
        BY <4>1, <2>1
      <4>3. i # 1 => g[i - 1] = f[i - 1]
        BY <4>1
      <4> QED BY <4>2, <4>3, <3>2
    <3> QED BY <3>1, <3>2
  <2>3. g = [i \in 1..(n + 1) |-> g[i]]
    OBVIOUS
  <2> HIDE DEF g
  <2>4. Blocks(g, n + 1)
    BY <2>2, <2>3
  <2>5. n + 1 \in 0..N
    BY <1>0
  <2> HIDE DEF Blocks
  <2> QED BY <2>4, <2>5
<1>3. PICK f : Blocks(f, N)
  <2> HIDE DEF S
  <2>1. \A n \in 0..N : n \in S
    BY <1>0, <1>1, <1>2, BoundedInduction
  <2>2. N \in 0..N
    BY <1>0
  <2> HIDE DEF Blocks
  <2> QED BY <2>1, <2>2 DEF S
<1> DEFINE d == CHOOSE e : Blocks(e, N)
<1>4. Blocks(d, N)
  <2> HIDE DEF Blocks
  <2> QED BY <1>3
<1>5. FlattenSeq(bs) = d[N]
  BY <1>0 DEF FlattenSeq, N
<1> HIDE DEF d
<1>6. Flattening(d, bs)
  <2>1. 1 \in 1..N /\ \A i \in 2..N : i \in 1..N /\ i # 1
    BY <1>0
  <2>2. d[1] = bs[1]
    BY <2>1, <1>4
  <2>3. ASSUME NEW i \in 2..N PROVE d[i] = d[i - 1] \o bs[i]
    BY <2>1, <1>4
  <2> HIDE DEF Blocks
  <2> QED BY <2>2, <2>3 DEF Flattening, N
<1> QED BY <1>5, <1>6 DEF N

\* No blocks are an empty sequence.
LEMMA FlattenNothing == FlattenSeq(<<>>) = <<>>
<1>1. Len(<<>>) = 0
  OBVIOUS
<1> QED BY <1>1 DEF FlattenSeq

\* Blocks over a set flatten to a sequence over it.
LEMMA FlattenType ==
    ASSUME NEW G, NEW bs \in Seq(Seq(G))
    PROVE  FlattenSeq(bs) \in Seq(G)
<1>1. CASE bs = <<>>
  BY <1>1, FlattenNothing, EmptySeq
<1>2. CASE bs # <<>>
  <2> DEFINE N == Len(bs)
  <2>0. N \in Nat /\ N # 0 /\ \A i \in 1..N : bs[i] \in Seq(G)
    BY <1>2, EmptySeq, LenProperties
  <2>1. PICK f : Flattening(f, bs) /\ FlattenSeq(bs) = f[N]
    BY <1>2, FlattenStates
  <2> DEFINE S == {n \in 0..(N - 1) : f[n + 1] \in Seq(G)}
  <2>2. 0 \in S
    BY <2>0, <2>1 DEF Flattening
  <2>3. ASSUME NEW n \in 0..(N - 1 - 1), n \in S PROVE n + 1 \in S
    <3>1. (n + 1) + 1 \in 2..N /\ ((n + 1) + 1) - 1 = n + 1 /\ n + 1 \in 0..(N - 1)
          /\ (n + 1) + 1 \in 1..N
      BY <2>0
    <3>2. f[(n + 1) + 1] = f[n + 1] \o bs[(n + 1) + 1]
      BY <3>1, <2>1 DEF Flattening
    <3>3. f[n + 1] \in Seq(G) /\ bs[(n + 1) + 1] \in Seq(G)
      BY <3>1, <2>0, <2>3
    <3>4. f[(n + 1) + 1] \in Seq(G)
      BY <3>2, <3>3, ConcatProperties
    <3> QED BY <3>4, <3>1
  <2> HIDE DEF S, N
  <2>4. N - 1 \in Nat /\ N - 1 \in 0..(N - 1) /\ (N - 1) + 1 = N
    BY <2>0
  <2>5. \A n \in 0..(N - 1) : n \in S
    BY <2>2, <2>3, <2>4, BoundedInduction
  <2>6. N - 1 \in S
    BY <2>4, <2>5
  <2> QED BY <2>1, <2>4, <2>6 DEF S
<1> QED BY <1>1, <1>2

\* One more block is appended to the flattened ones.
LEMMA FlattenAppend ==
    ASSUME NEW G, NEW bs \in Seq(Seq(G)), NEW b \in Seq(G)
    PROVE  FlattenSeq(Append(bs, b)) = FlattenSeq(bs) \o b
<1> DEFINE ds == Append(bs, b)
           N == Len(bs)
<1>1. ds \in Seq(Seq(G)) /\ ds # <<>> /\ N \in Nat /\ Len(ds) = N + 1 /\ ds[N + 1] = b
      /\ \A i \in 1..N : ds[i] = bs[i]
  BY AppendProperties
<1> HIDE DEF ds
<1>2. PICK g : Flattening(g, ds) /\ FlattenSeq(ds) = g[N + 1]
  BY <1>1, FlattenStates
<1>3. CASE bs = <<>>
  <2>1. N = 0 /\ N + 1 = 1
    BY <1>3
  <2>2. FlattenSeq(ds) = b
    BY <2>1, <1>1, <1>2 DEF Flattening
  <2>3. <<>> \o b = b
    BY ConcatEmptySeq
  <2> QED BY <2>2, <2>3, <1>3, FlattenNothing DEF ds
<1>4. CASE bs # <<>>
  <2>0. N # 0
    BY <1>4, EmptySeq
  <2>1. PICK f : Flattening(f, bs) /\ FlattenSeq(bs) = f[N]
    BY <1>4, FlattenStates
  <2> DEFINE S == {n \in 0..(N - 1) : f[n + 1] = g[n + 1]}
  <2>2. 0 \in S
    BY <2>0, <1>1, <1>2, <2>1 DEF Flattening
  <2>3. ASSUME NEW n \in 0..(N - 1 - 1), n \in S PROVE n + 1 \in S
    <3>1. (n + 1) + 1 \in 2..N /\ ((n + 1) + 1) - 1 = n + 1 /\ n + 1 \in 0..(N - 1)
          /\ (n + 1) + 1 \in 1..N /\ (n + 1) + 1 \in 2..(N + 1)
      BY <2>0, <1>1
    <3>2. f[(n + 1) + 1] = f[n + 1] \o bs[(n + 1) + 1]
      BY <3>1, <2>1 DEF Flattening
    <3>3. g[(n + 1) + 1] = g[n + 1] \o ds[(n + 1) + 1]
      BY <3>1, <1>1, <1>2 DEF Flattening
    <3>4. f[(n + 1) + 1] = g[(n + 1) + 1]
      BY <3>1, <3>2, <3>3, <1>1, <2>3
    <3> QED BY <3>4, <3>1
  <2> HIDE DEF S, N
  <2>4. N - 1 \in Nat /\ N - 1 \in 0..(N - 1) /\ (N - 1) + 1 = N
    BY <2>0, <1>1
  <2>5. \A n \in 0..(N - 1) : n \in S
    BY <2>2, <2>3, <2>4, BoundedInduction
  <2>6. f[N] = g[N]
    BY <2>4, <2>5 DEF S
  <2>7. g[N + 1] = g[N] \o b
    <3>1. N + 1 \in 2..(N + 1) /\ (N + 1) - 1 = N
      BY <2>0, <1>1
    <3> QED BY <3>1, <1>1, <1>2 DEF Flattening
  <2> QED BY <2>1, <2>6, <2>7, <1>2 DEF ds
<1> QED BY <1>3, <1>4

\* A circuit in blocks is run block by block.
LEMMA RunBlocks ==
    ASSUME NEW G, NEW bs \in Seq(Seq(G)), NEW h
    PROVE  \E s : /\ s[0] = h
                  /\ \A i \in 1..Len(bs) : s[i] = Runs(s[i - 1], bs[i])
                  /\ Runs(h, FlattenSeq(bs)) = s[Len(bs)]
<1> DEFINE N == Len(bs)
           s == [i \in 0..N |-> Runs(h, FlattenSeq(SubSeq(bs, 1, i)))]
<1>0. N \in Nat /\ 0 \in 0..N /\ N \in 0..N
  OBVIOUS
<1>1. s[0] = h
  <2>1. SubSeq(bs, 1, 0) = <<>>
    BY SubSeqEmpty, 1 \in Int, 0 \in Int, 0 < 1
  <2> QED BY <2>1, <1>0, FlattenNothing, RunNothing
<1>2. ASSUME NEW i \in 1..N PROVE s[i] = Runs(s[i - 1], bs[i])
  <2>1. i - 1 \in 0..(N - 1) /\ (i - 1) + 1 = i /\ i \in 0..N /\ i - 1 \in 0..N
    BY <1>0
  <2>2. /\ SubSeq(bs, 1, i - 1) \in Seq(Seq(G)) /\ bs[i] \in Seq(G)
        /\ SubSeq(bs, 1, i) = Append(SubSeq(bs, 1, i - 1), bs[i])
    <3> DEFINE j == i - 1
    <3> HIDE DEF j
    <3>1. j \in 0..(N - 1) /\ j + 1 = i
      BY <2>1 DEF j
    <3>2. /\ SubSeq(bs, 1, j) \in Seq(Seq(G)) /\ bs[j + 1] \in Seq(G)
          /\ SubSeq(bs, 1, j + 1) = Append(SubSeq(bs, 1, j), bs[j + 1])
      BY <3>1, PrefixAppend
    <3> QED BY <3>1, <3>2 DEF j
  <2>3. FlattenSeq(SubSeq(bs, 1, i)) = FlattenSeq(SubSeq(bs, 1, i - 1)) \o bs[i]
    BY <2>2, FlattenAppend
  <2>4. FlattenSeq(SubSeq(bs, 1, i - 1)) \in Seq(G)
    BY <2>2, FlattenType
  <2>5. Runs(h, FlattenSeq(SubSeq(bs, 1, i - 1)) \o bs[i])
        = Runs(Runs(h, FlattenSeq(SubSeq(bs, 1, i - 1))), bs[i])
    BY <2>2, <2>4, RunConcat
  <2>6. s[i] = Runs(h, FlattenSeq(SubSeq(bs, 1, i)))
        /\ s[i - 1] = Runs(h, FlattenSeq(SubSeq(bs, 1, i - 1)))
    BY <2>1
  <2> QED BY <2>3, <2>5, <2>6
<1>3. s[N] = Runs(h, FlattenSeq(bs))
  BY <1>0, SubSeqFull
<1> HIDE DEF s
<1> QED BY <1>1, <1>2, <1>3

\* The elements of a concatenation.
LEMMA ElementsConcat ==
    ASSUME NEW G, NEW c \in Seq(G), NEW d \in Seq(G)
    PROVE  ToSet(c \o d) = ToSet(c) \union ToSet(d)
<1>1. Len(c) \in Nat /\ Len(d) \in Nat
  OBVIOUS
<1>2. /\ c \o d \in Seq(G) /\ Len(c \o d) = Len(c) + Len(d)
      /\ \A i \in 1..(Len(c) + Len(d)) : (c \o d)[i] = IF i <= Len(c) THEN c[i] ELSE d[i - Len(c)]
  BY ConcatProperties
<1>3. DOMAIN c = 1..Len(c) /\ DOMAIN d = 1..Len(d) /\ DOMAIN (c \o d) = 1..(Len(c) + Len(d))
  BY <1>2
<1>4. ASSUME NEW i \in 1..(Len(c) + Len(d)) PROVE (c \o d)[i] \in ToSet(c) \union ToSet(d)
  <2>1. CASE i <= Len(c)
    <3>1. i \in DOMAIN c /\ (c \o d)[i] = c[i]
      BY <2>1, <1>1, <1>2, <1>3
    <3> QED BY <3>1 DEF ToSet
  <2>2. CASE ~(i <= Len(c))
    <3>1. i - Len(c) \in DOMAIN d /\ (c \o d)[i] = d[i - Len(c)]
      BY <2>2, <1>1, <1>2, <1>3
    <3> QED BY <3>1 DEF ToSet
  <2> QED BY <2>1, <2>2
<1>5. ASSUME NEW i \in 1..Len(c) PROVE c[i] \in ToSet(c \o d)
  <2>1. i \in 1..(Len(c) + Len(d)) /\ i <= Len(c)
    BY <1>1
  <2> QED BY <2>1, <1>2, <1>3 DEF ToSet
<1>6. ASSUME NEW i \in 1..Len(d) PROVE d[i] \in ToSet(c \o d)
  <2>1. i + Len(c) \in 1..(Len(c) + Len(d)) /\ ~(i + Len(c) <= Len(c)) /\ (i + Len(c)) - Len(c) = i
    BY <1>1
  <2>2. (c \o d)[i + Len(c)] = d[i]
    BY <2>1, <1>2
  <2> QED BY <2>1, <2>2, <1>3 DEF ToSet
<1>7. \A x \in ToSet(c \o d) : x \in ToSet(c) \union ToSet(d)
  <2>1. ToSet(c \o d) = {(c \o d)[i] : i \in 1..(Len(c) + Len(d))}
    BY <1>3 DEF ToSet
  <2> QED BY <2>1, <1>4
<1>8. \A x \in ToSet(c) \union ToSet(d) : x \in ToSet(c \o d)
  <2>1. ToSet(c) = {c[i] : i \in 1..Len(c)} /\ ToSet(d) = {d[i] : i \in 1..Len(d)}
    BY <1>3 DEF ToSet
  <2> QED BY <2>1, <1>5, <1>6
<1> QED BY <1>7, <1>8

\* The elements after appending one.
LEMMA ElementsAppend ==
    ASSUME NEW G, NEW c \in Seq(G), NEW g \in G
    PROVE  ToSet(Append(c, g)) = ToSet(c) \union {g}
<1> DEFINE d == Append(c, g)
<1>1. Len(c) \in Nat /\ d \in Seq(G) /\ Len(d) = Len(c) + 1 /\ d[Len(c) + 1] = g
      /\ \A i \in 1..Len(c) : d[i] = c[i]
  BY AppendProperties, LenProperties
<1>2. DOMAIN c = 1..Len(c) /\ DOMAIN d = 1..(Len(c) + 1)
  BY <1>1, LenProperties
<1> HIDE DEF d
<1>3. \A i \in 1..(Len(c) + 1) : i \in 1..Len(c) \/ i = Len(c) + 1
  BY <1>1
<1>4. \A i \in 1..Len(c) : i \in 1..(Len(c) + 1)
  BY <1>1
<1>5. Len(c) + 1 \in 1..(Len(c) + 1)
  BY <1>1
<1>6. ToSet(d) = ToSet(c) \union {g}
  BY <1>1, <1>2, <1>3, <1>4, <1>5 DEF ToSet
<1> QED BY <1>6 DEF d

\* The elements of flattened blocks are those of the blocks.
LEMMA FlattenElements ==
    ASSUME NEW G, NEW bs \in Seq(Seq(G))
    PROVE  ToSet(FlattenSeq(bs)) = UNION {ToSet(bs[i]) : i \in DOMAIN bs}
<1> DEFINE Pieces(ds) == UNION {ToSet(b) : b \in ToSet(ds)}
           S == {ds \in Seq(Seq(G)) : ToSet(FlattenSeq(ds)) = Pieces(ds)}
<1>1. <<>> \in S
  <2>1. DOMAIN <<>> = {}
    OBVIOUS
  <2>2. ToSet(<<>>) = {}
    BY <2>1 DEF ToSet
  <2> QED BY <2>2, FlattenNothing, EmptySeq
<1>2. ASSUME NEW ds \in Seq(Seq(G)), NEW b \in Seq(G), ds \in S PROVE Append(ds, b) \in S
  <2>1. ToSet(FlattenSeq(Append(ds, b))) = ToSet(FlattenSeq(ds)) \union ToSet(b)
    <3>1. FlattenSeq(Append(ds, b)) = FlattenSeq(ds) \o b
      BY FlattenAppend
    <3>2. FlattenSeq(ds) \in Seq(G)
      BY FlattenType
    <3> QED BY <3>1, <3>2, ElementsConcat
  <2>2. ToSet(Append(ds, b)) = ToSet(ds) \union {b}
    BY ElementsAppend
  <2>3. Pieces(Append(ds, b)) = Pieces(ds) \union ToSet(b)
    BY <2>2
  <2>4. Append(ds, b) \in Seq(Seq(G))
    OBVIOUS
  <2> HIDE DEF Pieces
  <2> QED BY <2>1, <2>3, <2>4, <1>2
<1>3. \A ds \in Seq(Seq(G)) : ds \in S
  <2> HIDE DEF S
  <2> QED BY <1>1, <1>2, SequenceInduction
<1>4. Pieces(bs) = UNION {ToSet(bs[i]) : i \in DOMAIN bs}
  BY SMTT(30) DEF ToSet
<1> HIDE DEF Pieces
<1> QED BY <1>3, <1>4

---------------------------------------------------------------------------
(* What a gate does to the amplitudes.                                     *)

Proper(W) == {g \in Gates(W) : RequireDistinct(g.on)}
Amps(n) == [Bits(n) -> Int]

\* A function on 1..k is a sequence.
LEMMA FunctionIsSeq ==
    ASSUME NEW W, NEW k \in Nat, NEW s \in [1..k -> W]
    PROVE  s \in Seq(W) /\ Len(s) = k
OBVIOUS

\* A gate, by its name: its number of qubits, which are distinct.
LEMMA ProperShape ==
    ASSUME NEW W, NEW g \in Proper(W)
    PROVE  /\ g.name \in OneQubit \union TwoQubit \union ThreeQubit \union {"I"}
           /\ g = Gate(g.name, g.on)
           /\ g.name \in OneQubit \union {"I"} =>
                  g.on \in Seq(W) /\ Len(g.on) = 1 /\ g.on[1] \in W /\ ToSet(g.on) = {g.on[1]}
           /\ g.name \in TwoQubit =>
                  /\ g.on \in Seq(W) /\ Len(g.on) = 2
                  /\ g.on[1] \in W /\ g.on[2] \in W /\ g.on[1] # g.on[2]
                  /\ ToSet(g.on) = {g.on[1], g.on[2]}
           /\ g.name \in ThreeQubit =>
                  /\ g.on \in Seq(W) /\ Len(g.on) = 3
                  /\ g.on[1] \in W /\ g.on[2] \in W /\ g.on[3] \in W
                  /\ g.on[1] # g.on[2] /\ g.on[1] # g.on[3] /\ g.on[2] # g.on[3]
                  /\ ToSet(g.on) = {g.on[1], g.on[2], g.on[3]}
<1>1. \/ g \in [name : OneQubit \union {"I"}, on : [1..1 -> W]]
      \/ g \in [name : TwoQubit, on : [1..2 -> W]]
      \/ g \in [name : ThreeQubit, on : [1..3 -> W]]
  BY DEF Proper, Gates
<1>2. IsInjective(g.on)
  BY DEF Proper, RequireDistinct
<1>3. 1..1 = {1} /\ 1..2 = {1, 2} /\ 1..3 = {1, 2, 3}
  OBVIOUS
<1>4. ASSUME g \in [name : OneQubit \union {"I"}, on : [1..1 -> W]]
      PROVE  /\ g.name \in OneQubit \union {"I"} /\ g = Gate(g.name, g.on)
             /\ g.on \in Seq(W) /\ Len(g.on) = 1 /\ g.on[1] \in W /\ ToSet(g.on) = {g.on[1]}
  <2>1. g.on \in [1..1 -> W] /\ DOMAIN g.on = {1}
    BY <1>4, <1>3
  <2>2. g.on[1] \in W /\ ToSet(g.on) = {g.on[1]}
    BY <2>1, <1>3 DEF ToSet
  <2>3. g.on \in Seq(W) /\ Len(g.on) = 1
    BY <2>1, FunctionIsSeq, 1 \in Nat
  <2>4. g.name \in OneQubit \union {"I"} /\ g = Gate(g.name, g.on)
    BY <1>4 DEF Gate
  <2> QED BY <2>2, <2>3, <2>4
<1>5. ASSUME g \in [name : TwoQubit, on : [1..2 -> W]]
      PROVE  /\ g.name \in TwoQubit /\ g = Gate(g.name, g.on)
             /\ g.on \in Seq(W) /\ Len(g.on) = 2
             /\ g.on[1] \in W /\ g.on[2] \in W /\ g.on[1] # g.on[2]
             /\ ToSet(g.on) = {g.on[1], g.on[2]}
  <2>1. g.on \in [1..2 -> W] /\ DOMAIN g.on = {1, 2}
    BY <1>5, <1>3
  <2>2. g.on[1] \in W /\ g.on[2] \in W /\ ToSet(g.on) = {g.on[1], g.on[2]}
    BY <2>1, <1>3 DEF ToSet
  <2>3. g.on \in Seq(W) /\ Len(g.on) = 2
    BY <2>1, FunctionIsSeq, 2 \in Nat
  <2>4. g.name \in TwoQubit /\ g = Gate(g.name, g.on)
    BY <1>5 DEF Gate
  <2>5. g.on[1] # g.on[2]
    BY <1>2, <2>1 DEF IsInjective
  <2> QED BY <2>2, <2>3, <2>4, <2>5
<1>6. ASSUME g \in [name : ThreeQubit, on : [1..3 -> W]]
      PROVE  /\ g.name \in ThreeQubit /\ g = Gate(g.name, g.on)
             /\ g.on \in Seq(W) /\ Len(g.on) = 3
             /\ g.on[1] \in W /\ g.on[2] \in W /\ g.on[3] \in W
             /\ g.on[1] # g.on[2] /\ g.on[1] # g.on[3] /\ g.on[2] # g.on[3]
             /\ ToSet(g.on) = {g.on[1], g.on[2], g.on[3]}
  <2>1. g.on \in [1..3 -> W] /\ DOMAIN g.on = {1, 2, 3}
    BY <1>6, <1>3
  <2>2. g.on[1] \in W /\ g.on[2] \in W /\ g.on[3] \in W /\ ToSet(g.on) = {g.on[1], g.on[2], g.on[3]}
    BY <2>1, <1>3 DEF ToSet
  <2>3. g.on \in Seq(W) /\ Len(g.on) = 3
    BY <2>1, FunctionIsSeq, 3 \in Nat
  <2>4. g.name \in ThreeQubit /\ g = Gate(g.name, g.on)
    BY <1>6 DEF Gate
  <2>5. g.on[1] # g.on[2] /\ g.on[1] # g.on[3] /\ g.on[2] # g.on[3]
    BY <1>2, <2>1 DEF IsInjective
  <2> QED BY <2>2, <2>3, <2>4, <2>5
<1> QED BY <1>1, <1>4, <1>5, <1>6 DEF OneQubit, TwoQubit, ThreeQubit

\* What Flip, Exchange and an assignment do to one wire, and to the others.
LEMMA FlipBits ==
    ASSUME NEW n, NEW b \in Bits(n), NEW q \in 0..(n - 1)
    PROVE  /\ Flip(b, q) \in Bits(n)
           /\ Flip(b, q)[q] = 1 - b[q]
           /\ \A p \in 0..(n - 1) : p # q => Flip(b, q)[p] = b[p]
BY DEF Bits, Flip

LEMMA ExchangeBits ==
    ASSUME NEW n, NEW b \in Bits(n), NEW p \in 0..(n - 1), NEW q \in 0..(n - 1), p # q
    PROVE  /\ Exchange(b, p, q) \in Bits(n)
           /\ Exchange(b, p, q)[p] = b[q] /\ Exchange(b, p, q)[q] = b[p]
           /\ \A r \in 0..(n - 1) : r # p /\ r # q => Exchange(b, p, q)[r] = b[r]
BY DEF Bits, Exchange

Put(b, q, v) == [b EXCEPT ![q] = v]

LEMMA SetBits ==
    ASSUME NEW n, NEW b \in Bits(n), NEW q \in 0..(n - 1)
    PROVE  /\ Put(b, q, 0) \in Bits(n) /\ Put(b, q, 0)[q] = 0
           /\ Put(b, q, 1) \in Bits(n) /\ Put(b, q, 1)[q] = 1
           /\ \A p \in 0..(n - 1) : p # q =>
                  Put(b, q, 0)[p] = b[p] /\ Put(b, q, 1)[p] = b[p]
BY DEF Bits, Put

\* Outcomes with equal bits are equal.
LEMMA BitsEqual ==
    ASSUME NEW n, NEW b \in Bits(n), NEW d \in Bits(n), \A q \in 0..(n - 1) : b[q] = d[q]
    PROVE  b = d
<1>1. b = [q \in 0..(n - 1) |-> b[q]] /\ d = [q \in 0..(n - 1) |-> d[q]]
  BY DEF Bits
<1> QED BY <1>1

\* A gate moves basis states to basis states and leaves the other wires alone.
LEMMA PermutedBits ==
    ASSUME NEW n, NEW g \in Proper(0..(n - 1)), g.name # "H", NEW b \in Bits(n)
    PROVE  /\ Permuted(g, b) \in Bits(n)
           /\ \A q \in 0..(n - 1) : q \notin ToSet(g.on) => Permuted(g, b)[q] = b[q]
<1>1. CASE g.name = "I"
  BY <1>1 DEF Permuted
<1>2. CASE g.name = "X"
  <2>1. Permuted(g, b) = Flip(b, g.on[1])
    BY <1>2 DEF Permuted
  <2>2. g.on[1] \in 0..(n - 1) /\ ToSet(g.on) = {g.on[1]}
    BY <1>2, ProperShape DEF OneQubit
  <2> QED BY <2>1, <2>2, FlipBits
<1>3. CASE g.name = "CNOT"
  <2>0. /\ g.on[2] \in 0..(n - 1)
        /\ ToSet(g.on) = {g.on[1], g.on[2]}
    BY <1>3, ProperShape DEF TwoQubit
  <2> DEFINE x == g.on[2]
  <2>1. Permuted(g, b) = IF b[g.on[1]] = 1 THEN Flip(b, x) ELSE b
    BY <1>3 DEF Permuted
  <2>2. x \in 0..(n - 1)
    BY <2>0
  <2>3. x \in ToSet(g.on)
    BY <2>0
  <2> HIDE DEF x
  <2>4. Flip(b, x) \in Bits(n) /\ \A q \in 0..(n - 1) : q # x => Flip(b, x)[q] = b[q]
    BY <2>2, FlipBits
  <2> QED BY <2>1, <2>3, <2>4
<1>4. CASE g.name = "SWAP"
  <2>0. /\ g.on[1] \in 0..(n - 1) /\ g.on[2] \in 0..(n - 1) /\ g.on[1] # g.on[2]
        /\ ToSet(g.on) = {g.on[1], g.on[2]}
    BY <1>4, ProperShape DEF TwoQubit
  <2> DEFINE x == g.on[1]
             y == g.on[2]
  <2>1. Permuted(g, b) = Exchange(b, x, y)
    BY <1>4 DEF Permuted
  <2>2. x \in 0..(n - 1) /\ y \in 0..(n - 1) /\ x # y
    BY <2>0
  <2>3. x \in ToSet(g.on) /\ y \in ToSet(g.on)
    BY <2>0
  <2> HIDE DEF x, y
  <2>4. /\ Exchange(b, x, y) \in Bits(n)
        /\ \A q \in 0..(n - 1) : q # x /\ q # y => Exchange(b, x, y)[q] = b[q]
    BY <2>2, ExchangeBits
  <2> QED BY <2>1, <2>3, <2>4
<1>5. CASE g.name = "CCX"
  <2>0. /\ g.on[3] \in 0..(n - 1)
        /\ ToSet(g.on) = {g.on[1], g.on[2], g.on[3]}
    BY <1>5, ProperShape DEF ThreeQubit
  <2> DEFINE x == g.on[3]
  <2>1. Permuted(g, b) = IF b[g.on[1]] = 1 /\ b[g.on[2]] = 1 THEN Flip(b, x) ELSE b
    BY <1>5 DEF Permuted
  <2>2. x \in 0..(n - 1)
    BY <2>0
  <2>3. x \in ToSet(g.on)
    BY <2>0
  <2> HIDE DEF x
  <2>4. Flip(b, x) \in Bits(n) /\ \A q \in 0..(n - 1) : q # x => Flip(b, x)[q] = b[q]
    BY <2>2, FlipBits
  <2> QED BY <2>1, <2>3, <2>4
<1>6. CASE g.name = "CSWAP"
  <2>0. /\ g.on[2] \in 0..(n - 1) /\ g.on[3] \in 0..(n - 1) /\ g.on[2] # g.on[3]
        /\ ToSet(g.on) = {g.on[1], g.on[2], g.on[3]}
    BY <1>6, ProperShape DEF ThreeQubit
  <2> DEFINE x == g.on[2]
             y == g.on[3]
  <2>1. Permuted(g, b) = IF b[g.on[1]] = 1 THEN Exchange(b, x, y) ELSE b
    BY <1>6 DEF Permuted
  <2>2. x \in 0..(n - 1) /\ y \in 0..(n - 1) /\ x # y
    BY <2>0
  <2>3. x \in ToSet(g.on) /\ y \in ToSet(g.on)
    BY <2>0
  <2> HIDE DEF x, y
  <2>4. /\ Exchange(b, x, y) \in Bits(n)
        /\ \A q \in 0..(n - 1) : q # x /\ q # y => Exchange(b, x, y)[q] = b[q]
    BY <2>2, ExchangeBits
  <2> QED BY <2>1, <2>3, <2>4
<1>7. g.name \in {"H", "X", "CNOT", "SWAP", "CCX", "CSWAP", "I"}
  BY ProperShape DEF OneQubit, TwoQubit, ThreeQubit
<1> QED BY <1>1, <1>2, <1>3, <1>4, <1>5, <1>6, <1>7

\* Every gate but H permutes the amplitudes; H adds and subtracts two of them.
LEMMA EvolvePermuted ==
    ASSUME NEW n, NEW g, g.name # "H", NEW a \in Amps(n)
    PROVE  Evolve(a, g) = [b \in Bits(n) |-> a[Permuted(g, b)]]
BY DEF Evolve, Amps

LEMMA EvolveH ==
    ASSUME NEW n, NEW g \in Proper(0..(n - 1)), g.name = "H", NEW a \in Amps(n)
    PROVE  /\ Evolve(a, g) \in Amps(n)
           /\ \A b \in Bits(n) :
                  LET x == a[Put(b, g.on[1], 0)]
                      y == a[Put(b, g.on[1], 1)]
                  IN  /\ x \in Int /\ y \in Int
                      /\ Evolve(a, g)[b] = IF b[g.on[1]] = 1 THEN x - y ELSE x + y
<1> DEFINE q == g.on[1]
           x(b) == a[Put(b, q, 0)]
           y(b) == a[Put(b, q, 1)]
           s(b) == IF b[q] = 1 THEN -1 ELSE 1
<1>1. q \in 0..(n - 1)
  BY ProperShape DEF OneQubit
<1>2. Evolve(a, g) = [b \in Bits(n) |-> x(b) + s(b) * y(b)]
  BY DEF Evolve, Amps, Put
<1>3. ASSUME NEW b \in Bits(n) PROVE x(b) \in Int /\ y(b) \in Int
  <2>1. Put(b, q, 0) \in Bits(n) /\ Put(b, q, 1) \in Bits(n)
    BY <1>1, SetBits
  <2> QED BY <2>1 DEF Amps
<1>4. ASSUME NEW b \in Bits(n)
      PROVE  x(b) + s(b) * y(b) = IF b[q] = 1 THEN x(b) - y(b) ELSE x(b) + y(b)
  <2> DEFINE u == x(b)
             v == y(b)
  <2>1. u \in Int /\ v \in Int
    BY <1>3
  <2> HIDE DEF u, v
  <2>2. u + (-1) * v = u - v /\ u + 1 * v = u + v
    BY <2>1
  <2>3. u + s(b) * v = IF b[q] = 1 THEN u - v ELSE u + v
    BY <2>2
  <2> QED BY <2>3 DEF u, v
<1> HIDE DEF x, y, s
<1>5. ASSUME NEW b \in Bits(n)
      PROVE  Evolve(a, g)[b] = IF b[q] = 1 THEN x(b) - y(b) ELSE x(b) + y(b)
  BY <1>2, <1>4
<1>6. ASSUME NEW b \in Bits(n) PROVE Evolve(a, g)[b] \in Int
  BY <1>3, <1>5
<1>7. Evolve(a, g) \in Amps(n)
  BY <1>2, <1>6 DEF Amps
<1> QED BY <1>3, <1>5, <1>7 DEF x, y

\* A gate leaves a state, an identity leaves the state it finds.
LEMMA EvolveType ==
    ASSUME NEW n, NEW g \in Proper(0..(n - 1)), NEW a \in Amps(n)
    PROVE  Evolve(a, g) \in Amps(n)
<1>1. CASE g.name = "H"
  BY <1>1, EvolveH
<1>2. CASE g.name # "H"
  <2>1. ASSUME NEW b \in Bits(n) PROVE a[Permuted(g, b)] \in Int
    BY <1>2, PermutedBits DEF Amps
  <2> QED BY <1>2, <2>1, EvolvePermuted DEF Amps
<1> QED BY <1>1, <1>2

LEMMA EvolveIdentity ==
    ASSUME NEW n, NEW g, IsIdentity(g), NEW a \in Amps(n)
    PROVE  Evolve(a, g) = a
<1>1. \A b : Permuted(g, b) = b
  BY DEF Permuted, IsIdentity
<1>2. Evolve(a, g) = [b \in Bits(n) |-> a[b]]
  BY <1>1, EvolvePermuted DEF IsIdentity
<1> QED BY <1>2 DEF Amps

\* A circuit leaves a state.
LEMMA RunsType ==
    ASSUME NEW n, NEW c \in Seq(Proper(0..(n - 1))), NEW h \in Amps(n)
    PROVE  Runs(h, c) \in Amps(n)
<1> DEFINE S == {d \in Seq(Proper(0..(n - 1))) : Runs(h, d) \in Amps(n)}
<1>1. <<>> \in S
  BY RunNothing, EmptySeq
<1>2. ASSUME NEW d \in Seq(Proper(0..(n - 1))), NEW g \in Proper(0..(n - 1)), d \in S
      PROVE  Append(d, g) \in S
  <2>1. Append(d, g) \in Seq(Proper(0..(n - 1)))
    BY AppendProperties
  <2>2. Runs(h, Append(d, g)) = Evolve(Runs(h, d), g)
    BY RunAppend
  <2> QED BY <1>2, <2>1, <2>2, EvolveType
<1> HIDE DEF S
<1>3. \A d \in Seq(Proper(0..(n - 1))) : d \in S
  BY <1>1, <1>2, SequenceInduction
<1> QED BY <1>3 DEF S

\* The ground state is a state.
LEMMA GroundType == ASSUME NEW n PROVE Ground(n) \in Amps(n)
BY DEF Ground, Amps

---------------------------------------------------------------------------
(* The width of a circuit.                                                 *)

\* A circuit as the program can have one.
Circuit == Seq(Proper(Nat))

\* The wires named after one more gate.
LEMMA NamedAppend ==
    ASSUME NEW G, NEW c \in Seq(G), NEW g \in G
    PROVE  Named(Append(c, g)) = Named(c) \union ToSet(g.on)
<1>1. \A d : Named(d) = UNION {ToSet(e.on) : e \in ToSet(d)}
  BY DEF Named, ToSet
<1>2. ToSet(Append(c, g)) = ToSet(c) \union {g}
  BY ElementsAppend
<1> QED BY <1>1, <1>2

\* An empty circuit names no wire.
LEMMA NamedNothing == Named(<<>>) = {}
<1>1. DOMAIN <<>> = {}
  OBVIOUS
<1> QED BY <1>1 DEF Named

\* A gate names wires it is on.
LEMMA ProperNames ==
    ASSUME NEW W, NEW g \in Proper(W)
    PROVE  ToSet(g.on) # {} /\ ToSet(g.on) \subseteq W
<1>1. \/ ToSet(g.on) = {g.on[1]} /\ g.on[1] \in W
      \/ ToSet(g.on) = {g.on[1], g.on[2]} /\ g.on[1] \in W /\ g.on[2] \in W
      \/ /\ ToSet(g.on) = {g.on[1], g.on[2], g.on[3]}
         /\ g.on[1] \in W /\ g.on[2] \in W /\ g.on[3] \in W
  BY ProperShape
<1> QED BY <1>1

\* A gate on natural numbers is one on those up to some number.
LEMMA ProperBound ==
    ASSUME NEW g \in Proper(Nat)
    PROVE  \E m \in ToSet(g.on) : \A q \in ToSet(g.on) : q <= m
<1>1. \/ ToSet(g.on) = {g.on[1]} /\ g.on[1] \in Nat
      \/ ToSet(g.on) = {g.on[1], g.on[2]} /\ g.on[1] \in Nat /\ g.on[2] \in Nat
      \/ /\ ToSet(g.on) = {g.on[1], g.on[2], g.on[3]}
         /\ g.on[1] \in Nat /\ g.on[2] \in Nat /\ g.on[3] \in Nat
  BY ProperShape
<1>2. CASE ToSet(g.on) = {g.on[1]} /\ g.on[1] \in Nat
  BY <1>2
<1>3. ASSUME NEW x \in Nat, NEW y \in Nat
      PROVE  \E m \in {x, y} : x <= m /\ y <= m
  <2>1. x <= y \/ y <= x
    OBVIOUS
  <2> QED BY <2>1
<1>4. CASE ToSet(g.on) = {g.on[1], g.on[2]} /\ g.on[1] \in Nat /\ g.on[2] \in Nat
  BY <1>3, <1>4
<1>5. CASE /\ ToSet(g.on) = {g.on[1], g.on[2], g.on[3]}
           /\ g.on[1] \in Nat /\ g.on[2] \in Nat /\ g.on[3] \in Nat
  <2>1. PICK m \in {g.on[1], g.on[2]} : g.on[1] <= m /\ g.on[2] <= m
    BY <1>3, <1>5
  <2>2. m \in Nat
    BY <1>5, <2>1
  <2>3. PICK k \in {m, g.on[3]} : m <= k /\ g.on[3] <= k
    BY <1>3, <1>5, <2>2
  <2>4. k \in Nat /\ k \in ToSet(g.on)
    BY <1>5, <2>1, <2>2, <2>3
  <2>5. g.on[1] <= k /\ g.on[2] <= k /\ g.on[3] <= k
    BY <1>5, <2>1, <2>2, <2>3, <2>4
  <2> QED BY <2>4, <2>5, <1>5
<1> QED BY <1>1, <1>2, <1>4, <1>5

\* A circuit names finitely many wires.
LEMMA NamedBound ==
    ASSUME NEW c \in Circuit
    PROVE  /\ Named(c) \subseteq Nat
           /\ c # <<>> => \E m \in Named(c) : \A q \in Named(c) : q <= m
<1> DEFINE Bounded(d) == \E m \in Named(d) : \A q \in Named(d) : q <= m
           S == {d \in Circuit : Named(d) \subseteq Nat /\ (d # <<>> => Bounded(d))}
<1>1. <<>> \in S
  BY NamedNothing, EmptySeq DEF Circuit
<1>2. ASSUME NEW d \in Circuit, NEW g \in Proper(Nat), d \in S PROVE Append(d, g) \in S
  <2>1. Append(d, g) \in Circuit /\ Named(Append(d, g)) = Named(d) \union ToSet(g.on)
    BY NamedAppend, AppendProperties DEF Circuit
  <2>2. ToSet(g.on) \subseteq Nat /\ Named(d) \subseteq Nat
    BY ProperNames, <1>2
  <2>3. PICK m \in ToSet(g.on) : \A q \in ToSet(g.on) : q <= m
    BY ProperBound
  <2>4. CASE d = <<>>
    <3>1. Named(Append(d, g)) = ToSet(g.on)
      BY <2>1, <2>4, NamedNothing
    <3> QED BY <2>1, <2>2, <2>3, <3>1
  <2>5. CASE d # <<>>
    <3>1. PICK k \in Named(d) : \A q \in Named(d) : q <= k
      BY <2>5, <1>2
    <3>2. m \in Nat /\ k \in Nat /\ \A q \in Named(Append(d, g)) : q \in Nat
      BY <2>1, <2>2, <2>3, <3>1
    <3>3. CASE m <= k
      <4>1. \A q \in Named(Append(d, g)) : q <= k
        BY <2>1, <2>3, <3>1, <3>2, <3>3
      <4> QED BY <4>1, <3>1, <2>1, <2>2
    <3>4. CASE k <= m
      <4>1. \A q \in Named(Append(d, g)) : q <= m
        BY <2>1, <2>3, <3>1, <3>2, <3>4
      <4> QED BY <4>1, <2>3, <2>1, <2>2
    <3> QED BY <3>2, <3>3, <3>4
  <2> QED BY <2>4, <2>5
<1>3. \A d \in Circuit : d \in S
  <2> HIDE DEF S
  <2> QED BY <1>1, <1>2, SequenceInduction DEF Circuit
<1> QED BY <1>3

\* Max is what it says for a finite set of numbers.
LEMMA MaxIs ==
    ASSUME NEW S \in SUBSET Int, NEW m \in S, \A q \in S : q <= m
    PROVE  Max(S) = m
<1>1. \A x \in S : x >= m => x = m
  OBVIOUS
<1>2. \A q \in S : m >= q
  OBVIOUS
<1>3. \A x \in S : (\A y \in S : x >= y) => x = m
  BY <1>1
<1> QED BY <1>2, <1>3 DEF Max

\* The width of a circuit is one more than its highest wire.
LEMMA Width ==
    ASSUME NEW c \in Circuit, NEW m \in Named(c), \A q \in Named(c) : q <= m
    PROVE  NumQubits(c) = m + 1
<1>1. c # <<>>
  BY NamedNothing
<1>2. Named(c) \in SUBSET Int
  BY NamedBound
<1> QED BY <1>1, <1>2, MaxIs DEF NumQubits

\* The wires of a circuit are below its width.
LEMMA WidthBounds ==
    ASSUME NEW c \in Circuit
    PROVE  /\ NumQubits(c) \in Nat
           /\ NumQubits(c) = 0 <=> c = <<>>
           /\ NumQubits(c) # 0 => NumQubits(c) - 1 \in Named(c)
           /\ Named(c) \subseteq 0..(NumQubits(c) - 1)
<1>1. CASE c = <<>>
  BY <1>1, NamedNothing DEF NumQubits
<1>2. CASE c # <<>>
  <2>1. Named(c) \subseteq Nat
    BY NamedBound
  <2>2. PICK m \in Named(c) : \A q \in Named(c) : q <= m
    BY <1>2, NamedBound
  <2>3. NumQubits(c) = m + 1 /\ m \in Nat
    BY <2>1, <2>2, Width
  <2>4. (m + 1) - 1 = m /\ m + 1 # 0 /\ \A q \in Nat : q <= m => q \in 0..m
    BY <2>3
  <2> QED BY <2>1, <2>2, <2>3, <2>4, <1>2
<1> QED BY <1>1, <1>2

\* Circuits on the same wires have the same width.
LEMMA SameWidth ==
    ASSUME NEW c \in Circuit, NEW d \in Circuit, Named(c) = Named(d)
    PROVE  NumQubits(c) = NumQubits(d)
<1>1. CASE c = <<>>
  <2>1. NumQubits(d) = 0 \/ NumQubits(d) - 1 \in {}
    BY <1>1, NamedNothing, WidthBounds
  <2> QED BY <2>1, <1>1 DEF NumQubits
<1>2. CASE c # <<>>
  <2>1. PICK m \in Named(c) : \A q \in Named(c) : q <= m
    BY <1>2, NamedBound
  <2> QED BY <2>1, Width
<1> QED BY <1>1, <1>2

\* The gates of a circuit act on its wires.
LEMMA ProperOnNames ==
    ASSUME NEW W, NEW V, NEW g \in Proper(W), ToSet(g.on) \subseteq V
    PROVE  g \in Proper(V)
<1>1. g = Gate(g.name, g.on) /\ RequireDistinct(g.on)
  BY ProperShape DEF Proper
<1>2. g.name \in OneQubit \union TwoQubit \union ThreeQubit \union {"I"}
  BY ProperShape
<1>3. ASSUME NEW k \in Nat, g.on \in Seq(W), Len(g.on) = k PROVE g.on \in [1..k -> V]
  <2>1. g.on \in [1..k -> W]
    BY <1>3, LenProperties
  <2>2. \A i \in 1..k : g.on[i] \in ToSet(g.on)
    BY <2>1 DEF ToSet
  <2>3. \A i \in 1..k : g.on[i] \in V
    BY <2>2
  <2> QED BY <2>1, <2>3
<1>4. CASE g.name \in OneQubit \union {"I"}
  <2>1. g.on \in [1..1 -> V]
    BY <1>3, <1>4, ProperShape, 1 \in Nat
  <2> QED BY <2>1, <1>1, <1>4 DEF Proper, Gates, Gate
<1>5. CASE g.name \in TwoQubit
  <2>1. g.on \in [1..2 -> V]
    BY <1>3, <1>5, ProperShape, 2 \in Nat
  <2> QED BY <2>1, <1>1, <1>5 DEF Proper, Gates, Gate
<1>6. CASE g.name \in ThreeQubit
  <2>1. g.on \in [1..3 -> V]
    BY <1>3, <1>6, ProperShape, 3 \in Nat
  <2> QED BY <2>1, <1>1, <1>6 DEF Proper, Gates, Gate
<1> QED BY <1>2, <1>4, <1>5, <1>6

LEMMA CircuitOnWires ==
    ASSUME NEW W, NEW V, NEW c \in Seq(Proper(W)), Named(c) \subseteq V
    PROVE  c \in Seq(Proper(V))
<1>1. ASSUME NEW i \in 1..Len(c) PROVE c[i] \in Proper(V)
  <2>1. c[i] \in Proper(W) /\ i \in DOMAIN c
    BY LenProperties
  <2>2. ToSet(c[i].on) \subseteq V
    BY <2>1 DEF Named
  <2> QED BY <2>1, <2>2, ProperOnNames
<1>2. c \in [1..Len(c) -> Proper(V)] /\ Len(c) \in Nat
  BY <1>1, LenProperties
<1> QED BY <1>2, FunctionIsSeq

---------------------------------------------------------------------------
(* A part of a sequence, and the identities that are left out of one.      *)

\* A selection is a flattening of blocks of one gate or none.
LEMMA SelectBlocks ==
    ASSUME NEW G, NEW c \in Seq(G), NEW I
    PROVE  LET bs == [i \in DOMAIN c |-> IF i \in I THEN <<c[i]>> ELSE <<>>]
           IN  /\ bs \in Seq(Seq(G)) /\ Len(bs) = Len(c) /\ DOMAIN bs = 1..Len(c)
               /\ \A i \in 1..Len(c) : c[i] \in G /\ bs[i] = IF i \in I THEN <<c[i]>> ELSE <<>>
<1> DEFINE bs == [i \in DOMAIN c |-> IF i \in I THEN <<c[i]>> ELSE <<>>]
<1>1. DOMAIN c = 1..Len(c) /\ Len(c) \in Nat /\ \A i \in 1..Len(c) : c[i] \in G
  BY LenProperties
<1>2. ASSUME NEW i \in 1..Len(c) PROVE bs[i] \in Seq(G)
  <2>1. <<c[i]>> \in Seq(G) /\ <<>> \in Seq(G)
    BY <1>1, EmptySeq
  <2> QED BY <2>1, <1>1
<1>3. bs \in [1..Len(c) -> Seq(G)]
  BY <1>1, <1>2
<1>4. \A i \in 1..Len(c) : c[i] \in G /\ bs[i] = IF i \in I THEN <<c[i]>> ELSE <<>>
  BY <1>1
<1> HIDE DEF bs
<1>5. bs \in Seq(Seq(G)) /\ Len(bs) = Len(c) /\ DOMAIN bs = 1..Len(c)
  BY <1>1, <1>3, FunctionIsSeq
<1> QED BY <1>4, <1>5 DEF bs

\* A selection is a circuit, of the selected gates.
LEMMA SelectType ==
    ASSUME NEW G, NEW c \in Seq(G), NEW I
    PROVE  Select(c, I) \in Seq(G)
<1> DEFINE bs == [i \in DOMAIN c |-> IF i \in I THEN <<c[i]>> ELSE <<>>]
<1>1. bs \in Seq(Seq(G))
  BY SelectBlocks
<1>2. Select(c, I) = FlattenSeq(bs)
  BY DEF Select
<1> HIDE DEF bs
<1> QED BY <1>1, <1>2, FlattenType

LEMMA SelectElements ==
    ASSUME NEW G, NEW c \in Seq(G), NEW I
    PROVE  ToSet(Select(c, I)) = {c[i] : i \in I \intersect DOMAIN c}
<1> DEFINE bs == [i \in DOMAIN c |-> IF i \in I THEN <<c[i]>> ELSE <<>>]
<1>1. /\ bs \in Seq(Seq(G)) /\ DOMAIN bs = 1..Len(c) /\ DOMAIN c = 1..Len(c)
      /\ \A i \in 1..Len(c) : bs[i] = IF i \in I THEN <<c[i]>> ELSE <<>>
  BY SelectBlocks, LenProperties
<1>2. Select(c, I) = FlattenSeq(bs)
  BY DEF Select
<1> HIDE DEF bs
<1>3. ToSet(Select(c, I)) = UNION {ToSet(bs[i]) : i \in 1..Len(c)}
  BY <1>1, <1>2, FlattenElements
<1>4. ASSUME NEW x PROVE ToSet(<<x>>) = {x}
  <2>1. DOMAIN <<x>> = {1} /\ <<x>>[1] = x
    OBVIOUS
  <2> QED BY <2>1 DEF ToSet
<1>5. ToSet(<<>>) = {}
  <2>1. DOMAIN <<>> = {}
    OBVIOUS
  <2> QED BY <2>1 DEF ToSet
<1>6. \A i \in 1..Len(c) : ToSet(bs[i]) = IF i \in I THEN {c[i]} ELSE {}
  BY <1>1, <1>4, <1>5
<1> QED BY <1>1, <1>3, <1>6

\* Gates that change nothing can be left out.
LEMMA SelectRuns ==
    ASSUME NEW G, NEW c \in Seq(G), NEW I, NEW A, NEW h \in A,
           \A a \in A, g \in G : Evolve(a, g) \in A,
           \A i \in 1..Len(c) : i \notin I => \A a \in A : Evolve(a, c[i]) = a
    PROVE  Runs(h, Select(c, I)) = Runs(h, c)
<1> DEFINE bs == [i \in DOMAIN c |-> IF i \in I THEN <<c[i]>> ELSE <<>>]
           N == Len(c)
<1>1. /\ bs \in Seq(Seq(G)) /\ Len(bs) = N /\ N \in Nat
      /\ \A i \in 1..N : c[i] \in G /\ bs[i] = IF i \in I THEN <<c[i]>> ELSE <<>>
  BY SelectBlocks, LenProperties
<1>2. Select(c, I) = FlattenSeq(bs)
  BY DEF Select
<1> HIDE DEF bs
<1>3. PICK s : /\ s[0] = h
               /\ \A i \in 1..N : s[i] = Runs(s[i - 1], bs[i])
               /\ Runs(h, FlattenSeq(bs)) = s[N]
  <2>1. PICK s : /\ s[0] = h
                 /\ \A i \in 1..Len(bs) : s[i] = Runs(s[i - 1], bs[i])
                 /\ Runs(h, FlattenSeq(bs)) = s[Len(bs)]
    BY <1>1, RunBlocks
  <2> QED BY <2>1, <1>1
<1>4. PICK t : Through(t, h, c) /\ Runs(h, c) = t[N]
  BY RunStates
<1> DEFINE S == {n \in 0..N : s[n] = t[n] /\ s[n] \in A}
<1>5. 0 \in S
  BY <1>1, <1>3, <1>4 DEF Through
<1>6. ASSUME NEW n \in 0..(N - 1), n \in S PROVE n + 1 \in S
  <2>1. n + 1 \in 1..N /\ (n + 1) - 1 = n /\ n + 1 \in 0..N
    BY <1>1
  <2>2. t[n + 1] = Evolve(t[n], c[n + 1]) /\ s[n] = t[n] /\ t[n] \in A
    BY <2>1, <1>4, <1>6 DEF Through
  <2>3. s[n + 1] = Runs(s[n], bs[n + 1]) /\ c[n + 1] \in G
    BY <2>1, <1>1, <1>3
  <2>4. CASE n + 1 \in I
    <3>1. bs[n + 1] = <<c[n + 1]>>
      BY <2>1, <2>4, <1>1
    <3>2. s[n + 1] = Evolve(t[n], c[n + 1])
      BY <2>2, <2>3, <3>1, RunGate
    <3> QED BY <3>2, <2>1, <2>2, <2>3
  <2>5. CASE n + 1 \notin I
    <3>1. bs[n + 1] = <<>>
      BY <2>1, <2>5, <1>1
    <3>2. s[n + 1] = t[n]
      BY <2>2, <2>3, <3>1, RunNothing
    <3>3. Evolve(t[n], c[n + 1]) = t[n]
      BY <2>1, <2>2, <2>5
    <3> QED BY <3>2, <3>3, <2>1, <2>2
  <2> QED BY <2>4, <2>5
<1> HIDE DEF S, N
<1>7. N \in S
  <2>1. \A n \in 0..N : n \in S
    BY <1>1, <1>5, <1>6, BoundedInduction
  <2> QED BY <2>1, <1>1
<1> QED BY <1>2, <1>3, <1>4, <1>7 DEF S

\* The wires named depend on the set of gates only.
LEMMA NamedElements == \A c : Named(c) = UNION {ToSet(g.on) : g \in ToSet(c)}
BY DEF Named, ToSet

LEMMA WorkingNames ==
    ASSUME NEW c \in Circuit
    PROVE  /\ Working(c) = UNION {ToSet(g.on) : g \in {e \in ToSet(c) : ~IsIdentity(e)}}
           /\ Working(c) \subseteq Named(c)
BY DEF Working, Named, ToSet

\* Dropping identities alone changes nothing that is computed.
LEMMA DroppingRuns ==
    ASSUME NEW n, NEW c \in Seq(Proper(0..(n - 1))), NEW I, NEW h \in Amps(n),
           \A i \in 1..Len(c) : i \notin I => IsIdentity(c[i])
    PROVE  Runs(h, Select(c, I)) = Runs(h, c)
<1>1. \A a \in Amps(n), g \in Proper(0..(n - 1)) : Evolve(a, g) \in Amps(n)
  BY EvolveType
<1>2. \A i \in 1..Len(c) : i \notin I => \A a \in Amps(n) : Evolve(a, c[i]) = a
  BY EvolveIdentity
<1> QED BY <1>1, <1>2, SelectRuns

\* Without its identities a circuit computes the same, on its working wires.
LEMMA WithoutIdentitiesRuns ==
    ASSUME NEW n, NEW c \in Seq(Proper(0..(n - 1))), NEW h \in Amps(n)
    PROVE  Runs(h, WithoutIdentities(c)) = Runs(h, c)
<1> DEFINE I == {i \in DOMAIN c : ~IsIdentity(c[i])}
<1>1. \A i \in 1..Len(c) : i \notin I => IsIdentity(c[i])
  BY LenProperties
<1> HIDE DEF I
<1>2. Runs(h, Select(c, I)) = Runs(h, c)
  BY <1>1, DroppingRuns
<1> QED BY <1>2 DEF WithoutIdentities, I

LEMMA WithoutIdentitiesNames ==
    ASSUME NEW W, NEW c \in Seq(Proper(W))
    PROVE  /\ WithoutIdentities(c) \in Seq(Proper(W))
           /\ Named(WithoutIdentities(c)) = Working(c)
           /\ \A g \in ToSet(WithoutIdentities(c)) : ~IsIdentity(g)
<1> DEFINE I == {i \in DOMAIN c : ~IsIdentity(c[i])}
           d == Select(c, I)
<1>1. WithoutIdentities(c) = d
  BY DEF WithoutIdentities
<1>2. d \in Seq(Proper(W)) /\ ToSet(d) = {c[i] : i \in I \intersect DOMAIN c}
  BY SelectType, SelectElements
<1>3. I \intersect DOMAIN c = I
  OBVIOUS
<1>4. Named(d) = UNION {ToSet(g.on) : g \in ToSet(d)}
  BY NamedElements
<1> HIDE DEF d
<1>5. Named(d) = Working(c)
  BY <1>2, <1>3, <1>4 DEF Working
<1> QED BY <1>1, <1>2, <1>3, <1>5

\* The identities dropped on import change neither what is computed nor the width.
LEMMA DropInnerRuns ==
    ASSUME NEW n, NEW c \in Seq(Proper(0..(n - 1))), NEW h \in Amps(n)
    PROVE  Runs(h, DropInnerIdentities(c)) = Runs(h, c)
<1> DEFINE top == Max(Working(c) \union {-1})
           I == {i \in DOMAIN c : ~IsIdentity(c[i]) \/ \E q \in ToSet(c[i].on) : q > top}
<1>1. \A i \in 1..Len(c) : i \notin I => IsIdentity(c[i])
  BY LenProperties
<1>2. DropInnerIdentities(c) = Select(c, I)
  BY DEF DropInnerIdentities
<1> HIDE DEF I
<1> QED BY <1>1, <1>2, DroppingRuns

LEMMA DropInnerWidth ==
    ASSUME NEW c \in Circuit
    PROVE  /\ DropInnerIdentities(c) \in Circuit
           /\ Named(DropInnerIdentities(c)) \subseteq Named(c)
           /\ NumQubits(DropInnerIdentities(c)) = NumQubits(c)
<1> DEFINE top == Max(Working(c) \union {-1})
           I == {i \in DOMAIN c : ~IsIdentity(c[i]) \/ \E q \in ToSet(c[i].on) : q > top}
           d == Select(c, I)
<1>1. DropInnerIdentities(c) = d
  BY DEF DropInnerIdentities
<1>2. d \in Circuit /\ ToSet(d) = {c[i] : i \in I \intersect DOMAIN c}
  BY SelectType, SelectElements DEF Circuit
<1>3. I \intersect DOMAIN c = I
  OBVIOUS
<1>4. Named(d) = UNION {ToSet(c[i].on) : i \in I}
  BY <1>2, <1>3, NamedElements
<1>5. Named(d) \subseteq Named(c)
  BY <1>4 DEF Named
<1>6. CASE c = <<>>
  <2>1. Named(c) = {}
    BY <1>6, NamedNothing
  <2>2. Named(d) = Named(c)
    BY <2>1, <1>5
  <2> QED BY <1>1, <1>2, <2>2, SameWidth
<1>7. CASE c # <<>>
  <2>1. PICK m \in Named(c) : \A q \in Named(c) : q <= m
    BY <1>7, NamedBound
  <2>2. Named(c) \subseteq Nat /\ m \in Nat /\ Working(c) \subseteq Named(c)
    BY <2>1, NamedBound, WorkingNames
  <2>3. m \in Named(d)
    <3>1. CASE m \in Working(c)
      <4>1. PICK i \in DOMAIN c : ~IsIdentity(c[i]) /\ m \in ToSet(c[i].on)
        BY <3>1 DEF Working
      <4>2. i \in I
        BY <4>1
      <4> HIDE DEF I, d
      <4> QED BY <4>1, <4>2, <1>4
    <3>2. CASE m \notin Working(c)
      <4>1. PICK i \in DOMAIN c : m \in ToSet(c[i].on)
        BY <2>1 DEF Named
      <4>2. top < m
        <5>1. \A q \in Working(c) \union {-1} : q \in Int /\ q < m
          BY <2>1, <2>2, <3>2
        <5>2. top \in Working(c) \union {-1}
          <6>1. CASE Working(c) = {}
            <7>1. Max({-1}) = -1
              BY MaxIs
            <7> QED BY <6>1, <7>1
          <6>2. CASE Working(c) # {}
            <7>1. PICK k \in Working(c) : \A q \in Working(c) : q <= k
              <8> DEFINE e == WithoutIdentities(c)
              <8>1. e \in Circuit /\ Named(e) = Working(c)
                BY WithoutIdentitiesNames DEF Circuit
              <8>2. e # <<>>
                BY <8>1, <6>2, NamedNothing
              <8> QED BY <8>1, <8>2, NamedBound
            <7>2. k \in Working(c) \union {-1} /\ \A q \in Working(c) \union {-1} : q <= k
              BY <7>1, <2>2
            <7>3. top = k
              BY <7>2, <5>1, MaxIs
            <7> QED BY <7>2, <7>3
          <6> QED BY <6>1, <6>2
        <5> QED BY <5>1, <5>2
      <4>3. \A q \in Working(c) \union {-1} : q \in Int
        BY <2>2
      <4>4. m > top
        BY <4>2
      <4>5. i \in I
        BY <4>1, <4>4
      <4> HIDE DEF I, d
      <4> QED BY <4>1, <4>5, <1>4
    <3> QED BY <3>1, <3>2
  <2>4. \A q \in Named(d) : q <= m
    BY <1>5, <2>1
  <2>5. NumQubits(d) = m + 1 /\ NumQubits(c) = m + 1
    BY <1>2, <2>1, <2>3, <2>4, Width
  <2> QED BY <1>1, <1>2, <1>5, <2>5
<1>8. d \in Circuit /\ Named(d) \subseteq Named(c)
  BY <1>2, <1>5
<1> QED BY <1>1, <1>6, <1>7, <1>8

---------------------------------------------------------------------------
(* Counts whose keys tell the outcomes apart: each key has the weight of   *)
(* one outcome.                                                            *)

\* A sum over one element is its summand.
LEMMA SumOverOne ==
    ASSUME NEW w, NEW x, w[x] \in Int
    PROVE  SumFunctionOnSet(w, {x}) = w[x]
<1> DEFINE P(f) == f = [s \in SUBSET {x} |->
                          IF s = {} THEN 0
                          ELSE LET y == CHOOSE z \in s : TRUE IN w[y] + f[s \ {y}]]
           g == [s \in SUBSET {x} |-> IF s = {} THEN 0 ELSE w[x]]
<1>1. SUBSET {x} = {{}, {x}}
  OBVIOUS
<1>2. (CHOOSE z \in {x} : TRUE) = x
  OBVIOUS
<1>3. P(g)
  <2>1. g[{}] = 0 /\ {x} \ {x} = {} /\ w[x] + 0 = w[x]
    BY <1>1
  <2>2. ASSUME NEW s \in SUBSET {x}
        PROVE  g[s] = IF s = {} THEN 0
                      ELSE LET y == CHOOSE z \in s : TRUE IN w[y] + g[s \ {y}]
    <3>1. CASE s = {}
      BY <3>1
    <3>2. CASE s = {x}
      <4>1. (CHOOSE z \in s : TRUE) = x /\ s \ {x} = {} /\ s # {}
        BY <3>2, <1>2
      <4>2. g[s] = w[x]
        BY <4>1
      <4> HIDE DEF g
      <4> QED BY <4>1, <4>2, <2>1
    <3> QED BY <3>1, <3>2, <1>1
  <2>3. g = [s \in SUBSET {x} |-> g[s]]
    OBVIOUS
  <2> HIDE DEF g
  <2> QED BY <2>2, <2>3
<1> DEFINE d == CHOOSE f : P(f)
<1>4. P(d)
  <2> HIDE DEF P, g
  <2> QED BY <1>3
<1>5. SumFunctionOnSet(w, {x}) = d[{x}]
  BY Zenon DEF SumFunctionOnSet, FoldFunctionOnSet, MapThenFoldSet
<1> HIDE DEF d
<1>6. d[{}] = 0
  BY <1>4, <1>1
<1>7. d[{x}] = w[x] + d[{x} \ {x}]
  BY <1>4, <1>1, <1>2
<1>8. {x} \ {x} = {} /\ w[x] + 0 = w[x]
  OBVIOUS
<1> QED BY <1>5, <1>6, <1>7, <1>8

Amplitudes(c, n) == Runs(Ground(n), c)
Seen(a, n) == {b \in Bits(n) : a[b] # 0}
KeyOf(b, read) == [i \in DOMAIN read |-> b[read[i]]]
KeysOf(a, n, read) == {KeyOf(b, read) : b \in Seen(a, n)}
IsOn(F, K) == F = [k \in K |-> F[k]]
Apart(a, n, read) == \A b, d \in Seen(a, n) : KeyOf(b, read) = KeyOf(d, read) => b = d

\* A weight is a square.
LEMMA Squares ==
    ASSUME NEW x \in Int
    PROVE  x * x \in Int /\ (x * x > 0 <=> x # 0)
OBVIOUS

\* The weights of a circuit are those of its amplitudes.
LEMMA WeightsAre ==
    ASSUME NEW n, NEW c \in Seq(Proper(0..(n - 1)))
    PROVE  /\ Amplitudes(c, n) \in Amps(n)
           /\ Weights(c, n) = [b \in Bits(n) |-> Amplitudes(c, n)[b] * Amplitudes(c, n)[b]]
           /\ \A b \in Bits(n) : Weights(c, n)[b] \in Int
           /\ {b \in Bits(n) : Weights(c, n)[b] > 0} = Seen(Amplitudes(c, n), n)
<1> DEFINE a == Amplitudes(c, n)
<1>1. a \in Amps(n)
  BY RunsType, GroundType DEF Amplitudes
<1>2. Weights(c, n) = [b \in Bits(n) |-> a[b] * a[b]]
  BY Zenon DEF Weights, Amplitudes, Runs
<1> HIDE DEF a
<1>3. \A b \in Bits(n) : a[b] \in Int
  BY <1>1 DEF Amps
<1>4. \A b \in Bits(n) : a[b] * a[b] \in Int /\ (a[b] * a[b] > 0 <=> a[b] # 0)
  BY <1>3, Squares
<1>5. \A b \in Bits(n) : Weights(c, n)[b] = a[b] * a[b]
  BY <1>2
<1>6. \A b \in Bits(n) : Weights(c, n)[b] \in Int /\ (Weights(c, n)[b] > 0 <=> a[b] # 0)
  BY <1>4, <1>5, Zenon
<1>7. {b \in Bits(n) : Weights(c, n)[b] > 0} = Seen(a, n)
  BY <1>6, Zenon DEF Seen
<1> QED BY <1>1, <1>2, <1>6, <1>7 DEF a

\* The counts under keys that tell the outcomes apart.
LEMMA CountsAt ==
    ASSUME NEW n, NEW c \in Seq(Proper(0..(n - 1))), NEW read,
           Apart(Amplitudes(c, n), n, read)
    PROVE  /\ IsOn(Counts(c, n, read), KeysOf(Amplitudes(c, n), n, read))
           /\ \A b \in Seen(Amplitudes(c, n), n) :
                  Counts(c, n, read)[KeyOf(b, read)] = Weights(c, n)[b]
<1> DEFINE w == Weights(c, n)
           a == Amplitudes(c, n)
           seen == Seen(a, n)
           F == Counts(c, n, read)
<1>1. /\ \A b \in Bits(n) : w[b] \in Int
      /\ {b \in Bits(n) : w[b] > 0} = seen
  BY WeightsAre
<1>2. F = [k \in {KeyOf(b, read) : b \in seen} |->
               SumFunctionOnSet(w, {b \in seen : KeyOf(b, read) = k})]
  BY <1>1, Zenon DEF Counts, KeyOf
<1>3. seen \subseteq Bits(n)
  BY DEF Seen
<1> HIDE DEF w, a, F
<1>4. ASSUME NEW b \in seen PROVE F[KeyOf(b, read)] = w[b]
  <2>1. {d \in seen : KeyOf(d, read) = KeyOf(b, read)} = {b}
    BY DEF a, Apart
  <2>2. F[KeyOf(b, read)] = SumFunctionOnSet(w, {d \in seen : KeyOf(d, read) = KeyOf(b, read)})
    BY <1>2
  <2>3. w[b] \in Int
    BY <1>1, <1>3
  <2> QED BY <2>1, <2>2, <2>3, SumOverOne
<1>5. IsOn(F, {KeyOf(b, read) : b \in seen})
  BY <1>2 DEF IsOn
<1> QED BY <1>4, <1>5 DEF w, a, F, KeysOf

\* Two such counts are the same if their outcomes have the same keys and
\* amplitudes.
LEMMA CountsSame ==
    ASSUME NEW n, NEW c \in Seq(Proper(0..(n - 1))), NEW read,
           NEW m, NEW d \in Seq(Proper(0..(m - 1))), NEW look,
           Apart(Amplitudes(c, n), n, read), Apart(Amplitudes(d, m), m, look),
           \A b \in Seen(Amplitudes(c, n), n) : \E e \in Seen(Amplitudes(d, m), m) :
               KeyOf(b, read) = KeyOf(e, look) /\ Amplitudes(c, n)[b] = Amplitudes(d, m)[e],
           \A e \in Seen(Amplitudes(d, m), m) : \E b \in Seen(Amplitudes(c, n), n) :
               KeyOf(b, read) = KeyOf(e, look)
    PROVE  Counts(c, n, read) = Counts(d, m, look)
<1> DEFINE A == Seen(Amplitudes(c, n), n)
           B == Seen(Amplitudes(d, m), m)
           F == Counts(c, n, read)
           H == Counts(d, m, look)
           K == KeysOf(Amplitudes(c, n), n, read)
<1>1. IsOn(F, K) /\ \A b \in A : F[KeyOf(b, read)] = Weights(c, n)[b]
  BY CountsAt
<1>2. IsOn(H, KeysOf(Amplitudes(d, m), m, look)) /\ \A e \in B : H[KeyOf(e, look)] = Weights(d, m)[e]
  BY CountsAt
<1>3. \A b \in A : Weights(c, n)[b] = Amplitudes(c, n)[b] * Amplitudes(c, n)[b]
  BY WeightsAre DEF Seen
<1>4. \A e \in B : Weights(d, m)[e] = Amplitudes(d, m)[e] * Amplitudes(d, m)[e]
  BY WeightsAre DEF Seen
<1> HIDE DEF A, B, F, H
<1>5. KeysOf(Amplitudes(d, m), m, look) = K /\ K = {KeyOf(b, read) : b \in A}
  BY DEF A, B, KeysOf
<1>6. ASSUME NEW k \in K PROVE F[k] = H[k]
  <2>1. PICK b \in A : k = KeyOf(b, read)
    BY <1>5
  <2>2. PICK e \in B : KeyOf(b, read) = KeyOf(e, look) /\ Amplitudes(c, n)[b] = Amplitudes(d, m)[e]
    BY DEF A, B
  <2>3. F[k] = Weights(c, n)[b]
    BY <2>1, <1>1
  <2>4. H[k] = Weights(d, m)[e]
    BY <2>1, <2>2, <1>2
  <2>5. Weights(c, n)[b] = Amplitudes(c, n)[b] * Amplitudes(c, n)[b]
    BY <2>1, <1>3
  <2>6. Weights(d, m)[e] = Amplitudes(c, n)[b] * Amplitudes(c, n)[b]
    BY <2>2, <1>4
  <2> QED BY <2>3, <2>4, <2>5, <2>6
<1>7. IsOn(H, K)
  BY <1>2, <1>5
<1> HIDE DEF K
<1>8. F = H
  BY <1>1, <1>6, <1>7 DEF IsOn
<1> QED BY <1>8 DEF F, H

---------------------------------------------------------------------------
(* The numbers of a set in ascending order, and the register.              *)

Below(S, q) == {p \in S : p < q}

\* How many numbers are below another.
LEMMA FirstNumbers ==
    ASSUME NEW n \in Nat
    PROVE  IsFiniteSet(0..(n - 1)) /\ Cardinality(0..(n - 1)) = n
<1> DEFINE m == n - 1
<1>1. m \in Int /\ (IF 0 > m THEN 0 ELSE m - 0 + 1) = n
  OBVIOUS
<1> HIDE DEF m
<1>2. IsFiniteSet(0..m) /\ Cardinality(0..m) = IF 0 > m THEN 0 ELSE m - 0 + 1
  BY <1>1, FS_Interval, 0 \in Int
<1> QED BY <1>1, <1>2 DEF m

\* Numbers of a set are told apart by how many of the set are below them.
LEMMA BelowCounts ==
    ASSUME NEW n \in Nat, NEW S \in SUBSET (0..(n - 1))
    PROVE  /\ IsFiniteSet(S) /\ Cardinality(S) \in Nat
           /\ \A q, r \in S : q < r => Cardinality(Below(S, q)) < Cardinality(Below(S, r))
           /\ \A q \in S : Cardinality(Below(S, q)) \in 0..(Cardinality(S) - 1)
<1>0. n - 1 \in Int /\ S \subseteq Int
  OBVIOUS
<1>1. IsFiniteSet(S) /\ Cardinality(S) \in Nat
  <2>1. IsFiniteSet(0..(n - 1))
    BY FirstNumbers
  <2>2. IsFiniteSet(S)
    BY <2>1, FS_Subset
  <2> QED BY <2>2, FS_CardinalityType
<1>2. ASSUME NEW x \in S, NEW T \in SUBSET S, x \in T, x \notin Below(S, x), Below(S, x) \subseteq T
      PROVE  /\ Cardinality(Below(S, x)) \in Nat /\ Cardinality(T) \in Nat
             /\ Cardinality(Below(S, x)) < Cardinality(T)
  <2>1. IsFiniteSet(T) /\ IsFiniteSet(Below(S, x))
    BY <1>1, FS_Subset DEF Below
  <2>2. Cardinality(T) \in Nat /\ Cardinality(Below(S, x)) \in Nat
    BY <2>1, FS_CardinalityType
  <2>3. Below(S, x) # T
    BY <1>2
  <2>4. Cardinality(Below(S, x)) <= Cardinality(T) /\ Cardinality(Below(S, x)) # Cardinality(T)
    BY <2>1, <2>3, <1>2, FS_Subset
  <2> QED BY <2>2, <2>4
<1>3. ASSUME NEW q \in S, NEW r \in S, q < r
      PROVE  Cardinality(Below(S, q)) < Cardinality(Below(S, r))
  <2>1. q \in Below(S, r) /\ q \notin Below(S, q) /\ Below(S, r) \subseteq S
    BY <1>0, <1>3 DEF Below
  <2>2. \A p \in Below(S, q) : p \in Below(S, r)
    BY <1>0, <1>3 DEF Below
  <2> QED BY <1>2, <2>1, <2>2
<1>4. ASSUME NEW q \in S PROVE Cardinality(Below(S, q)) \in 0..(Cardinality(S) - 1)
  <2>1. q \notin Below(S, q) /\ Below(S, q) \subseteq S
    BY <1>0 DEF Below
  <2>2. Cardinality(Below(S, q)) \in Nat /\ Cardinality(Below(S, q)) < Cardinality(S)
    BY <1>2, <2>1
  <2> QED BY <2>2, <1>1
<1> QED BY <1>1, <1>3, <1>4

\* Ascending lists a finite set of numbers once, in order.
LEMMA AscendingIs ==
    ASSUME NEW n \in Nat, NEW S \in SUBSET (0..(n - 1))
    PROVE  /\ Ascending(S) \in Seq(S)
           /\ \A q \in S : \E i \in DOMAIN Ascending(S) : Ascending(S)[i] = q
           /\ \A i \in DOMAIN Ascending(S) : Cardinality(Below(S, Ascending(S)[i])) = i - 1
           /\ DOMAIN Ascending(S) = 1..Cardinality(S)
           /\ \A i, j \in DOMAIN Ascending(S) : Ascending(S)[i] = Ascending(S)[j] => i = j
<1> DEFINE k == Cardinality(S)
           place == [q \in S |-> Cardinality(Below(S, q))]
           s == [i \in 1..k |-> CHOOSE q \in S : Cardinality(Below(S, q)) = i - 1]
<1>1. IsFiniteSet(S) /\ k \in Nat /\ \A q \in S : Cardinality(Below(S, q)) \in 0..(k - 1)
  BY BelowCounts
<1>2. \A q, r \in S : Cardinality(Below(S, q)) = Cardinality(Below(S, r)) => q = r
  <2>1. \A q \in S : Cardinality(Below(S, q)) \in Int /\ q \in Int
    BY <1>1
  <2>2. \A q, r \in S : q < r => Cardinality(Below(S, q)) < Cardinality(Below(S, r))
    BY BelowCounts
  <2> QED BY <2>1, <2>2
<1>3. Ascending(S) = s
  BY DEF Ascending, Below
<1> HIDE DEF k
<1>4. place \in Injection(S, 0..(k - 1))
  BY <1>1, <1>2 DEF Injection, IsInjective
<1>5. IsFiniteSet(0..(k - 1)) /\ Cardinality(0..(k - 1)) = k
  BY <1>1, FirstNumbers
<1>6. place \in Surjection(S, 0..(k - 1))
  BY <1>1, <1>4, <1>5, FS_Injection DEF k
<1>7. \A m \in 0..(k - 1) : \E q \in S : place[q] = m
  BY <1>6 DEF Surjection
<1>8. \A m \in 0..(k - 1) : \E q \in S : Cardinality(Below(S, q)) = m
  BY <1>7
<1> HIDE DEF place
<1>9. ASSUME NEW i \in 1..k PROVE s[i] \in S /\ Cardinality(Below(S, s[i])) = i - 1
  <2>1. i - 1 \in 0..(k - 1)
    BY <1>1
  <2>2. \E q \in S : Cardinality(Below(S, q)) = i - 1
    BY <2>1, <1>8
  <2>3. s[i] = CHOOSE q \in S : Cardinality(Below(S, q)) = i - 1
    OBVIOUS
  <2> HIDE DEF s
  <2> QED BY <2>2, <2>3
<1>10. DOMAIN s = 1..k /\ s = [i \in 1..k |-> s[i]]
  OBVIOUS
<1> HIDE DEF s
<1>11. s \in [1..k -> S]
  BY <1>9, <1>10
<1>12. s \in Seq(S)
  BY <1>1, <1>11, FunctionIsSeq
<1>13. ASSUME NEW q \in S PROVE \E i \in 1..k : s[i] = q
  <2> DEFINE m == Cardinality(Below(S, q))
  <2>1. m \in 0..(k - 1)
    BY <1>1
  <2> HIDE DEF m
  <2>2. m + 1 \in 1..k /\ (m + 1) - 1 = m
    BY <2>1, <1>1
  <2>3. s[m + 1] \in S /\ Cardinality(Below(S, s[m + 1])) = m
    BY <2>2, <1>9
  <2>4. s[m + 1] = q
    BY <2>3, <1>2 DEF m
  <2> QED BY <2>2, <2>4
<1>14. ASSUME NEW i \in 1..k, NEW j \in 1..k, s[i] = s[j] PROVE i = j
  <2>1. i - 1 = j - 1
    BY <1>9, <1>14
  <2> QED BY <2>1
<1> QED BY <1>3, <1>9, <1>10, <1>12, <1>13, <1>14 DEF k

\* All wires in ascending order are the register.
LEMMA AscendingWires ==
    ASSUME NEW n \in Nat
    PROVE  Ascending(0..(n - 1)) = Register(n)
<1> DEFINE S == 0..(n - 1)
           s == Ascending(S)
<1>1. S \in SUBSET (0..(n - 1))
  OBVIOUS
<1>2. Cardinality(S) = n
  BY FirstNumbers
<1>3. ASSUME NEW q \in S PROVE Cardinality(Below(S, q)) = q
  <2>1. Below(S, q) = 0..(q - 1)
    BY DEF Below
  <2>2. q \in Nat
    OBVIOUS
  <2> QED BY <2>1, <2>2, FirstNumbers
<1>4. s \in Seq(S) /\ DOMAIN s = 1..n /\ \A i \in 1..n : Cardinality(Below(S, s[i])) = i - 1
  BY <1>1, <1>2, AscendingIs
<1> HIDE DEF s
<1>5. ASSUME NEW i \in 1..n PROVE s[i] = i - 1
  <2>1. s[i] \in S
    BY <1>4
  <2> QED BY <2>1, <1>3, <1>4
<1>6. s = [i \in 1..n |-> s[i]]
  BY <1>4
<1> QED BY <1>5, <1>6 DEF Register, s

Word(b, n) == [i \in 1..n |-> b[i - 1]]

\* The keys read from the register tell all outcomes apart.
LEMMA RegisterKeys ==
    ASSUME NEW n \in Nat
    PROVE  /\ \A b : KeyOf(b, Register(n)) = Word(b, n)
           /\ \A b, d \in Bits(n) : Word(b, n) = Word(d, n) => b = d
           /\ \A a : Apart(a, n, Register(n))
<1>1. ASSUME NEW b PROVE KeyOf(b, Register(n)) = Word(b, n)
  BY DEF KeyOf, Register, Word
<1>2. ASSUME NEW b \in Bits(n), NEW d \in Bits(n), Word(b, n) = Word(d, n) PROVE b = d
  <2>1. ASSUME NEW q \in 0..(n - 1) PROVE b[q] = d[q]
    <3>1. q + 1 \in 1..n /\ (q + 1) - 1 = q
      OBVIOUS
    <3>2. Word(b, n)[q + 1] = b[q] /\ Word(d, n)[q + 1] = d[q]
      BY <3>1 DEF Word
    <3> QED BY <3>2, <1>2
  <2> QED BY <2>1, BitsEqual
<1>3. \A a : Apart(a, n, Register(n))
  BY <1>1, <1>2 DEF Apart, Seen
<1> QED BY <1>1, <1>2, <1>3

\* Circuits with the same amplitudes have the same counts.
LEMMA SameAmplitudes ==
    ASSUME NEW n, NEW c, NEW d, Amplitudes(c, n) = Amplitudes(d, n), NEW read
    PROVE  Counts(c, n, read) = Counts(d, n, read)
<1>1. Weights(c, n) = Weights(d, n)
  BY Zenon DEF Weights, Amplitudes, Runs
<1> QED BY <1>1 DEF Counts

---------------------------------------------------------------------------
(* Keys read from the other end.                                           *)

\* Reversing twice gives the key back.
LEMMA BackToFront ==
    ASSUME NEW n \in Nat, NEW b \in Bits(n)
    PROVE  /\ KeyOf(b, Reverse(Register(n))) = Reverse(Word(b, n))
           /\ Reverse(Reverse(Word(b, n))) = Word(b, n)
<1> DEFINE W == Word(b, n)
           R == Register(n)
<1>1. \A i \in 1..n : (n - i) + 1 \in 1..n /\ (n - ((n - i) + 1)) + 1 = i /\ i - 1 \in 0..(n - 1)
  OBVIOUS
<1>2. W \in [1..n -> {0, 1}]
  BY <1>1 DEF Word, Bits
<1>3. Len(W) = n /\ \A i \in 1..n : W[i] = b[i - 1]
  BY <1>2, FunctionIsSeq DEF Word
<1>4. R \in [1..n -> Int]
  BY DEF Register
<1>5. Len(R) = n /\ \A i \in 1..n : R[i] = i - 1
  BY <1>4, FunctionIsSeq DEF Register
<1> HIDE DEF W, R
<1>6. /\ Reverse(W) = [i \in 1..n |-> W[(n - i) + 1]]
      /\ Reverse(R) = [i \in 1..n |-> R[(n - i) + 1]]
  BY <1>3, <1>5 DEF Reverse
<1>7. Reverse(W) \in [1..n -> {0, 1}]
  BY <1>1, <1>2, <1>6
<1>8. Len(Reverse(W)) = n
  BY <1>7, FunctionIsSeq
<1>9. Reverse(Reverse(W)) = [i \in 1..n |-> Reverse(W)[(n - i) + 1]]
  BY <1>8 DEF Reverse
<1>10. \A i \in 1..n : Reverse(W)[(n - i) + 1] = W[i]
  BY <1>1, <1>6
<1>11. W = [i \in 1..n |-> W[i]]
  BY <1>2
<1>12. Reverse(Reverse(W)) = W
  BY <1>9, <1>10, <1>11
<1>13. KeyOf(b, Reverse(R)) = [i \in 1..n |-> b[Reverse(R)[i]]]
  BY <1>6 DEF KeyOf
<1>14. \A i \in 1..n : b[Reverse(R)[i]] = W[(n - i) + 1]
  <2> TAKE i \in 1..n
  <2>1. (n - i) + 1 \in 1..n
    BY <1>1
  <2>2. Reverse(R)[i] = R[(n - i) + 1]
    BY <1>6
  <2>3. R[(n - i) + 1] = ((n - i) + 1) - 1
    BY <2>1, <1>5
  <2>4. W[(n - i) + 1] = b[((n - i) + 1) - 1]
    BY <2>1, <1>3
  <2> QED BY <2>2, <2>3, <2>4
<1>15. KeyOf(b, Reverse(R)) = Reverse(W)
  BY <1>6, <1>13, <1>14
<1> QED BY <1>12, <1>15 DEF W, R

\* A circuit on its own wires, and its outcomes.
LEMMA OnOwnWires ==
    ASSUME NEW c \in Circuit
    PROVE  NumQubits(c) \in Nat /\ c \in Seq(Proper(0..(NumQubits(c) - 1)))
<1>1. NumQubits(c) \in Nat /\ Named(c) \subseteq 0..(NumQubits(c) - 1)
  BY WidthBounds
<1> QED BY <1>1, CircuitOnWires DEF Circuit

Wide(c) == Seen(Amplitudes(c, NumQubits(c)), NumQubits(c))

\* The counts of the local executor: the key of an outcome is its bits.
LEMMA LocalIs ==
    ASSUME NEW c \in Circuit
    PROVE  /\ IsOn(LocalCounts(c), {Word(b, NumQubits(c)) : b \in Wide(c)})
           /\ \A b \in Wide(c) :
                  /\ b \in Bits(NumQubits(c))
                  /\ LocalCounts(c)[Word(b, NumQubits(c))] = Weights(c, NumQubits(c))[b]
                  /\ Weights(c, NumQubits(c))[b] \in Int
<1> DEFINE n == NumQubits(c)
           a == Amplitudes(c, n)
           F == Counts(c, n, Register(n))
<1>1. n \in Nat /\ c \in Seq(Proper(0..(n - 1)))
  BY OnOwnWires
<1>2. LocalCounts(c) = F
  BY DEF LocalCounts
<1>3. Wide(c) = Seen(a, n)
  BY DEF Wide
<1> HIDE DEF n
<1>4. Apart(a, n, Register(n))
  BY <1>1, RegisterKeys
<1>5. /\ IsOn(F, KeysOf(a, n, Register(n)))
      /\ \A b \in Seen(a, n) : F[KeyOf(b, Register(n))] = Weights(c, n)[b]
  BY <1>1, <1>4, CountsAt
<1>6. \A b : KeyOf(b, Register(n)) = Word(b, n)
  BY <1>1, RegisterKeys
<1>7. KeysOf(a, n, Register(n)) = {Word(b, n) : b \in Seen(a, n)}
  BY <1>6 DEF KeysOf
<1>8. \A b \in Seen(a, n) : b \in Bits(n) /\ Weights(c, n)[b] \in Int
  BY <1>1, WeightsAre DEF Seen
<1> HIDE DEF a, F
<1>9. \A b \in Seen(a, n) : F[Word(b, n)] = Weights(c, n)[b]
  BY <1>5, <1>6
<1>10. IsOn(F, {Word(b, n) : b \in Seen(a, n)})
  BY <1>5, <1>7
<1> QED BY <1>2, <1>3, <1>8, <1>9, <1>10 DEF n

\* Qiskit's keys, reversed, are the local ones.
LEMMA ReversedIsLocal ==
    ASSUME NEW c \in Circuit
    PROVE  Reversed(ReadQiskit(c)) = LocalCounts(c)
<1> DEFINE n == NumQubits(c)
           a == Amplitudes(c, n)
           R == Reverse(Register(n))
           L == LocalCounts(c)
           F == Counts(c, n, R)
           A == Seen(a, n)
           K == {Word(b, n) : b \in A}
           w == Weights(c, n)
<1>1. n \in Nat /\ c \in Seq(Proper(0..(n - 1)))
  BY OnOwnWires
<1>2. IsOn(L, K) /\ \A b \in A : b \in Bits(n) /\ L[Word(b, n)] = w[b]
  BY LocalIs, Zenon DEF Wide
<1>3. ReadQiskit(c) = F
  BY DEF ReadQiskit, ToQiskit
<1>4. \A b \in A : /\ KeyOf(b, R) = Reverse(Word(b, n))
                   /\ Reverse(Reverse(Word(b, n))) = Word(b, n)
  BY <1>1, <1>2, BackToFront
<1>5. Apart(a, n, R)
  <2>1. \A b, d \in A : Word(b, n) = Word(d, n) => b = d
    BY <1>1, <1>2, RegisterKeys
  <2> HIDE DEF R, A, n
  <2> QED BY <2>1, <1>4 DEF Apart, A
<1>6. IsOn(F, KeysOf(a, n, R)) /\ \A b \in A : F[KeyOf(b, R)] = w[b]
  BY <1>1, <1>5, CountsAt
<1> HIDE DEF n, R, L, F, w
<1>7. DOMAIN F = {Reverse(k) : k \in K}
  <2>1. DOMAIN F = {KeyOf(b, R) : b \in A}
    BY <1>6 DEF IsOn, KeysOf
  <2> HIDE DEF A
  <2> QED BY <2>1, <1>4
<1>8. \A k \in K : Reverse(Reverse(k)) = k
  BY <1>4
<1>9. {Reverse(key) : key \in DOMAIN F} = K
  BY <1>7, <1>8
<1>10. \A k \in K : F[Reverse(k)] = L[k]
  <2> HIDE DEF A
  <2> QED BY <1>2, <1>4, <1>6
<1> HIDE DEF K
<1>11. Reversed(F) = [k \in K |-> F[Reverse(k)]]
  BY <1>9 DEF Reversed
<1>12. Reversed(F) = L
  BY <1>2, <1>10, <1>11 DEF IsOn
<1> QED BY <1>3, <1>12 DEF L

---------------------------------------------------------------------------
(* Keys of the working wires alone, with a '0' put in for each idle one.   *)

\* The working wires after one more gate.
LEMMA WorkingAppend ==
    ASSUME NEW G, NEW c \in Seq(G), NEW g \in G
    PROVE  Working(Append(c, g)) = Working(c) \union (IF IsIdentity(g) THEN {} ELSE ToSet(g.on))
<1>1. \A d : Working(d) = UNION {ToSet(e.on) : e \in {f \in ToSet(d) : ~IsIdentity(f)}}
  BY DEF Working, ToSet
<1>2. ToSet(Append(c, g)) = ToSet(c) \union {g}
  BY ElementsAppend
<1>3. {f \in ToSet(c) \union {g} : ~IsIdentity(f)}
      = {f \in ToSet(c) : ~IsIdentity(f)} \union (IF IsIdentity(g) THEN {} ELSE {g})
  OBVIOUS
<1>4. CASE IsIdentity(g)
  BY <1>1, <1>2, <1>3, <1>4
<1>5. CASE ~IsIdentity(g)
  BY <1>1, <1>2, <1>3, <1>5
<1> QED BY <1>4, <1>5

\* A wire that is 0 in every outcome stays so under gates elsewhere.
Still(a, n, q) == \A b \in Bits(n) : a[b] # 0 => b[q] = 0

LEMMA StillStays ==
    ASSUME NEW n, NEW g \in Proper(0..(n - 1)), NEW a \in Amps(n), NEW q \in 0..(n - 1),
           q \notin ToSet(g.on), Still(a, n, q)
    PROVE  Still(Evolve(a, g), n, q)
<1> SUFFICES ASSUME NEW b \in Bits(n), Evolve(a, g)[b] # 0 PROVE b[q] = 0
  BY DEF Still
<1>1. CASE g.name = "H"
  <2> DEFINE p == g.on[1]
             b0 == Put(b, p, 0)
             b1 == Put(b, p, 1)
  <2>1. p \in 0..(n - 1) /\ p # q
    BY <1>1, ProperShape DEF OneQubit
  <2>2. b0 \in Bits(n) /\ b1 \in Bits(n) /\ b0[q] = b[q] /\ b1[q] = b[q]
    <3> HIDE DEF p
    <3>1. /\ Put(b, p, 0) \in Bits(n) /\ Put(b, p, 1) \in Bits(n)
          /\ \A r \in 0..(n - 1) : r # p => Put(b, p, 0)[r] = b[r] /\ Put(b, p, 1)[r] = b[r]
      BY <2>1, SetBits
    <3> QED BY <2>1, <3>1
  <2>3. /\ a[b0] \in Int /\ a[b1] \in Int
        /\ Evolve(a, g)[b] = IF b[p] = 1 THEN a[b0] - a[b1] ELSE a[b0] + a[b1]
    BY <1>1, EvolveH
  <2> HIDE DEF b0, b1
  <2>4. a[b0] # 0 \/ a[b1] # 0
    BY <2>3
  <2> QED BY <2>2, <2>4 DEF Still
<1>2. CASE g.name # "H"
  <2>1. Permuted(g, b) \in Bits(n) /\ Permuted(g, b)[q] = b[q]
    BY <1>2, PermutedBits
  <2>2. Evolve(a, g)[b] = a[Permuted(g, b)]
    BY <1>2, EvolvePermuted
  <2> QED BY <2>1, <2>2 DEF Still
<1> QED BY <1>1, <1>2

\* A wire that only identities name is 0 in every outcome.
LEMMA IdleAreStill ==
    ASSUME NEW n, NEW c \in Seq(Proper(0..(n - 1))), NEW q \in 0..(n - 1), q \notin Working(c)
    PROVE  Still(Amplitudes(c, n), n, q)
<1> DEFINE G == Proper(0..(n - 1))
           S == {d \in Seq(G) : q \notin Working(d) => Still(Amplitudes(d, n), n, q)}
<1>1. <<>> \in S
  <2>1. Still(Ground(n), n, q)
    BY DEF Still, Ground, Bits
  <2> QED BY <2>1, RunNothing, EmptySeq DEF Amplitudes
<1>2. ASSUME NEW d \in Seq(G), NEW g \in G, d \in S PROVE Append(d, g) \in S
  <2>1. Append(d, g) \in Seq(G)
    BY AppendProperties
  <2>2. SUFFICES ASSUME q \notin Working(Append(d, g))
                 PROVE  Still(Amplitudes(Append(d, g), n), n, q)
    BY <2>1
  <2>3. q \notin Working(d) /\ (IsIdentity(g) \/ q \notin ToSet(g.on))
    BY <2>2, WorkingAppend
  <2>4. Still(Amplitudes(d, n), n, q)
    BY <1>2, <2>3
  <2>5. Amplitudes(Append(d, g), n) = Evolve(Amplitudes(d, n), g)
    BY RunAppend DEF Amplitudes
  <2>6. Amplitudes(d, n) \in Amps(n)
    BY RunsType, GroundType DEF Amplitudes
  <2> HIDE DEF S
  <2> QED BY <2>3, <2>4, <2>5, <2>6, StillStays, EvolveIdentity
<1> HIDE DEF S, G
<1>3. \A d \in Seq(G) : d \in S
  BY <1>1, <1>2, SequenceInduction
<1> QED BY <1>3 DEF S, G

Widen(n, m, k) ==
    [i \in 1..n |-> IF i - 1 \in ToSet(m) THEN k[CHOOSE j \in DOMAIN m : m[j] = i - 1] ELSE 0]

\* Widened, with the key named.
LEMMA WidenedIs ==
    ASSUME NEW c, NEW F, NEW m
    PROVE  Widened(c, F, m) =
               [v \in {Widen(NumQubits(c), m, k) : k \in DOMAIN F} |->
                    SumFunctionOnSet(F, {k \in DOMAIN F : Widen(NumQubits(c), m, k) = v})]
BY DEF Widened, Widen

\* A key of the working wires, widened, is the key of all wires.
LEMMA WidenKey ==
    ASSUME NEW c \in Circuit, NEW b \in Wide(c)
    PROVE  Widen(NumQubits(c), WorkingWires(c), KeyOf(b, WorkingWires(c))) = Word(b, NumQubits(c))
<1> DEFINE n == NumQubits(c)
           S == Working(c)
           m == WorkingWires(c)
           k == KeyOf(b, m)
<1>1. n \in Nat /\ c \in Seq(Proper(0..(n - 1))) /\ S \in SUBSET (0..(n - 1))
  BY OnOwnWires, WidthBounds, WorkingNames
<1>2. \A q \in S : \E i \in DOMAIN m : m[i] = q
  BY <1>1, AscendingIs DEF WorkingWires
<1>3. b \in Bits(n) /\ Amplitudes(c, n)[b] # 0
  BY DEF Wide, Seen
<1> HIDE DEF n, m
<1>4. k = [j \in DOMAIN m |-> b[m[j]]]
  BY DEF KeyOf
<1> HIDE DEF k
<1>5. ASSUME NEW q \in 0..(n - 1)
      PROVE  (IF q \in ToSet(m) THEN k[CHOOSE j \in DOMAIN m : m[j] = q] ELSE 0) = b[q]
  <2>1. CASE q \in ToSet(m)
    <3> DEFINE J == CHOOSE j \in DOMAIN m : m[j] = q
    <3>1. J \in DOMAIN m /\ m[J] = q
      BY <2>1 DEF ToSet
    <3> HIDE DEF J
    <3>2. k[J] = b[q]
      BY <3>1, <1>4
    <3> QED BY <3>2, <2>1 DEF J
  <2>2. CASE q \notin ToSet(m)
    <3>1. q \notin Working(c)
      BY <2>2, <1>2 DEF ToSet
    <3>2. Still(Amplitudes(c, n), n, q)
      BY <3>1, <1>1, IdleAreStill
    <3> QED BY <3>2, <2>2, <1>3 DEF Still
  <2> QED BY <2>1, <2>2
<1>6. ASSUME NEW i \in 1..n PROVE Widen(n, m, k)[i] = Word(b, n)[i]
  <2>1. i - 1 \in 0..(n - 1)
    BY <1>1
  <2>2. Widen(n, m, k)[i]
        = IF i - 1 \in ToSet(m) THEN k[CHOOSE j \in DOMAIN m : m[j] = i - 1] ELSE 0
    BY DEF Widen
  <2> QED BY <2>1, <2>2, <1>5 DEF Word
<1>7. Widen(n, m, k) = [i \in 1..n |-> Widen(n, m, k)[i]] /\ Word(b, n) = [i \in 1..n |-> Word(b, n)[i]]
  BY DEF Widen, Word
<1>8. Widen(n, m, k) = Word(b, n)
  BY <1>6, <1>7
<1> QED BY <1>8 DEF n, m, k

\* Counts read from the working wires are restored to the local ones.
LEMMA RestoredIsLocal ==
    ASSUME NEW c \in Circuit, NEW d,
           Amplitudes(d, NumQubits(c)) = Amplitudes(c, NumQubits(c))
    PROVE  Restored(c, ReadWorking(c, d)) = LocalCounts(c)
<1> DEFINE n == NumQubits(c)
           a == Amplitudes(c, n)
           A == Wide(c)
           m == WorkingWires(c)
           F == Counts(c, n, m)
           L == LocalCounts(c)
           w == Weights(c, n)
           K == {Word(b, n) : b \in A}
           Z(k) == Widen(n, m, k)
<1>1. ReadWorking(c, d) = F
  BY SameAmplitudes DEF ReadWorking
<1>2. n \in Nat /\ c \in Seq(Proper(0..(n - 1))) /\ Working(c) \subseteq 0..(n - 1)
  BY OnOwnWires, WidthBounds, WorkingNames
<1>3. CASE IdleQubits(c) = {}
  <2>1. Working(c) = 0..(n - 1)
    BY <1>2, <1>3 DEF IdleQubits, Wires
  <2>2. m = Register(n)
    BY <1>2, <2>1, AscendingWires DEF WorkingWires
  <2>3. Restored(c, F) = F
    BY <1>3 DEF Restored
  <2> QED BY <1>1, <2>2, <2>3 DEF LocalCounts
<1>4. CASE IdleQubits(c) # {}
  <2>1. IsOn(L, K) /\ \A b \in A : b \in Bits(n) /\ L[Word(b, n)] = w[b] /\ w[b] \in Int
    BY LocalIs, Zenon
  <2>2. \A b \in A : Z(KeyOf(b, m)) = Word(b, n)
    BY WidenKey
  <2>3. Wide(c) = Seen(a, n)
    BY DEF Wide
  <2> HIDE DEF a, A, m, n, F, L, w, Z
  <2>4. Apart(a, n, m)
    <3>1. \A b, e \in A : Word(b, n) = Word(e, n) => b = e
      BY <1>2, <2>1, RegisterKeys
    <3> QED BY <3>1, <2>2, <2>3 DEF Apart, A
  <2>5. IsOn(F, KeysOf(a, n, m)) /\ \A b \in A : F[KeyOf(b, m)] = w[b]
    BY <1>2, <2>3, <2>4, CountsAt DEF F, a, w, A
  <2>6. DOMAIN F = {KeyOf(b, m) : b \in A}
    BY <2>3, <2>5 DEF IsOn, KeysOf, A
  <2>7. {Z(k) : k \in DOMAIN F} = K
    BY <2>2, <2>6
  <2>8. ASSUME NEW v \in K PROVE SumFunctionOnSet(F, {k \in DOMAIN F : Z(k) = v}) = L[v]
    <3>1. PICK b \in A : v = Word(b, n)
      OBVIOUS
    <3>2. \A e \in A : Word(e, n) = Word(b, n) => e = b
      BY <1>2, <2>1, RegisterKeys
    <3>3. {k \in DOMAIN F : Z(k) = v} = {KeyOf(b, m)}
      BY <2>2, <2>6, <3>1, <3>2
    <3>4. F[KeyOf(b, m)] = w[b] /\ w[b] \in Int /\ L[v] = w[b]
      BY <2>1, <2>5, <3>1
    <3> QED BY <3>3, <3>4, SumOverOne
  <2> HIDE DEF K
  <2>9. Widened(c, F, m) = [v \in {Z(k) : k \in DOMAIN F} |->
                                SumFunctionOnSet(F, {k \in DOMAIN F : Z(k) = v})]
    BY WidenedIs DEF Z, n
  <2>10. Widened(c, F, m) = [v \in K |-> SumFunctionOnSet(F, {k \in DOMAIN F : Z(k) = v})]
    BY <2>7, <2>9
  <2>11. Widened(c, F, m) = [v \in K |-> L[v]]
    BY <2>8, <2>10
  <2>12. Restored(c, F) = Widened(c, F, m)
    BY <1>4 DEF Restored, m
  <2> QED BY <1>1, <2>1, <2>11, <2>12 DEF IsOn, F, L
<1> QED BY <1>3, <1>4

---------------------------------------------------------------------------
(* Explicit identities on the wires that no operation names.               *)

\* An explicit identity is a gate that changes nothing.
LEMMA IdentityGates ==
    ASSUME NEW W, NEW q \in W
    PROVE  /\ Gate("I", <<q>>) \in Proper(W) /\ IsIdentity(Gate("I", <<q>>))
           /\ ToSet(Gate("I", <<q>>).on) = {q}
<1> DEFINE s == <<q>>
<1>1. s \in [1..1 -> W] /\ DOMAIN s = {1} /\ s[1] = q
  OBVIOUS
<1> HIDE DEF s
<1>2. RequireDistinct(s) /\ ToSet(s) = {q}
  BY <1>1 DEF RequireDistinct, IsInjective, ToSet
<1>3. Gate("I", s) \in [name : OneQubit \union {"I"}, on : [1..1 -> W]] /\ Gate("I", s).on = s
  BY <1>1 DEF Gate
<1>4. Gate("I", s) \in Proper(W)
  BY <1>2, <1>3 DEF Proper, Gates
<1>5. IsIdentity(Gate("I", s))
  BY DEF IsIdentity, Gate
<1> QED BY <1>2, <1>3, <1>4, <1>5 DEF s

\* A circuit of identities changes nothing.
LEMMA IdentitiesRun ==
    ASSUME NEW n, NEW d \in Seq({g \in Proper(0..(n - 1)) : IsIdentity(g)}), NEW h \in Amps(n)
    PROVE  Runs(h, d) = h
<1> DEFINE G == {g \in Proper(0..(n - 1)) : IsIdentity(g)}
           S == {e \in Seq(G) : Runs(h, e) = h}
<1>1. <<>> \in S
  BY RunNothing, EmptySeq
<1>2. ASSUME NEW e \in Seq(G), NEW g \in G, e \in S PROVE Append(e, g) \in S
  <2>1. Append(e, g) \in Seq(G)
    BY AppendProperties
  <2>2. Runs(h, Append(e, g)) = Evolve(Runs(h, e), g)
    BY RunAppend
  <2> QED BY <2>1, <2>2, <1>2, EvolveIdentity
<1> HIDE DEF S, G
<1>3. \A e \in Seq(G) : e \in S
  BY <1>1, <1>2, SequenceInduction
<1> QED BY <1>3 DEF S, G

\* A padded circuit names every wire below its width and computes the same.
LEMMA PaddedIs ==
    ASSUME NEW c \in Circuit
    PROVE  /\ Padded(c) \in Seq(Proper(0..(NumQubits(c) - 1)))
           /\ Named(Padded(c)) = Wires(c)
           /\ Amplitudes(Padded(c), NumQubits(c)) = Amplitudes(c, NumQubits(c))
<1> DEFINE n == NumQubits(c)
           W == 0..(n - 1)
           U == UnnamedQubits(c)
           u == Ascending(U)
           k == Cardinality(U)
           pre == [i \in 1..k |-> Gate("I", <<u[i]>>)]
           I == {g \in Proper(W) : IsIdentity(g)}
<1>1. n \in Nat /\ c \in Seq(Proper(W)) /\ Named(c) \subseteq W
  BY OnOwnWires, WidthBounds
<1>2. Wires(c) = W /\ U \in SUBSET W /\ U \union Named(c) = W
  BY <1>1 DEF UnnamedQubits, Wires
<1>3. Padded(c) = pre \o c
  BY DEF Padded
<1>4. k \in Nat
  BY <1>1, <1>2, BelowCounts
<1>5. /\ DOMAIN u = 1..k /\ u \in Seq(U)
      /\ \A q \in U : \E i \in DOMAIN u : u[i] = q
  BY <1>1, <1>2, AscendingIs
<1> HIDE DEF n, U, u, k
<1>6. \A i \in 1..k : u[i] \in U
  BY <1>5, LenProperties
<1>7. \A i \in 1..k : pre[i] \in I /\ ToSet(pre[i].on) = {u[i]}
  <2> TAKE i \in 1..k
  <2>1. u[i] \in W
    BY <1>2, <1>6
  <2>2. pre[i] = Gate("I", <<u[i]>>)
    OBVIOUS
  <2> QED BY <2>1, <2>2, IdentityGates
<1>8. DOMAIN pre = 1..k /\ pre = [i \in 1..k |-> pre[i]]
  OBVIOUS
<1> HIDE DEF pre, I
<1>9. pre \in Seq(I)
  <2>1. pre \in [1..k -> I]
    BY <1>7, <1>8
  <2> QED BY <2>1, <1>4, FunctionIsSeq
<1>10. pre \in Seq(Proper(W))
  <2>1. I \subseteq Proper(W)
    BY DEF I
  <2> QED BY <2>1, <1>9, SeqMonotonic
<1>11. Named(pre) = U
  <2>1. Named(pre) = UNION {ToSet(pre[i].on) : i \in 1..k}
    BY <1>8 DEF Named
  <2>2. Named(pre) = UNION {{u[i]} : i \in 1..k}
    BY <2>1, <1>7
  <2> QED BY <2>2, <1>5, <1>6
<1>12. Named(Padded(c)) = W
  <2>1. ToSet(Padded(c)) = ToSet(pre) \union ToSet(c)
    BY <1>1, <1>3, <1>10, ElementsConcat
  <2>2. Named(Padded(c)) = Named(pre) \union Named(c)
    BY <2>1, NamedElements
  <2> QED BY <2>2, <1>2, <1>11
<1>13. Amplitudes(Padded(c), n) = Amplitudes(c, n)
  <2>1. Ground(n) \in Amps(n)
    BY GroundType
  <2>2. Runs(Ground(n), pre) = Ground(n)
    BY <1>9, <2>1, IdentitiesRun DEF I
  <2>3. Runs(Ground(n), pre \o c) = Runs(Runs(Ground(n), pre), c)
    BY <1>1, <1>10, RunConcat
  <2> QED BY <2>2, <2>3, <1>3 DEF Amplitudes
<1>14. Padded(c) \in Seq(Proper(W))
  BY <1>1, <1>3, <1>10, ConcatProperties
<1> QED BY <1>2, <1>12, <1>13, <1>14 DEF n

\* The counts by way of Cirq and PennyLane are the local ones.
LEMMA AzureCirqIsLocal ==
    ASSUME NEW c \in Circuit
    PROVE  AzureCirqCounts(c) = LocalCounts(c)
<1> DEFINE n == NumQubits(c)
           d == Padded(c)
<1>1. d \in Seq(Proper(0..(n - 1))) /\ Amplitudes(d, n) = Amplitudes(c, n)
  BY PaddedIs
<1>2. Ground(n) \in Amps(n)
  BY GroundType
<1> HIDE DEF d, n
<1>3. Runs(Ground(n), WithoutIdentities(d)) = Runs(Ground(n), d)
  BY <1>1, <1>2, WithoutIdentitiesRuns
<1>4. Amplitudes(WithoutIdentities(d), n) = Amplitudes(c, n)
  BY <1>1, <1>3 DEF Amplitudes
<1>5. Counts(WithoutIdentities(d), n, Register(n)) = Counts(c, n, Register(n))
  BY <1>4, SameAmplitudes
<1> QED BY <1>5 DEF AzureCirqCounts, ReadForward, ToCirq, LocalCounts, n, d

LEMMA LightningIsLocal ==
    ASSUME NEW c \in Circuit
    PROVE  LightningCounts(c) = LocalCounts(c)
<1> DEFINE n == NumQubits(c)
           d == Padded(c)
<1>1. n \in Nat /\ Named(d) = 0..(n - 1) /\ Amplitudes(d, n) = Amplitudes(c, n)
  BY PaddedIs, OnOwnWires DEF Wires
<1> HIDE DEF d, n
<1>2. Ascending(Named(d)) = Register(n)
  BY <1>1, AscendingWires
<1>3. Counts(d, n, Register(n)) = Counts(c, n, Register(n))
  BY <1>1, SameAmplitudes
<1> QED BY <1>2, <1>3 DEF LightningCounts, ToPennylane, LocalCounts, n, d

\* The counts by way of Braket and Quil are the local ones.
LEMMA BraketIsLocal ==
    ASSUME NEW c \in Circuit
    PROVE  /\ Restored(c, ReadWorking(c, ToBraket(c))) = LocalCounts(c)
           /\ Restored(c, ReadWorking(c, ToPyquil(c))) = LocalCounts(c)
<1> DEFINE n == NumQubits(c)
           d == WithoutIdentities(c)
<1>1. c \in Seq(Proper(0..(n - 1))) /\ Ground(n) \in Amps(n)
  BY OnOwnWires, GroundType
<1>2. Runs(Ground(n), d) = Runs(Ground(n), c)
  BY <1>1, WithoutIdentitiesRuns
<1>3. Amplitudes(d, n) = Amplitudes(c, n)
  BY <1>2 DEF Amplitudes
<1>4. Restored(c, ReadWorking(c, d)) = LocalCounts(c)
  BY <1>3, RestoredIsLocal
<1> QED BY <1>4 DEF ToBraket, ToPyquil

\* Every provider that MarqovDevice.run can reach is decoded as it was sent.
LEMMA DeviceIsLocal ==
    ASSUME NEW c \in Circuit, NEW v \in DeviceWays
    PROVE  DeviceCounts(v[2], v[3], c) = LocalCounts(c)
<1>1. PICK b \in Backends, p \in Params :
         DeviceOf(b, p) # "none" /\ v = <<RefusesIdentities(b, p), FormatOf(b, p), DeviceOf(b, p)>>
  BY DEF DeviceWays
<1>2. v[2] = FormatOf(b, p) /\ v[3] = DeviceOf(b, p)
  BY <1>1
<1>3. \/ v[2] = "qiskit" /\ v[3] \in {"ibm", "azure"}
      \/ v[2] = "braket" /\ v[3] = "braket"
  BY <1>1, <1>2 DEF FormatOf, DeviceOf
<1>4. CASE v[2] = "qiskit" /\ v[3] \in {"ibm", "azure"}
  <2>1. DeviceCounts(v[2], v[3], c) = Reversed(ReadQiskit(c))
    BY <1>4 DEF DeviceCounts, AzureJobCounts
  <2> QED BY <2>1, ReversedIsLocal
<1>5. CASE v[2] = "braket" /\ v[3] = "braket"
  <2>1. DeviceCounts(v[2], v[3], c) = Restored(c, ReadWorking(c, ToBraket(c)))
    BY <1>5 DEF DeviceCounts
  <2> QED BY <2>1, BraketIsLocal
<1> QED BY <1>3, <1>4, <1>5

---------------------------------------------------------------------------
(* The gates of a foreign program.                                         *)

GateBlocks(p) == [i \in DOMAIN p |-> IF IsGate(p[i]) THEN <<GateOf(p[i])>> ELSE <<>>]

\* The state before the first instruction and after each of them, when only
\* the gates do anything.
Stepped(s, h, p) ==
    /\ s[0] = h
    /\ \A i \in 1..Len(p) : s[i] = IF IsGate(p[i]) THEN Evolve(s[i - 1], GateOf(p[i])) ELSE s[i - 1]

\* The gates of a program, instruction by instruction.
LEMMA GateBlocksType ==
    ASSUME NEW P, NEW p \in Seq(P), NEW W, \A w \in P : IsGate(w) => GateOf(w) \in Proper(W)
    PROVE  /\ GateBlocks(p) \in Seq(Seq(Proper(W))) /\ Len(GateBlocks(p)) = Len(p)
           /\ DOMAIN GateBlocks(p) = 1..Len(p) /\ DOMAIN p = 1..Len(p) /\ Len(p) \in Nat
           /\ \A i \in 1..Len(p) :
                  /\ p[i] \in P
                  /\ GateBlocks(p)[i] = IF IsGate(p[i]) THEN <<GateOf(p[i])>> ELSE <<>>
<1>1. DOMAIN p = 1..Len(p) /\ Len(p) \in Nat /\ \A i \in 1..Len(p) : p[i] \in P
  BY LenProperties
<1>2. \A i \in 1..Len(p) : GateBlocks(p)[i] = IF IsGate(p[i]) THEN <<GateOf(p[i])>> ELSE <<>>
  BY <1>1 DEF GateBlocks
<1>3. ASSUME NEW i \in 1..Len(p) PROVE GateBlocks(p)[i] \in Seq(Proper(W))
  <2>1. CASE IsGate(p[i])
    <3>1. GateOf(p[i]) \in Proper(W) /\ GateBlocks(p)[i] = <<GateOf(p[i])>>
      BY <2>1, <1>1, <1>2
    <3> QED BY <3>1
  <2>2. CASE ~IsGate(p[i])
    <3>1. GateBlocks(p)[i] = <<>>
      BY <2>2, <1>2
    <3> QED BY <3>1, EmptySeq
  <2> QED BY <2>1, <2>2
<1>4. GateBlocks(p) \in [1..Len(p) -> Seq(Proper(W))]
  <2>1. GateBlocks(p) = [i \in 1..Len(p) |-> GateBlocks(p)[i]]
    BY <1>1 DEF GateBlocks
  <2> QED BY <2>1, <1>3
<1>5. GateBlocks(p) \in Seq(Seq(Proper(W))) /\ Len(GateBlocks(p)) = Len(p)
  BY <1>1, <1>4, FunctionIsSeq
<1> QED BY <1>1, <1>2, <1>4, <1>5

LEMMA GatesOfIs == \A p : GatesOf(p) = FlattenSeq(GateBlocks(p))
BY DEF GatesOf, GateBlocks

\* The gates of a program are a circuit on its wires.
LEMMA GatesOfType ==
    ASSUME NEW P, NEW p \in Seq(P), NEW W, \A w \in P : IsGate(w) => GateOf(w) \in Proper(W)
    PROVE  /\ GatesOf(p) \in Seq(Proper(W))
           /\ Named(GatesOf(p)) = UNION {ToSet(p[i].on) : i \in {j \in 1..Len(p) : IsGate(p[j])}}
<1> DEFINE bs == GateBlocks(p)
<1>1. /\ bs \in Seq(Seq(Proper(W))) /\ DOMAIN bs = 1..Len(p)
      /\ \A i \in 1..Len(p) : bs[i] = IF IsGate(p[i]) THEN <<GateOf(p[i])>> ELSE <<>>
  BY GateBlocksType
<1>2. GatesOf(p) = FlattenSeq(bs)
  BY GatesOfIs
<1> HIDE DEF bs
<1>3. ToSet(GatesOf(p)) = UNION {ToSet(bs[i]) : i \in 1..Len(p)}
  BY <1>1, <1>2, FlattenElements
<1>4. ASSUME NEW x PROVE ToSet(<<x>>) = {x}
  <2>1. DOMAIN <<x>> = {1} /\ <<x>>[1] = x
    OBVIOUS
  <2> QED BY <2>1 DEF ToSet
<1>5. ToSet(<<>>) = {}
  <2>1. DOMAIN <<>> = {}
    OBVIOUS
  <2> QED BY <2>1 DEF ToSet
<1>6. \A i \in 1..Len(p) : /\ IsGate(p[i]) => ToSet(bs[i]) = {GateOf(p[i])}
                           /\ ~IsGate(p[i]) => ToSet(bs[i]) = {}
  BY <1>1, <1>4, <1>5
<1>7. ToSet(GatesOf(p)) = {GateOf(p[i]) : i \in {j \in 1..Len(p) : IsGate(p[j])}}
  <2>1. ASSUME NEW g \in ToSet(GatesOf(p))
        PROVE  \E i \in {j \in 1..Len(p) : IsGate(p[j])} : g = GateOf(p[i])
    <3>1. PICK i \in 1..Len(p) : g \in ToSet(bs[i])
      BY <1>3
    <3>2. IsGate(p[i])
      BY <3>1, <1>6
    <3>3. g = GateOf(p[i])
      BY <3>1, <3>2, <1>6
    <3> QED BY <3>2, <3>3
  <2>2. \A i \in {j \in 1..Len(p) : IsGate(p[j])} : GateOf(p[i]) \in ToSet(GatesOf(p))
    BY <1>3, <1>6
  <2> QED BY <2>1, <2>2
<1>8. \A w : GateOf(w).on = w.on
  BY DEF GateOf, Gate
<1>9. Named(GatesOf(p)) = UNION {ToSet(p[i].on) : i \in {j \in 1..Len(p) : IsGate(p[j])}}
  <2>1. Named(GatesOf(p)) = UNION {ToSet(g.on) : g \in ToSet(GatesOf(p))}
    BY NamedElements
  <2> QED BY <2>1, <1>7, <1>8
<1>10. GatesOf(p) \in Seq(Proper(W))
  BY <1>1, <1>2, FlattenType
<1> QED BY <1>9, <1>10

\* The gates of a program compute what its instructions do one by one.
LEMMA GatesOfRuns ==
    ASSUME NEW P, NEW p \in Seq(P), NEW W, \A w \in P : IsGate(w) => GateOf(w) \in Proper(W),
           NEW h
    PROVE  \E s : Stepped(s, h, p) /\ Runs(h, GatesOf(p)) = s[Len(p)]
<1> DEFINE bs == GateBlocks(p)
<1>1. /\ bs \in Seq(Seq(Proper(W))) /\ Len(bs) = Len(p)
      /\ \A i \in 1..Len(p) : bs[i] = IF IsGate(p[i]) THEN <<GateOf(p[i])>> ELSE <<>>
  BY GateBlocksType
<1>2. GatesOf(p) = FlattenSeq(bs)
  BY GatesOfIs
<1> HIDE DEF bs
<1>3. PICK s : /\ s[0] = h
               /\ \A i \in 1..Len(bs) : s[i] = Runs(s[i - 1], bs[i])
               /\ Runs(h, FlattenSeq(bs)) = s[Len(bs)]
  BY <1>1, RunBlocks
<1>4. ASSUME NEW i \in 1..Len(p)
      PROVE  s[i] = IF IsGate(p[i]) THEN Evolve(s[i - 1], GateOf(p[i])) ELSE s[i - 1]
  <2>1. s[i] = Runs(s[i - 1], bs[i])
    BY <1>1, <1>3
  <2>2. CASE IsGate(p[i])
    <3>1. bs[i] = <<GateOf(p[i])>>
      BY <1>1, <2>2
    <3> QED BY <2>1, <2>2, <3>1, RunGate
  <2>3. CASE ~IsGate(p[i])
    <3>1. bs[i] = <<>>
      BY <1>1, <2>3
    <3> QED BY <2>1, <2>3, <3>1, RunNothing
  <2> QED BY <2>2, <2>3
<1>5. Stepped(s, h, p)
  BY <1>3, <1>4 DEF Stepped
<1> QED BY <1>1, <1>2, <1>3, <1>5

\* What is exported as gates alone is imported as it was.
LEMMA GatesOfGates ==
    ASSUME NEW W, NEW d \in Seq(Proper(W))
    PROVE  GatesOf([i \in DOMAIN d |-> [op |-> "gate", name |-> d[i].name, on |-> d[i].on]]) = d
<1> DEFINE sent(e) == [i \in DOMAIN e |-> [op |-> "gate", name |-> e[i].name, on |-> e[i].on]]
           ones(e) == [i \in DOMAIN e |-> <<e[i]>>]
           G == Proper(W)
           S == {e \in Seq(G) : FlattenSeq(ones(e)) = e}
<1>1. ASSUME NEW e \in Seq(G) PROVE ones(e) \in Seq(Seq(G)) /\ Len(ones(e)) = Len(e)
  <2>1. DOMAIN e = 1..Len(e) /\ Len(e) \in Nat /\ \A i \in 1..Len(e) : e[i] \in G
    BY LenProperties
  <2>2. ones(e) \in [1..Len(e) -> Seq(G)]
    BY <2>1
  <2> HIDE DEF ones
  <2> QED BY <2>1, <2>2, FunctionIsSeq
<1>2. <<>> \in S
  <2>1. ones(<<>>) = <<>>
    OBVIOUS
  <2> HIDE DEF ones
  <2> QED BY <2>1, FlattenNothing, EmptySeq
<1>3. ASSUME NEW e \in Seq(G), NEW g \in G, e \in S PROVE Append(e, g) \in S
  <2>1. /\ Append(e, g) \in Seq(G) /\ Len(Append(e, g)) = Len(e) + 1 /\ Len(e) \in Nat
        /\ Append(e, g)[Len(e) + 1] = g /\ \A i \in 1..Len(e) : Append(e, g)[i] = e[i]
    BY AppendProperties, LenProperties
  <2>2. <<g>> \in Seq(G)
    OBVIOUS
  <2>3. ones(Append(e, g)) = Append(ones(e), <<g>>)
    <3> DEFINE x == ones(Append(e, g))
               y == Append(ones(e), <<g>>)
    <3>1. x \in Seq(Seq(G)) /\ Len(x) = Len(e) + 1
      BY <1>1, <2>1
    <3>2. /\ y \in Seq(Seq(G)) /\ Len(y) = Len(e) + 1 /\ y[Len(e) + 1] = <<g>>
          /\ \A i \in 1..Len(e) : y[i] = ones(e)[i]
      <4>1. ones(e) \in Seq(Seq(G)) /\ Len(ones(e)) = Len(e)
        BY <1>1
      <4> HIDE DEF ones
      <4> QED BY <4>1, <2>2, AppendProperties
    <3>3. DOMAIN Append(e, g) = 1..(Len(e) + 1) /\ DOMAIN e = 1..Len(e)
      BY <2>1, LenProperties
    <3>4. \A i \in 1..(Len(e) + 1) : x[i] = <<Append(e, g)[i]>>
      BY <3>3
    <3>5. \A i \in 1..Len(e) : ones(e)[i] = <<e[i]>>
      BY <3>3
    <3> HIDE DEF ones, x, y
    <3>6. ASSUME NEW i \in 1..(Len(e) + 1) PROVE x[i] = y[i]
      <4>1. CASE i = Len(e) + 1
        BY <4>1, <3>2, <3>4, <2>1
      <4>2. CASE i # Len(e) + 1
        <5>1. i \in 1..Len(e)
          BY <4>2, <2>1
        <5> QED BY <5>1, <3>2, <3>4, <3>5, <2>1
      <4> QED BY <4>1, <4>2
    <3>7. x = y
      BY <3>1, <3>2, <3>6, SeqEqual
    <3> QED BY <3>7 DEF x, y
  <2>4. ones(e) \in Seq(Seq(G)) /\ FlattenSeq(ones(e)) = e
    BY <1>1, <1>3
  <2> HIDE DEF ones
  <2>5. FlattenSeq(ones(Append(e, g))) = e \o <<g>>
    BY <2>2, <2>3, <2>4, FlattenAppend
  <2>6. e \o <<g>> = Append(e, g)
    BY AppendIsConcat
  <2> QED BY <2>1, <2>5, <2>6
<1>4. d \in S
  <2> HIDE DEF S, G
  <2>1. \A e \in Seq(G) : e \in S
    BY <1>2, <1>3, SequenceInduction
  <2> QED BY <2>1 DEF G
<1>5. GateBlocks(sent(d)) = ones(d)
  <2>1. DOMAIN sent(d) = DOMAIN d
    OBVIOUS
  <2>2. ASSUME NEW i \in DOMAIN d PROVE IsGate(sent(d)[i]) /\ GateOf(sent(d)[i]) = d[i]
    <3>1. sent(d)[i] = [op |-> "gate", name |-> d[i].name, on |-> d[i].on]
      OBVIOUS
    <3>2. i \in 1..Len(d)
      BY LenProperties
    <3>3. d[i] = Gate(d[i].name, d[i].on)
      BY <3>2, ElementOfSeq, ProperShape
    <3> HIDE DEF sent
    <3> QED BY <3>1, <3>3 DEF IsGate, GateOf, Gate
  <2> HIDE DEF sent
  <2>3. GateBlocks(sent(d)) = [i \in DOMAIN d |-> <<d[i]>>]
    BY <2>1, <2>2 DEF GateBlocks
  <2> QED BY <2>3
<1>6. GatesOf(sent(d)) = d
  BY <1>4, <1>5, GatesOfIs
<1> QED BY <1>6

---------------------------------------------------------------------------
(* Three CNOTs in a row that make a SWAP.                                  *)

\* What a CNOT does to an outcome.
LEMMA CnotBits ==
    ASSUME NEW n, NEW g \in Proper(0..(n - 1)), g.name = "CNOT", NEW b \in Bits(n)
    PROVE  /\ Permuted(g, b) \in Bits(n)
           /\ g.on[1] \in 0..(n - 1) /\ g.on[2] \in 0..(n - 1) /\ g.on[1] # g.on[2]
           /\ Permuted(g, b)[g.on[1]] = b[g.on[1]]
           /\ Permuted(g, b)[g.on[2]] = IF b[g.on[1]] = 1 THEN 1 - b[g.on[2]] ELSE b[g.on[2]]
           /\ \A r \in 0..(n - 1) : r # g.on[2] => Permuted(g, b)[r] = b[r]
<1> DEFINE p == g.on[1]
           q == g.on[2]
<1>1. p \in 0..(n - 1) /\ q \in 0..(n - 1) /\ p # q
  BY ProperShape DEF TwoQubit
<1>2. Permuted(g, b) = IF b[p] = 1 THEN Flip(b, q) ELSE b
  BY DEF Permuted
<1> HIDE DEF p, q
<1>3. /\ Flip(b, q) \in Bits(n) /\ Flip(b, q)[q] = 1 - b[q]
      /\ \A r \in 0..(n - 1) : r # q => Flip(b, q)[r] = b[r]
  BY <1>1, FlipBits
<1>4. CASE b[p] = 1
  <2>1. Permuted(g, b) = Flip(b, q)
    BY <1>2, <1>4
  <2> QED BY <2>1, <1>1, <1>3, <1>4 DEF p, q
<1>5. CASE b[p] # 1
  <2>1. Permuted(g, b) = b
    BY <1>2, <1>5
  <2> QED BY <2>1, <1>1, <1>5 DEF p, q
<1> QED BY <1>4, <1>5

\* Three CNOTs, the middle one turned round, are a SWAP.
LEMMA ThreeCnots ==
    ASSUME NEW n, NEW g \in Proper(0..(n - 1)), NEW k \in Proper(0..(n - 1)),
           g.name = "CNOT", k.name = "CNOT", k.on[1] = g.on[2], k.on[2] = g.on[1],
           NEW a \in Amps(n)
    PROVE  /\ Gate("SWAP", g.on) \in Proper(0..(n - 1))
           /\ Evolve(Evolve(Evolve(a, g), k), g) = Evolve(a, Gate("SWAP", g.on))
<1> DEFINE W == 0..(n - 1)
           x == Gate("SWAP", g.on)
           p == g.on[1]
           q == g.on[2]
<1>1. x.name = "SWAP" /\ x.on = g.on
  BY DEF Gate
<1>2. x \in Proper(W)
  <2>1. g.on \in Seq(W) /\ Len(g.on) = 2 /\ RequireDistinct(g.on)
    BY ProperShape DEF TwoQubit, Proper
  <2>2. g.on \in [1..2 -> W]
    BY <2>1, LenProperties
  <2>3. x \in [name : TwoQubit, on : [1..2 -> W]]
    BY <2>2 DEF Gate, TwoQubit
  <2> QED BY <2>1, <2>3, <1>1 DEF Proper, Gates
<1>3. p \in W /\ q \in W /\ p # q
  BY ProperShape DEF TwoQubit
<1> DEFINE a1 == Evolve(a, g)
           a2 == Evolve(a1, k)
<1>4. a1 \in Amps(n)
  BY EvolveType
<1>5. a2 \in Amps(n)
  BY <1>4, EvolveType
<1>6. ASSUME NEW b \in Bits(n)
      PROVE  Permuted(g, Permuted(k, Permuted(g, b))) = Permuted(x, b)
  <2> DEFINE b1 == Permuted(g, b)
             b2 == Permuted(k, b1)
             b3 == Permuted(g, b2)
  <2>1. /\ b1 \in Bits(n) /\ b1[p] = b[p] /\ b1[q] = IF b[p] = 1 THEN 1 - b[q] ELSE b[q]
        /\ \A r \in W : r # q => b1[r] = b[r]
    BY CnotBits
  <2> HIDE DEF b1
  <2>2. /\ b2 \in Bits(n) /\ b2[q] = b1[q] /\ b2[p] = IF b1[q] = 1 THEN 1 - b1[p] ELSE b1[p]
        /\ \A r \in W : r # p => b2[r] = b1[r]
    BY <2>1, CnotBits
  <2> HIDE DEF b2
  <2>3. /\ b3 \in Bits(n) /\ b3[p] = b2[p] /\ b3[q] = IF b2[p] = 1 THEN 1 - b2[q] ELSE b2[q]
        /\ \A r \in W : r # q => b3[r] = b2[r]
    BY <2>2, CnotBits
  <2> HIDE DEF b3
  <2>4. Permuted(x, b) = Exchange(b, p, q)
    BY <1>1 DEF Permuted
  <2> HIDE DEF p, q, x
  <2>5. /\ Exchange(b, p, q) \in Bits(n)
        /\ Exchange(b, p, q)[p] = b[q] /\ Exchange(b, p, q)[q] = b[p]
        /\ \A r \in W : r # p /\ r # q => Exchange(b, p, q)[r] = b[r]
    BY <1>3, ExchangeBits
  <2>6. b[p] \in {0, 1} /\ b[q] \in {0, 1}
    BY <1>3 DEF Bits
  <2>7. b3[p] = b[q] /\ b3[q] = b[p]
    BY <2>1, <2>2, <2>3, <2>6
  <2>8. ASSUME NEW r \in W PROVE b3[r] = Exchange(b, p, q)[r]
    <3>1. CASE r = p
      BY <3>1, <2>5, <2>7
    <3>2. CASE r = q
      BY <3>2, <2>5, <2>7
    <3>3. CASE r # p /\ r # q
      BY <3>3, <2>1, <2>2, <2>3, <2>5
    <3> QED BY <3>1, <3>2, <3>3
  <2>9. b3 = Exchange(b, p, q)
    BY <2>3, <2>5, <2>8, BitsEqual
  <2> QED BY <2>4, <2>9 DEF b1, b2, b3
<1> HIDE DEF x, p, q, a1, a2
<1>7. Evolve(a2, g) = [b \in Bits(n) |-> a2[Permuted(g, b)]]
  BY <1>5, EvolvePermuted
<1>8. Evolve(a, x) = [b \in Bits(n) |-> a[Permuted(x, b)]]
  BY <1>1, EvolvePermuted
<1>9. ASSUME NEW b \in Bits(n) PROVE a2[Permuted(g, b)] = a[Permuted(x, b)]
  <2>1. Permuted(g, b) \in Bits(n)
    BY CnotBits
  <2>2. a2 = [d \in Bits(n) |-> a1[Permuted(k, d)]]
    BY <1>4, EvolvePermuted DEF a2
  <2>3. a2[Permuted(g, b)] = a1[Permuted(k, Permuted(g, b))]
    BY <2>1, <2>2
  <2>4. Permuted(k, Permuted(g, b)) \in Bits(n)
    BY <2>1, CnotBits
  <2>5. a1 = [d \in Bits(n) |-> a[Permuted(g, d)]]
    BY EvolvePermuted DEF a1
  <2>6. a1[Permuted(k, Permuted(g, b))] = a[Permuted(g, Permuted(k, Permuted(g, b)))]
    BY <2>4, <2>5
  <2> QED BY <2>3, <2>6, <1>6
<1>10. Evolve(a2, g) = Evolve(a, x)
  BY <1>7, <1>8, <1>9
<1> QED BY <1>2, <1>10 DEF a2, a1, x

\* Numbers that are in a set when all larger ones up to a bound are.
LEMMA StrongInduction ==
    ASSUME NEW N \in Nat, NEW S, \A n \in 0..N : (\A m \in 0..(n - 1) : m \in S) => n \in S
    PROVE  \A n \in 0..N : n \in S
<1> DEFINE T == {n \in 0..N : \A m \in 0..n : m \in S}
<1>1. 0 \in T
  <2>1. \A m \in 0..(0 - 1) : m \in S
    OBVIOUS
  <2>2. 0 \in S /\ 0 \in 0..N /\ \A m \in 0..0 : m = 0
    BY <2>1
  <2> QED BY <2>2
<1>2. ASSUME NEW n \in 0..(N - 1), n \in T PROVE n + 1 \in T
  <2>1. n + 1 \in 0..N /\ (n + 1) - 1 = n /\ \A m \in 0..(n + 1) : m \in 0..n \/ m = n + 1
    OBVIOUS
  <2>2. n + 1 \in S
    BY <2>1, <1>2
  <2> QED BY <2>1, <2>2, <1>2
<1> HIDE DEF T
<1>3. \A n \in 0..N : n \in T
  BY <1>1, <1>2, BoundedInduction
<1> QED BY <1>3 DEF T

\* The gates from some instruction on.
From(f, p, i) ==
    IF i > Len(p) THEN <<>>
    ELSE IF IsSwap(p, i) THEN <<Gate("SWAP", p[i].on)>> \o f[i + 3]
    ELSE IF IsGate(p[i]) THEN <<GateOf(p[i])>> \o f[i + 1]
    ELSE f[i + 1]

\* The recursion over a Quil program has a result from each instruction on.
LEMMA PyquilStates ==
    ASSUME NEW P, NEW p \in Seq(P)
    PROVE  \E f : /\ \A i \in 1..(Len(p) + 1) : f[i] = From(f, p, i)
                  /\ PyquilGates(p) = f[1]
<1> DEFINE L == Len(p)
           Down(f, n) == f = [i \in (L + 1 - n)..(L + 1) |-> From(f, p, i)]
           S == {n \in 0..L : \E f : Down(f, n)}
<1>0. L \in Nat
  BY LenProperties
<1>1. ASSUME NEW f, NEW h, NEW i \in Int,
             \A j \in (i + 1)..(L + 1) : f[j] = h[j]
      PROVE  From(f, p, i) = From(h, p, i)
  <2>1. CASE i > L
    BY <2>1 DEF From
  <2>2. CASE ~(i > L)
    <3>1. i + 1 \in (i + 1)..(L + 1)
      BY <2>2, <1>0
    <3>2. IsSwap(p, i) => i + 3 \in (i + 1)..(L + 1)
      BY <1>0 DEF IsSwap
    <3>3. f[i + 1] = h[i + 1] /\ (IsSwap(p, i) => f[i + 3] = h[i + 3])
      BY <1>1, <3>1, <3>2
    <3> QED BY <3>3 DEF From
  <2> QED BY <2>1, <2>2
<1>2. 0 \in S
  <2> DEFINE g == [i \in (L + 1 - 0)..(L + 1) |-> <<>>]
  <2>1. \A i \in (L + 1 - 0)..(L + 1) : From(g, p, i) = <<>>
    BY <1>0 DEF From
  <2> HIDE DEF L
  <2>2. Down(g, 0)
    BY <2>1
  <2> HIDE DEF g, Down
  <2> QED BY <2>2, <1>0
<1>3. ASSUME NEW n \in 0..(L - 1), n \in S PROVE n + 1 \in S
  <2>1. PICK f : Down(f, n)
    BY <1>3
  <2> DEFINE k == L + 1 - (n + 1)
             g == [i \in k..(L + 1) |-> IF i = k THEN From(f, p, i) ELSE f[i]]
  <2>2. k \in Int /\ k + 1 = L + 1 - n /\ k <= L /\ k >= 1
    BY <1>0
  <2> HIDE DEF k
  <2>3. \A j \in (k + 1)..(L + 1) : f[j] = From(f, p, j)
    BY <2>1, <2>2
  <2>4. \A j \in (k + 1)..(L + 1) : g[j] = f[j] /\ j \in k..(L + 1)
    BY <1>0, <2>2
  <2>5. g[k] = From(f, p, k)
    BY <1>0, <2>2
  <2>6. ASSUME NEW i \in k..(L + 1) PROVE g[i] = From(g, p, i)
    <3>1. i \in Int /\ \A j \in (i + 1)..(L + 1) : j \in (k + 1)..(L + 1)
      BY <1>0, <2>2
    <3>2. From(f, p, i) = From(g, p, i)
      <4> HIDE DEF g
      <4> QED BY <3>1, <2>4, <1>1
    <3>3. g[i] = From(f, p, i)
      <4>1. CASE i = k
        BY <4>1, <2>5
      <4>2. CASE i # k
        <5>1. i \in (k + 1)..(L + 1)
          BY <4>2, <1>0, <2>2
        <5> HIDE DEF g
        <5> QED BY <5>1, <2>3, <2>4
      <4> QED BY <4>1, <4>2
    <3> QED BY <3>2, <3>3
  <2>7. g = [i \in k..(L + 1) |-> g[i]]
    OBVIOUS
  <2> HIDE DEF g
  <2>8. g = [i \in k..(L + 1) |-> From(g, p, i)]
    BY <2>6, <2>7
  <2>9. Down(g, n + 1)
    BY <2>8 DEF k
  <2>10. n + 1 \in 0..L
    BY <1>0
  <2> HIDE DEF Down
  <2> QED BY <2>9, <2>10
<1>4. PICK f : Down(f, L)
  <2> HIDE DEF S
  <2>1. \A n \in 0..L : n \in S
    BY <1>0, <1>2, <1>3, BoundedInduction
  <2>2. L \in 0..L
    BY <1>0
  <2> HIDE DEF Down
  <2> QED BY <2>1, <2>2 DEF S
<1>5. L + 1 - L = 1
  BY <1>0
<1> DEFINE Eq(e) == e = [i \in 1..(L + 1) |->
                IF i > L THEN <<>>
                ELSE IF IsSwap(p, i) THEN <<Gate("SWAP", p[i].on)>> \o e[i + 3]
                ELSE IF IsGate(p[i]) THEN <<GateOf(p[i])>> \o e[i + 1]
                ELSE e[i + 1]]
           d == CHOOSE e : Eq(e)
<1>6. Eq(f)
  <2>1. f = [i \in 1..(L + 1) |-> From(f, p, i)]
    BY <1>4, <1>5
  <2> QED BY <2>1 DEF From
<1>7. Eq(d)
  <2> HIDE DEF Eq
  <2> QED BY <1>6
<1>8. PyquilGates(p) = d[1]
  BY DEF PyquilGates
<1> HIDE DEF d
<1>9. \A i \in 1..(L + 1) : d[i] = From(d, p, i)
  BY <1>7 DEF From
<1> QED BY <1>8, <1>9

\* A circuit that starts with a given gate.
LEMMA GateFirst ==
    ASSUME NEW G, NEW g \in G, NEW d \in Seq(G), NEW a
    PROVE  /\ <<g>> \o d \in Seq(G)
           /\ Named(<<g>> \o d) = ToSet(g.on) \union Named(d)
           /\ Runs(a, <<g>> \o d) = Runs(Evolve(a, g), d)
<1>1. <<g>> \in Seq(G)
  OBVIOUS
<1>2. ToSet(<<g>>) = {g}
  <2>1. DOMAIN <<g>> = {1} /\ <<g>>[1] = g
    OBVIOUS
  <2> QED BY <2>1 DEF ToSet
<1>3. ToSet(<<g>> \o d) = {g} \union ToSet(d)
  <2>1. ToSet(<<g>> \o d) = ToSet(<<g>>) \union ToSet(d)
    BY <1>1, ElementsConcat, ZenonT(30)
  <2> QED BY <1>2, <2>1
<1>4. Named(<<g>> \o d) = ToSet(g.on) \union Named(d)
  BY <1>3, NamedElements
<1>5. <<g>> \o d \in Seq(G)
  BY <1>1, ConcatProperties
<1>6. Runs(a, <<g>> \o d) = Runs(Runs(a, <<g>>), d)
  BY <1>1, RunConcat
<1>7. Runs(a, <<g>>) = Evolve(a, g)
  BY RunGate
<1> QED BY <1>4, <1>5, <1>6, <1>7

\* The Quil importer computes what the gates of the program compute.
LEMMA PyquilIs ==
    ASSUME NEW P, NEW p \in Seq(P), NEW n, NEW h \in Amps(n),
           \A w \in P : IsGate(w) => GateOf(w) \in Proper(0..(n - 1))
    PROVE  /\ PyquilGates(p) \in Seq(Proper(0..(n - 1)))
           /\ Named(PyquilGates(p)) = Named(GatesOf(p))
           /\ Runs(h, PyquilGates(p)) = Runs(h, GatesOf(p))
<1> DEFINE G == Proper(0..(n - 1))
           L == Len(p)
           After(i) == UNION {ToSet(p[j].on) : j \in {k \in i..L : IsGate(p[k])}}
<1>1. L \in Nat /\ \A i \in 1..L : p[i] \in P
  BY LenProperties
<1>2. PICK f : /\ \A i \in 1..(L + 1) : f[i] = From(f, p, i)
               /\ PyquilGates(p) = f[1]
  BY PyquilStates
<1>3. PICK s : Stepped(s, h, p) /\ Runs(h, GatesOf(p)) = s[L]
  BY GatesOfRuns
<1>4. \A i \in 0..L : s[i] \in Amps(n)
  <2> DEFINE S == {i \in 0..L : s[i] \in Amps(n)}
  <2>1. 0 \in S
    BY <1>1, <1>3 DEF Stepped
  <2>2. ASSUME NEW i \in 0..(L - 1), i \in S PROVE i + 1 \in S
    <3>1. i + 1 \in 1..L /\ (i + 1) - 1 = i /\ i + 1 \in 0..L
      BY <1>1
    <3>2. s[i + 1] = IF IsGate(p[i + 1]) THEN Evolve(s[i], GateOf(p[i + 1])) ELSE s[i]
      BY <3>1, <1>3 DEF Stepped
    <3>3. CASE IsGate(p[i + 1])
      <4>1. GateOf(p[i + 1]) \in G /\ s[i] \in Amps(n)
        BY <3>1, <3>3, <1>1, <2>2
      <4> QED BY <4>1, <3>1, <3>2, <3>3, EvolveType
    <3>4. CASE ~IsGate(p[i + 1])
      BY <3>1, <3>2, <3>4, <2>2
    <3> QED BY <3>3, <3>4
  <2> HIDE DEF S
  <2>3. \A i \in 0..L : i \in S
    BY <1>1, <2>1, <2>2, BoundedInduction
  <2> QED BY <2>3 DEF S
<1>5. ASSUME NEW i \in 1..L, IsGate(p[i])
      PROVE  /\ GateOf(p[i]) \in G /\ GateOf(p[i]).on = p[i].on /\ GateOf(p[i]).name = p[i].name
             /\ s[i] = Evolve(s[i - 1], GateOf(p[i]))
  BY <1>1, <1>3, <1>5 DEF Stepped, GateOf, Gate
<1> DEFINE Good(i) == /\ f[i] \in Seq(G)
                      /\ Named(f[i]) = After(i)
                      /\ Runs(s[i - 1], f[i]) = s[L]
           S == {m \in 0..L : Good(L + 1 - m)}
<1>7. ASSUME NEW m \in 0..L, \A k \in 0..(m - 1) : k \in S PROVE m \in S
  <2> DEFINE i == L + 1 - m
  <2>1. i \in 1..(L + 1) /\ i \in Int /\ (i - 1) \in 0..L
    BY <1>1
  <2>2. \A j \in (i + 1)..(L + 1) : Good(j)
    <3> TAKE j \in (i + 1)..(L + 1)
    <3>1. L + 1 - j \in 0..(m - 1) /\ L + 1 - (L + 1 - j) = j
      BY <1>1
    <3> DEFINE k == L + 1 - j
    <3>2. k \in S /\ L + 1 - k = j
      BY <3>1, <1>7
    <3> HIDE DEF k, Good
    <3>3. Good(L + 1 - k)
      BY <3>2
    <3> QED BY <3>2, <3>3
  <2> HIDE DEF i
  <2>3. f[i] = From(f, p, i)
    BY <2>1, <1>2
  <2>4. ASSUME i > L PROVE Good(i)
    <3>1. i - 1 = L /\ i..L = {}
      BY <2>1, <2>4, <1>1
    <3>2. f[i] = <<>>
      BY <2>3, <2>4 DEF From
    <3>3. After(i) = {}
      BY <3>1
    <3>4. Named(f[i]) = After(i)
      BY <3>2, <3>3, NamedNothing
    <3>5. Runs(s[i - 1], f[i]) = s[L]
      BY <3>1, <3>2, RunNothing
    <3>6. f[i] \in Seq(G)
      BY <3>2, EmptySeq
    <3> QED BY <3>4, <3>5, <3>6
  <2>5. ASSUME ~(i > L) /\ IsSwap(p, i) PROVE Good(i)
    <3>1. /\ i \in 1..L /\ i + 1 \in 1..L /\ i + 2 \in 1..L /\ i + 3 \in (i + 1)..(L + 1)
          /\ (i + 1) - 1 = i /\ (i + 2) - 1 = i + 1 /\ (i + 3) - 1 = i + 2
          /\ i \in i..(i + 2) /\ i + 1 \in i..(i + 2) /\ i + 2 \in i..(i + 2)
      BY <2>1, <2>5, <1>1 DEF IsSwap
    <3> DEFINE g == GateOf(p[i])
               k == GateOf(p[i + 1])
               x == Gate("SWAP", p[i].on)
    <3>2. /\ IsGate(p[i]) /\ IsGate(p[i + 1]) /\ IsGate(p[i + 2])
          /\ p[i].name = "CNOT" /\ p[i + 1].name = "CNOT" /\ p[i + 2].name = "CNOT"
          /\ p[i + 1].on = <<p[i].on[2], p[i].on[1]>> /\ p[i + 2].on = p[i].on
      BY <2>5, <3>1 DEF IsSwap
    <3>3. /\ g \in G /\ k \in G /\ g.name = "CNOT" /\ k.name = "CNOT"
          /\ g.on = p[i].on /\ k.on = p[i + 1].on /\ GateOf(p[i + 2]) = g
      BY <3>1, <3>2, <1>5 DEF GateOf
    <3>4. /\ s[i] = Evolve(s[i - 1], g) /\ s[i + 1] = Evolve(s[i], k)
          /\ s[i + 2] = Evolve(s[i + 1], g)
      BY <3>1, <3>2, <3>3, <1>5
    <3>5. k.on[1] = g.on[2] /\ k.on[2] = g.on[1] /\ x = Gate("SWAP", g.on)
      BY <3>2, <3>3
    <3>6. s[i - 1] \in Amps(n)
      BY <2>1, <1>4
    <3> HIDE DEF g, k, x
    <3>7. x \in G /\ s[i + 2] = Evolve(s[i - 1], x)
      BY <3>3, <3>4, <3>5, <3>6, ThreeCnots, SMTT(30)
    <3>8. f[i] = <<x>> \o f[i + 3]
      BY <2>3, <2>5 DEF From, x
    <3>9. f[i + 3] \in Seq(G) /\ Named(f[i + 3]) = After(i + 3) /\ Runs(s[i + 2], f[i + 3]) = s[L]
      BY <3>1, <2>2
    <3>10. /\ f[i] \in Seq(G) /\ Named(f[i]) = ToSet(x.on) \union Named(f[i + 3])
           /\ Runs(s[i - 1], f[i]) = Runs(Evolve(s[i - 1], x), f[i + 3])
      BY <3>7, <3>8, <3>9, GateFirst, SMTT(30)
    <3>11. After(i) = ToSet(x.on) \union After(i + 3)
      <4>1. {j \in i..L : IsGate(p[j])} = {i, i + 1, i + 2} \union {j \in (i + 3)..L : IsGate(p[j])}
        <5>1. i..L = {i, i + 1, i + 2} \union ((i + 3)..L)
          BY <2>1, <3>1, <1>1
        <5> QED BY <5>1, <3>2
      <4>2. x.on = p[i].on
        BY DEF x, Gate
      <4>3. ToSet(p[i + 1].on) = ToSet(p[i].on)
        <5>1. ToSet(g.on) = {g.on[1], g.on[2]} /\ ToSet(k.on) = {k.on[1], k.on[2]}
          BY <3>3, ProperShape DEF TwoQubit
        <5>2. ToSet(g.on) = ToSet(k.on)
          BY <5>1, <3>5
        <5> QED BY <5>2, <3>3
      <4>4. ToSet(p[i + 2].on) = ToSet(p[i].on)
        BY <3>2
      <4> QED BY <4>1, <4>2, <4>3, <4>4
    <3> QED BY <3>7, <3>9, <3>10, <3>11
  <2>6. ASSUME ~(i > L) /\ ~IsSwap(p, i) PROVE Good(i)
    <3>1. i \in 1..L /\ i + 1 \in (i + 1)..(L + 1) /\ (i + 1) - 1 = i
      BY <2>1, <2>6, <1>1
    <3>2. f[i + 1] \in Seq(G) /\ Named(f[i + 1]) = After(i + 1) /\ Runs(s[i], f[i + 1]) = s[L]
      BY <3>1, <2>2
    <3>3. i..L = {i} \union ((i + 1)..L)
      BY <2>1, <3>1, <1>1
    <3>4. CASE IsGate(p[i])
      <4>1. f[i] = <<GateOf(p[i])>> \o f[i + 1]
        BY <2>3, <2>6, <3>4 DEF From
      <4>2. /\ GateOf(p[i]) \in G /\ GateOf(p[i]).on = p[i].on
            /\ s[i] = Evolve(s[i - 1], GateOf(p[i]))
        BY <3>1, <3>4, <1>5
      <4>3. /\ f[i] \in Seq(G) /\ Named(f[i]) = ToSet(p[i].on) \union Named(f[i + 1])
            /\ Runs(s[i - 1], f[i]) = Runs(Evolve(s[i - 1], GateOf(p[i])), f[i + 1])
        <5> DEFINE g == GateOf(p[i])
        <5> HIDE DEF g, G, After
        <5>1. f[i] = <<g>> \o f[i + 1] /\ g \in G /\ f[i + 1] \in Seq(G) /\ g.on = p[i].on
          BY <4>1, <4>2, <3>2 DEF g
        <5>2. /\ f[i] \in Seq(G) /\ Named(f[i]) = ToSet(g.on) \union Named(f[i + 1])
              /\ Runs(s[i - 1], f[i]) = Runs(Evolve(s[i - 1], g), f[i + 1])
          BY <5>1, GateFirst
        <5> QED BY <5>1, <5>2 DEF g
      <4>4. {j \in i..L : IsGate(p[j])} = {i} \union {j \in (i + 1)..L : IsGate(p[j])}
        BY <3>3, <3>4
      <4>5. After(i) = ToSet(p[i].on) \union After(i + 1)
        BY <4>4
      <4> QED BY <4>2, <4>3, <4>5, <3>2
    <3>5. ASSUME ~IsGate(p[i]) PROVE Good(i)
      <4>1. f[i] = f[i + 1]
        BY <2>3, <2>6, <3>5 DEF From
      <4>2. s[i] = s[i - 1]
        BY <3>1, <3>5, <1>3 DEF Stepped
      <4>3. {j \in i..L : IsGate(p[j])} = {j \in (i + 1)..L : IsGate(p[j])}
        BY <3>3, <3>5
      <4> QED BY <4>1, <4>2, <4>3, <3>2
    <3> QED BY <3>4, <3>5
  <2>7. Good(i)
    <3> HIDE DEF Good
    <3> QED BY <2>4, <2>5, <2>6
  <2> HIDE DEF Good
  <2> QED BY <2>7 DEF i
<1>8. Good(1)
  <2>1. \A m \in 0..L : m \in S
    <3> HIDE DEF S
    <3> QED BY <1>1, <1>7, StrongInduction
  <2>2. L \in 0..L /\ L + 1 - L = 1
    BY <1>1
  <2> HIDE DEF Good
  <2>3. Good(L + 1 - L)
    BY <2>1, <2>2
  <2> QED BY <2>2, <2>3
<1>9. After(1) = Named(GatesOf(p))
  BY GatesOfType
<1>10. Runs(h, f[1]) = s[L]
  <2>1. 1 - 1 = 0 /\ s[0] = h
    BY <1>3 DEF Stepped
  <2> QED BY <1>8, <2>1
<1> QED BY <1>2, <1>3, <1>8, <1>9, <1>10

---------------------------------------------------------------------------
(* What an importer makes of an accepted program computes what the gates   *)
(* of the program compute.                                                 *)

\* An import keeps the width and what the gates compute.
LEMMA ConvertedIs ==
    ASSUME NEW P, NEW p \in Seq(P), NEW n \in Nat, NEW framework,
           \A w \in P : IsGate(w) => GateOf(w) \in Proper(0..(n - 1))
    PROVE  /\ Converted(framework, p) \in Seq(Proper(0..(n - 1))) /\ Converted(framework, p) \in Circuit
           /\ GatesOf(p) \in Seq(Proper(0..(n - 1))) /\ GatesOf(p) \in Circuit
           /\ NumQubits(Converted(framework, p)) = NumQubits(GatesOf(p))
           /\ Amplitudes(Converted(framework, p), n) = Amplitudes(GatesOf(p), n)
<1> DEFINE W == 0..(n - 1)
           d == GatesOf(p)
           e == IF framework = "pyquil" THEN PyquilGates(p) ELSE GatesOf(p)
           f == DropInnerIdentities(e)
<1>1. Ground(n) \in Amps(n)
  BY GroundType
<1>2. d \in Seq(Proper(W))
  BY GatesOfType
<1>3. /\ e \in Seq(Proper(W)) /\ Named(e) = Named(d)
      /\ Runs(Ground(n), e) = Runs(Ground(n), d)
  <2>1. CASE framework = "pyquil"
    <3>1. e = PyquilGates(p)
      BY <2>1
    <3> HIDE DEF e
    <3> QED BY <3>1, <1>1, PyquilIs
  <2>2. CASE framework # "pyquil"
    <3>1. e = d
      BY <2>2
    <3> HIDE DEF e, d
    <3> QED BY <3>1, <1>2
  <2> QED BY <2>1, <2>2
<1>4. Converted(framework, p) = f
  BY DEF Converted
<1> HIDE DEF d, e
<1>5. W \subseteq Nat
  OBVIOUS
<1>6. d \in Circuit /\ e \in Circuit
  <2>1. Named(d) \subseteq W /\ Named(e) \subseteq W
    <3>1. \A g \in ToSet(d) \union ToSet(e) : ToSet(g.on) \subseteq W
      <4>1. ToSet(d) \subseteq Proper(W) /\ ToSet(e) \subseteq Proper(W)
        <5>1. /\ DOMAIN d = 1..Len(d) /\ \A i \in 1..Len(d) : d[i] \in Proper(W)
              /\ DOMAIN e = 1..Len(e) /\ \A i \in 1..Len(e) : e[i] \in Proper(W)
          BY <1>2, <1>3, LenProperties
        <5> QED BY <5>1 DEF ToSet
      <4> QED BY <4>1, ProperNames
    <3> QED BY <3>1, NamedElements
  <2> HIDE DEF W
  <2>2. Named(d) \subseteq Nat /\ Named(e) \subseteq Nat
    BY <2>1, <1>5
  <2> QED BY <2>2, <1>2, <1>3, CircuitOnWires DEF Circuit
<1>7. NumQubits(e) = NumQubits(d)
  BY <1>3, <1>6, SameWidth
<1>8. f \in Circuit /\ Named(f) \subseteq Named(e) /\ NumQubits(f) = NumQubits(e)
  BY <1>6, DropInnerWidth
<1>9. Runs(Ground(n), f) = Runs(Ground(n), e)
  BY <1>1, <1>3, DropInnerRuns
<1>10. f \in Seq(Proper(W))
  BY <1>3, SelectType DEF DropInnerIdentities
<1> HIDE DEF f
<1>11. Amplitudes(f, n) = Amplitudes(d, n)
  BY <1>3, <1>9 DEF Amplitudes
<1> QED BY <1>2, <1>4, <1>6, <1>7, <1>8, <1>10, <1>11 DEF d

\* What is sent as gates alone and comes back has the same counts.
LEMMA SentReturns ==
    ASSUME NEW c \in Circuit, NEW framework, NEW d \in Seq(Proper(0..(NumQubits(c) - 1))),
           NumQubits(d) = NumQubits(c),
           Amplitudes(d, NumQubits(c)) = Amplitudes(c, NumQubits(c))
    PROVE  LocalCounts(Converted(framework,
               [i \in DOMAIN d |-> [op |-> "gate", name |-> d[i].name, on |-> d[i].on]])) = LocalCounts(c)
<1> DEFINE n == NumQubits(c)
           G == Proper(0..(n - 1))
           P == {[op |-> "gate", name |-> g.name, on |-> g.on] : g \in G}
           p == [i \in DOMAIN d |-> [op |-> "gate", name |-> d[i].name, on |-> d[i].on]]
           e == Converted(framework, p)
<1>1. n \in Nat
  BY OnOwnWires
<1>2. DOMAIN d = 1..Len(d) /\ Len(d) \in Nat /\ \A i \in 1..Len(d) : d[i] \in G
  BY LenProperties
<1>3. p \in Seq(P)
  <2>1. p \in [1..Len(d) -> P]
    BY <1>2
  <2> HIDE DEF p, P
  <2> QED BY <2>1, <1>2, FunctionIsSeq
<1>4. \A w \in P : GateOf(w) \in G
  <2> TAKE w \in P
  <2>1. PICK g \in G : w = [op |-> "gate", name |-> g.name, on |-> g.on]
    OBVIOUS
  <2>2. g = Gate(g.name, g.on)
    BY ProperShape
  <2>3. GateOf(w) = g
    BY <2>1, <2>2 DEF GateOf, Gate
  <2> QED BY <2>3
<1>5. GatesOf(p) = d
  BY GatesOfGates
<1> HIDE DEF p, P
<1>6. NumQubits(e) = NumQubits(d) /\ Amplitudes(e, n) = Amplitudes(d, n)
  <2> HIDE DEF n
  <2> QED BY <1>1, <1>3, <1>4, <1>5, ConvertedIs, SMTT(30)
<1> HIDE DEF e
<1>7. NumQubits(e) = n /\ Amplitudes(e, n) = Amplitudes(c, n)
  BY <1>6
<1>8. Counts(e, n, Register(n)) = Counts(c, n, Register(n))
  <2> HIDE DEF n
  <2> QED BY <1>7, SameAmplitudes
<1>9. LocalCounts(e) = LocalCounts(c)
  BY <1>7, <1>8 DEF LocalCounts
<1> QED BY <1>9 DEF e, p

\* A circuit that returns from another framework has its counts again.
LEMMA RoundTrips ==
    ASSUME NEW c \in Circuit, NumQubits(c) > 0, NEW framework \in Returns(c)
    PROVE  LocalCounts(Converted(framework, Exported(framework, c))) = LocalCounts(c)
<1> DEFINE n == NumQubits(c)
           back(d) == Converted(framework,
                          [i \in DOMAIN d |-> [op |-> "gate", name |-> d[i].name, on |-> d[i].on]])
<1>1. /\ n \in Nat /\ c \in Seq(Proper(0..(n - 1))) /\ Ground(n) \in Amps(n)
      /\ 0..(n - 1) \subseteq Nat
  BY OnOwnWires, GroundType
<1>2. ASSUME NEW d \in Seq(Proper(0..(n - 1))), Named(d) \subseteq 0..(n - 1), n - 1 \in Named(d)
      PROVE  NumQubits(d) = n
  <2>1. d \in Circuit
    BY <1>1, <1>2, CircuitOnWires DEF Circuit
  <2>2. \A q \in Named(d) : q <= n - 1
    BY <1>1, <1>2
  <2>3. NumQubits(d) = (n - 1) + 1
    BY <2>1, <2>2, <1>2, Width
  <2> QED BY <2>3, <1>1
<1>3. ASSUME framework \in {"braket", "pyquil"}
      PROVE  LocalCounts(Converted(framework, Exported(framework, c))) = LocalCounts(c)
  <2> DEFINE d == WithoutIdentities(c)
  <2>1. n - 1 \in Working(c)
    BY <1>3 DEF Returns
  <2>2. d \in Seq(Proper(0..(n - 1))) /\ Named(d) = Working(c)
    BY <1>1, WithoutIdentitiesNames
  <2>3. Working(c) \subseteq 0..(n - 1)
    BY WorkingNames, WidthBounds
  <2>4. Runs(Ground(n), d) = Runs(Ground(n), c)
    BY <1>1, WithoutIdentitiesRuns
  <2>5. Exported(framework, c) = [i \in DOMAIN d |-> [op |-> "gate", name |-> d[i].name, on |-> d[i].on]]
    BY <1>3 DEF Exported, ToBraket, ToPyquil
  <2> HIDE DEF d, n
  <2>6. NumQubits(d) = n
    BY <2>1, <2>2, <2>3, <1>2
  <2>7. Amplitudes(d, n) = Amplitudes(c, n)
    BY <2>4 DEF Amplitudes
  <2>8. LocalCounts(back(d)) = LocalCounts(c)
    BY <2>2, <2>6, <2>7, SentReturns DEF n
  <2> QED BY <2>5, <2>8
<1>4. ASSUME framework = "qiskit"
      PROVE  LocalCounts(Converted(framework, Exported(framework, c))) = LocalCounts(c)
  <2>1. Exported(framework, c) = [i \in DOMAIN c |-> [op |-> "gate", name |-> c[i].name, on |-> c[i].on]]
    BY <1>4 DEF Exported, ToQiskit
  <2>2. LocalCounts(back(c)) = LocalCounts(c)
    BY <1>1, SentReturns
  <2> QED BY <2>1, <2>2
<1>5. ASSUME framework \in {"cirq", "pennylane"}
      PROVE  LocalCounts(Converted(framework, Exported(framework, c))) = LocalCounts(c)
  <2> DEFINE d == Padded(c)
  <2>1. /\ d \in Seq(Proper(0..(n - 1))) /\ Named(d) = 0..(n - 1)
        /\ Amplitudes(d, n) = Amplitudes(c, n)
    BY PaddedIs DEF Wires
  <2>2. n - 1 \in 0..(n - 1)
    BY <1>1
  <2>3. Exported(framework, c) = [i \in DOMAIN d |-> [op |-> "gate", name |-> d[i].name, on |-> d[i].on]]
    BY <1>5 DEF Exported, ToCirq, ToPennylane
  <2> HIDE DEF d, n
  <2>4. NumQubits(d) = n
    BY <2>1, <2>2, <1>2
  <2>5. LocalCounts(back(d)) = LocalCounts(c)
    BY <2>1, <2>4, SentReturns DEF n
  <2> QED BY <2>3, <2>5
<1> QED BY <1>3, <1>4, <1>5 DEF Returns

\* The counts of a circuit mean the same wherever it runs.
LEMMA AllWaysAgree ==
    ASSUME NEW c \in Circuit, NumQubits(c) > 0
    PROVE  ExecutorWays(c) \union DeviceCountsOf(c) = {LocalCounts(c)}
<1> DEFINE x == LocalCounts(c)
<1>1. IbmCounts(c) = x /\ AzureQiskitCounts(c) = x /\ AliceBobCounts(c) = x
  BY ReversedIsLocal DEF IbmCounts, AzureQiskitCounts, AliceBobCounts
<1>2. ReadForward(c, c) = x
  BY DEF ReadForward, LocalCounts
<1>3. /\ QuantinuumCounts(c) = x /\ QristalCounts(c) = x /\ CudaqCounts(c) = x
      /\ IonqV04Counts(c) = x /\ QilisdkCounts(c) = x
  BY <1>2 DEF QuantinuumCounts, QristalCounts, CudaqCounts, IonqV04Counts, QilisdkCounts,
              ToPytket, ToQiskit
<1>4. AzureCirqCounts(c) = x /\ LightningCounts(c) = x
  BY AzureCirqIsLocal, LightningIsLocal
<1>5. BraketCounts(c) = x /\ RigettiCounts(c) = x
  BY BraketIsLocal DEF BraketCounts, RigettiCounts
<1>6. \A framework \in Returns(c) : LocalCounts(Converted(framework, Exported(framework, c))) = x
  BY RoundTrips
<1>7. \A v \in DeviceWays : DeviceCounts(v[2], v[3], c) = x
  BY DeviceIsLocal
<1> HIDE DEF x
<1>8. ExecutorWays(c) = {x}
  <2>1. x \in ExecutorWays(c)
    BY DEF ExecutorWays, x
  <2>2. \A y \in ExecutorWays(c) : y = x
    BY <1>1, <1>3, <1>4, <1>5, <1>6 DEF ExecutorWays, x
  <2> QED BY <2>1, <2>2
<1>9. \A y \in DeviceCountsOf(c) : y = x
  BY <1>7 DEF DeviceCountsOf
<1> QED BY <1>8, <1>9 DEF x

---------------------------------------------------------------------------
(* The program's own wires among the wires of its simulation.              *)

Low(b, n) == [q \in 0..(n - 1) |-> b[q]]

\* The own wires of an outcome are an outcome.
LEMMA LowBits ==
    ASSUME NEW n, NEW N, 0..(n - 1) \subseteq 0..(N - 1), NEW b \in Bits(N)
    PROVE  /\ Low(b, n) \in Bits(n) /\ \A q \in 0..(n - 1) : Low(b, n)[q] = b[q]
<1>1. \A q \in 0..(n - 1) : b[q] \in {0, 1}
  BY DEF Bits
<1> QED BY <1>1 DEF Low, Bits

\* A gate on own wires does to them what it does to the whole.
LEMMA LowFlip ==
    ASSUME NEW n, NEW N, 0..(n - 1) \subseteq 0..(N - 1), NEW b \in Bits(N), NEW q \in 0..(n - 1)
    PROVE  Low(Flip(b, q), n) = Flip(Low(b, n), q)
<1> DEFINE x == Flip(b, q)
           y == Flip(Low(b, n), q)
           l == Low(b, n)
<1>1. /\ l \in Bits(n)
      /\ \A r \in 0..(n - 1) : l[r] = b[r]
  BY LowBits
<1>2. x \in Bits(N) /\ x[q] = 1 - b[q] /\ \A p \in 0..(N - 1) : p # q => x[p] = b[p]
  BY <1>1, FlipBits
<1>3. Flip(l, q) \in Bits(n) /\ Flip(l, q)[q] = 1 - l[q]
      /\ \A p \in 0..(n - 1) : p # q => Flip(l, q)[p] = l[p]
  <2> HIDE DEF l
  <2> QED BY <1>1, FlipBits
<1> HIDE DEF x, l
<1>4. Low(x, n) \in Bits(n) /\ \A r \in 0..(n - 1) : Low(x, n)[r] = x[r]
  BY <1>2, LowBits
<1>5. \A r \in 0..(n - 1) : Low(x, n)[r] = Flip(l, q)[r]
  BY <1>1, <1>2, <1>3, <1>4
<1>6. Low(x, n) = Flip(l, q)
  BY <1>3, <1>4, <1>5, BitsEqual
<1> QED BY <1>6 DEF x, l

LEMMA LowExchange ==
    ASSUME NEW n, NEW N, 0..(n - 1) \subseteq 0..(N - 1), NEW b \in Bits(N),
           NEW p \in 0..(n - 1), NEW q \in 0..(n - 1), p # q
    PROVE  Low(Exchange(b, p, q), n) = Exchange(Low(b, n), p, q)
<1> DEFINE x == Exchange(b, p, q)
           l == Low(b, n)
<1>1. /\ l \in Bits(n)
      /\ \A r \in 0..(n - 1) : l[r] = b[r]
  BY LowBits
<1>2. /\ x \in Bits(N) /\ x[p] = b[q] /\ x[q] = b[p]
      /\ \A r \in 0..(N - 1) : r # p /\ r # q => x[r] = b[r]
  <2>1. p \in 0..(N - 1) /\ q \in 0..(N - 1)
    BY <1>1
  <2> QED BY <2>1, ExchangeBits
<1>3. /\ Exchange(l, p, q) \in Bits(n) /\ Exchange(l, p, q)[p] = l[q] /\ Exchange(l, p, q)[q] = l[p]
      /\ \A r \in 0..(n - 1) : r # p /\ r # q => Exchange(l, p, q)[r] = l[r]
  <2> HIDE DEF l
  <2> QED BY <1>1, ExchangeBits
<1> HIDE DEF x, l
<1>4. Low(x, n) \in Bits(n) /\ \A r \in 0..(n - 1) : Low(x, n)[r] = x[r]
  BY <1>2, LowBits
<1>5. \A r \in 0..(n - 1) : Low(x, n)[r] = Exchange(l, p, q)[r]
  BY <1>1, <1>2, <1>3, <1>4
<1>6. Low(x, n) = Exchange(l, p, q)
  BY <1>3, <1>4, <1>5, BitsEqual
<1> QED BY <1>6 DEF x, l

LEMMA PutElsewhere ==
    ASSUME NEW n, NEW b \in Bits(n), NEW q \in 0..(n - 1), NEW p \in 0..(n - 1), p # q
    PROVE  Put(b, q, 0)[p] = b[p] /\ Put(b, q, 1)[p] = b[p]
BY SetBits

LEMMA LowPut ==
    ASSUME NEW n, NEW N, 0..(n - 1) \subseteq 0..(N - 1), NEW b \in Bits(N), NEW q \in 0..(n - 1)
    PROVE  Low(Put(b, q, 0), n) = Put(Low(b, n), q, 0) /\ Low(Put(b, q, 1), n) = Put(Low(b, n), q, 1)
<1> DEFINE x == Put(b, q, 0)
           y == Put(b, q, 1)
           l == Low(b, n)
<1>1. /\ l \in Bits(n)
      /\ \A r \in 0..(n - 1) : l[r] = b[r]
  BY LowBits
<1>2. /\ x \in Bits(N) /\ x[q] = 0 /\ y \in Bits(N) /\ y[q] = 1
      /\ \A r \in 0..(N - 1) : r # q => x[r] = b[r] /\ y[r] = b[r]
  <2>1. q \in 0..(N - 1)
    BY <1>1
  <2>2. Put(b, q, 0) \in Bits(N) /\ Put(b, q, 1) \in Bits(N)
    BY <2>1, SetBits
  <2>3. \A r \in 0..(N - 1) : r # q => Put(b, q, 0)[r] = b[r] /\ Put(b, q, 1)[r] = b[r]
    BY <2>1, PutElsewhere
  <2>4. Put(b, q, 0)[q] = 0
    BY <2>1, SetBits
  <2>5. Put(b, q, 1)[q] = 1
    BY <2>1, SetBits
  <2> QED BY <2>2, <2>3, <2>4, <2>5
<1>3. /\ Put(l, q, 0) \in Bits(n) /\ Put(l, q, 0)[q] = 0
      /\ Put(l, q, 1) \in Bits(n) /\ Put(l, q, 1)[q] = 1
      /\ \A r \in 0..(n - 1) : r # q => Put(l, q, 0)[r] = l[r] /\ Put(l, q, 1)[r] = l[r]
  <2>1. l \in Bits(n)
    BY <1>1
  <2> HIDE DEF l
  <2>2. Put(l, q, 0) \in Bits(n) /\ Put(l, q, 1) \in Bits(n)
    BY <2>1, SetBits
  <2>3. \A r \in 0..(n - 1) : r # q => Put(l, q, 0)[r] = l[r] /\ Put(l, q, 1)[r] = l[r]
    BY <2>1, PutElsewhere
  <2>4. Put(l, q, 0)[q] = 0
    BY <2>1, SetBits
  <2>5. Put(l, q, 1)[q] = 1
    BY <2>1, SetBits
  <2> QED BY <2>2, <2>3, <2>4, <2>5
<1> HIDE DEF x, y, l
<1>4. /\ Low(x, n) \in Bits(n) /\ \A r \in 0..(n - 1) : Low(x, n)[r] = x[r]
      /\ Low(y, n) \in Bits(n) /\ \A r \in 0..(n - 1) : Low(y, n)[r] = y[r]
  <2>1. x \in Bits(N) /\ y \in Bits(N)
    BY <1>2
  <2>2. Low(x, n) \in Bits(n) /\ \A r \in 0..(n - 1) : Low(x, n)[r] = x[r]
    BY <2>1, LowBits
  <2>3. Low(y, n) \in Bits(n) /\ \A r \in 0..(n - 1) : Low(y, n)[r] = y[r]
    BY <2>1, LowBits
  <2> QED BY <2>2, <2>3
<1>5. \A r \in 0..(n - 1) : Low(x, n)[r] = Put(l, q, 0)[r] /\ Low(y, n)[r] = Put(l, q, 1)[r]
  BY <1>1, <1>2, <1>3, <1>4
<1>6. Low(x, n) = Put(l, q, 0) /\ Low(y, n) = Put(l, q, 1)
  BY <1>3, <1>4, <1>5, BitsEqual
<1> QED BY <1>6 DEF x, y, l

LEMMA LowPermuted ==
    ASSUME NEW n, NEW N, 0..(n - 1) \subseteq 0..(N - 1), NEW b \in Bits(N),
           NEW g \in Proper(0..(n - 1)), g.name # "H"
    PROVE  Low(Permuted(g, b), n) = Permuted(g, Low(b, n))
<1> DEFINE l == Low(b, n)
           o == g.on
<1>1. \A r \in 0..(n - 1) : l[r] = b[r]
  BY LowBits
<1>2. g.name \in {"I", "X", "CNOT", "SWAP", "CCX", "CSWAP"}
  BY ProperShape DEF OneQubit, TwoQubit, ThreeQubit
<1> HIDE DEF l
<1>3. CASE g.name = "I"
  BY <1>3 DEF Permuted
<1>4. CASE g.name = "X"
  <2>1. o[1] \in 0..(n - 1)
    BY <1>4, ProperShape DEF OneQubit
  <2>2. Permuted(g, b) = Flip(b, o[1]) /\ Permuted(g, l) = Flip(l, o[1])
    BY <1>4 DEF Permuted
  <2> QED BY <2>1, <2>2, LowFlip DEF l
<1>5. CASE g.name = "CNOT"
  <2>1. o[1] \in 0..(n - 1) /\ o[2] \in 0..(n - 1)
    BY <1>5, ProperShape DEF TwoQubit
  <2>2. /\ Permuted(g, b) = IF b[o[1]] = 1 THEN Flip(b, o[2]) ELSE b
        /\ Permuted(g, l) = IF l[o[1]] = 1 THEN Flip(l, o[2]) ELSE l
    BY <1>5 DEF Permuted
  <2>3. l[o[1]] = b[o[1]] /\ Low(Flip(b, o[2]), n) = Flip(l, o[2])
    BY <2>1, <1>1, LowFlip DEF l
  <2> QED BY <2>2, <2>3 DEF l
<1>6. CASE g.name = "SWAP"
  <2>1. o[1] \in 0..(n - 1) /\ o[2] \in 0..(n - 1) /\ o[1] # o[2]
    BY <1>6, ProperShape DEF TwoQubit
  <2>2. Permuted(g, b) = Exchange(b, o[1], o[2]) /\ Permuted(g, l) = Exchange(l, o[1], o[2])
    BY <1>6 DEF Permuted
  <2> QED BY <2>1, <2>2, LowExchange DEF l
<1>7. CASE g.name = "CCX"
  <2>1. o[1] \in 0..(n - 1) /\ o[2] \in 0..(n - 1) /\ o[3] \in 0..(n - 1)
    BY <1>7, ProperShape DEF ThreeQubit
  <2>2. /\ Permuted(g, b) = IF b[o[1]] = 1 /\ b[o[2]] = 1 THEN Flip(b, o[3]) ELSE b
        /\ Permuted(g, l) = IF l[o[1]] = 1 /\ l[o[2]] = 1 THEN Flip(l, o[3]) ELSE l
    BY <1>7 DEF Permuted
  <2>3. l[o[1]] = b[o[1]] /\ l[o[2]] = b[o[2]] /\ Low(Flip(b, o[3]), n) = Flip(l, o[3])
    BY <2>1, <1>1, LowFlip DEF l
  <2> QED BY <2>2, <2>3 DEF l
<1>8. CASE g.name = "CSWAP"
  <2>1. o[1] \in 0..(n - 1) /\ o[2] \in 0..(n - 1) /\ o[3] \in 0..(n - 1) /\ o[2] # o[3]
    BY <1>8, ProperShape DEF ThreeQubit
  <2>2. /\ Permuted(g, b) = IF b[o[1]] = 1 THEN Exchange(b, o[2], o[3]) ELSE b
        /\ Permuted(g, l) = IF l[o[1]] = 1 THEN Exchange(l, o[2], o[3]) ELSE l
    BY <1>8 DEF Permuted
  <2>3. l[o[1]] = b[o[1]] /\ Low(Exchange(b, o[2], o[3]), n) = Exchange(l, o[2], o[3])
    BY <2>1, <1>1, LowExchange DEF l
  <2> QED BY <2>2, <2>3 DEF l
<1> QED BY <1>2, <1>3, <1>4, <1>5, <1>6, <1>7, <1>8 DEF l

---------------------------------------------------------------------------
(* The wires that the measurements of a program write.                     *)

Measures(w) == w.op \in {"measure", "reset"}

\* Each measurement has a number, counted from 1.
LEMMA RecordsAre ==
    ASSUME NEW P, NEW p \in Seq(P)
    PROVE  /\ Len(p) \in Nat
           /\ \A i \in 0..Len(p) : Records(p, i) \in Nat
           /\ Records(p, 0) = 0
           /\ \A i \in 1..Len(p) :
                  /\ Measures(p[i]) => Records(p, i) = Records(p, i - 1) + 1
                  /\ ~Measures(p[i]) => Records(p, i) = Records(p, i - 1)
           /\ \A i, j \in 0..Len(p) : j <= i => Records(p, j) <= Records(p, i)
<1> DEFINE At(i) == {j \in 1..i : Measures(p[j])}
<1>1. \A i \in 0..Len(p) : Records(p, i) = Cardinality(At(i))
  BY DEF Records, Measures
<1>2. Len(p) \in Nat
  BY LenProperties
<1>3. ASSUME NEW i \in 0..Len(p) PROVE IsFiniteSet(At(i)) /\ Cardinality(At(i)) \in Nat
  <2>1. i \in Nat
    BY <1>2
  <2>2. IsFiniteSet(1..i)
    BY <2>1, FS_Interval
  <2>3. At(i) \subseteq 1..i
    OBVIOUS
  <2> QED BY <2>2, <2>3, FS_Subset, FS_CardinalityType
<1>4. Cardinality(At(0)) = 0
  <2>1. At(0) = {}
    OBVIOUS
  <2> QED BY <2>1, FS_EmptySet
<1>5. ASSUME NEW i \in 1..Len(p)
      PROVE  /\ Measures(p[i]) => Cardinality(At(i)) = Cardinality(At(i - 1)) + 1
             /\ ~Measures(p[i]) => Cardinality(At(i)) = Cardinality(At(i - 1))
  <2>1. i - 1 \in 0..Len(p) /\ 1..i = (1..(i - 1)) \union {i} /\ i \notin 1..(i - 1)
    BY <1>2
  <2>2. ASSUME Measures(p[i]) PROVE Cardinality(At(i)) = Cardinality(At(i - 1)) + 1
    <3>1. At(i) = At(i - 1) \union {i} /\ i \notin At(i - 1)
      BY <2>1, <2>2
    <3>2. IsFiniteSet(At(i - 1))
      BY <2>1, <1>3
    <3> HIDE DEF At
    <3> QED BY <3>1, <3>2, FS_AddElement
  <2>3. ASSUME ~Measures(p[i]) PROVE At(i) = At(i - 1)
    BY <2>1, <2>3
  <2> QED BY <2>2, <2>3
<1>6. ASSUME NEW i \in 0..Len(p), NEW j \in 0..Len(p), j <= i
      PROVE  Cardinality(At(j)) <= Cardinality(At(i))
  <2>1. At(j) \subseteq At(i)
    BY <1>2, <1>6
  <2>2. IsFiniteSet(At(i))
    BY <1>3
  <2> HIDE DEF At
  <2> QED BY <2>1, <2>2, FS_Subset
<1>7. \A i \in 1..Len(p) : i \in 0..Len(p) /\ i - 1 \in 0..Len(p)
  BY <1>2
<1>8. 0 \in 0..Len(p)
  BY <1>2
<1> HIDE DEF At
<1> QED BY <1>1, <1>2, <1>3, <1>4, <1>5, <1>6, <1>7, <1>8

\* Each number up to the last belongs to a measurement.
LEMMA EveryRecord ==
    ASSUME NEW P, NEW p \in Seq(P)
    PROVE  /\ \A k \in 1..Records(p, Len(p)) :
                  \E j \in 1..Len(p) : Measures(p[j]) /\ Records(p, j) = k
           /\ \A i, j \in 1..Len(p) :
                  Measures(p[i]) /\ Measures(p[j]) /\ Records(p, i) = Records(p, j) => i = j
<1> DEFINE L == Len(p)
           S == {i \in 0..L : \A k \in 1..Records(p, i) :
                                  \E j \in 1..i : Measures(p[j]) /\ Records(p, j) = k}
<1>1. /\ L \in Nat /\ \A i \in 0..L : Records(p, i) \in Nat
      /\ Records(p, 0) = 0
      /\ \A i \in 1..L : /\ Measures(p[i]) => Records(p, i) = Records(p, i - 1) + 1
                         /\ ~Measures(p[i]) => Records(p, i) = Records(p, i - 1)
      /\ \A i, j \in 0..L : j <= i => Records(p, j) <= Records(p, i)
  BY RecordsAre
<1> HIDE DEF L
<1>2. 0 \in S
  BY <1>1
<1>3. ASSUME NEW i \in 0..(L - 1), i \in S PROVE i + 1 \in S
  <2>1. i + 1 \in 1..L /\ (i + 1) - 1 = i /\ i + 1 \in 0..L /\ i \in 0..L
    BY <1>1
  <2>2. ASSUME NEW k \in 1..Records(p, i + 1)
        PROVE  \E j \in 1..(i + 1) : Measures(p[j]) /\ Records(p, j) = k
    <3>1. CASE k \in 1..Records(p, i)
      <4>1. PICK j \in 1..i : Measures(p[j]) /\ Records(p, j) = k
        BY <3>1, <1>3
      <4>2. j \in 1..(i + 1)
        BY <2>1
      <4> QED BY <4>1, <4>2
    <3>2. CASE k \notin 1..Records(p, i)
      <4>1. Records(p, i) \in Nat /\ Records(p, i + 1) \in Nat
        BY <1>1, <2>1
      <4>2. Measures(p[i + 1])
        BY <1>1, <2>1, <3>2
      <4>3. k = Records(p, i + 1)
        BY <4>1, <4>2, <1>1, <2>1, <3>2
      <4>4. i + 1 \in 1..(i + 1)
        BY <2>1
      <4> QED BY <4>2, <4>3, <4>4
    <3> QED BY <3>1, <3>2
  <2> QED BY <2>1, <2>2
<1>4. L \in S
  <2> HIDE DEF S
  <2>1. \A i \in 0..L : i \in S
    BY <1>1, <1>2, <1>3, BoundedInduction
  <2> QED BY <2>1, <1>1
<1>5. ASSUME NEW i \in 1..L, NEW j \in 1..L, i < j, Measures(p[j])
      PROVE  Records(p, i) < Records(p, j)
  <2>1. /\ i \in 0..L /\ j - 1 \in 0..L /\ j \in 0..L /\ i <= j - 1
    BY <1>1, <1>5
  <2>2. /\ Records(p, i) <= Records(p, j - 1) /\ Records(p, j) = Records(p, j - 1) + 1
        /\ Records(p, i) \in Nat /\ Records(p, j - 1) \in Nat
    BY <1>1, <2>1, <1>5
  <2> QED BY <2>2
<1>6. ASSUME NEW i \in 1..L, NEW j \in 1..L, Measures(p[i]), Measures(p[j]),
             Records(p, i) = Records(p, j)
      PROVE  i = j
  <2>1. Records(p, i) \in Nat /\ i \in Int /\ j \in Int
    BY <1>1
  <2>2. ~(i < j) /\ ~(j < i)
    BY <2>1, <1>5, <1>6
  <2> QED BY <2>1, <2>2
<1> QED BY <1>4, <1>6 DEF L

---------------------------------------------------------------------------
(* One instruction of a program, and its simulation.                       *)

\* The wires of the program have the amplitudes a in the outcomes M, and the
\* outcomes outside M are not seen.
Follows(A, a, n, N, M) == \A b \in Bits(N) : A[b] = IF b \in M THEN a[Low(b, n)] ELSE 0

\* Whether an outcome is in M does not depend on the given wires.
Ignores(M, N, V) ==
    \A b, d \in Bits(N) : (\A w \in 0..(N - 1) : w \notin V => b[w] = d[w]) => (b \in M <=> d \in M)

\* A gate on own wires is simulated by itself.
LEMMA FollowsGate ==
    ASSUME NEW n, NEW N, 0..(n - 1) \subseteq 0..(N - 1), NEW g \in Proper(0..(n - 1)),
           NEW a \in Amps(n), NEW A \in Amps(N), NEW M,
           Ignores(M, N, ToSet(g.on)), Follows(A, a, n, N, M)
    PROVE  Follows(Evolve(A, g), Evolve(a, g), n, N, M)
<1>1. 0..(n - 1) \subseteq 0..(N - 1)
  OBVIOUS
<1>2. g \in Proper(0..(N - 1))
  <2>1. ToSet(g.on) \subseteq 0..(N - 1)
    BY <1>1, ProperNames
  <2> QED BY <2>1, ProperOnNames
<1>3. ASSUME g.name # "H"
      PROVE  Follows(Evolve(A, g), Evolve(a, g), n, N, M)
  <2>1. /\ Evolve(A, g) = [b \in Bits(N) |-> A[Permuted(g, b)]]
        /\ Evolve(a, g) = [b \in Bits(n) |-> a[Permuted(g, b)]]
    BY <1>3, EvolvePermuted
  <2>2. ASSUME NEW b \in Bits(N)
        PROVE  Evolve(A, g)[b] = IF b \in M THEN Evolve(a, g)[Low(b, n)] ELSE 0
    <3>1. /\ Permuted(g, b) \in Bits(N)
          /\ \A q \in 0..(N - 1) : q \notin ToSet(g.on) => Permuted(g, b)[q] = b[q]
      BY <1>2, <1>3, PermutedBits
    <3>2. Low(b, n) \in Bits(n) /\ Low(Permuted(g, b), n) = Permuted(g, Low(b, n))
      BY <1>3, LowBits, LowPermuted
    <3>3. b \in M <=> Permuted(g, b) \in M
      BY <3>1 DEF Ignores
    <3>4. A[Permuted(g, b)] = IF Permuted(g, b) \in M THEN a[Low(Permuted(g, b), n)] ELSE 0
      BY <3>1 DEF Follows
    <3>5. Evolve(A, g)[b] = A[Permuted(g, b)]
      BY <2>1
    <3>6. Evolve(a, g)[Low(b, n)] = a[Permuted(g, Low(b, n))]
      BY <2>1, <3>2
    <3> QED BY <3>2, <3>3, <3>4, <3>5, <3>6
  <2> QED BY <2>2 DEF Follows
<1>4. ASSUME g.name = "H"
      PROVE  Follows(Evolve(A, g), Evolve(a, g), n, N, M)
  <2> DEFINE q == g.on[1]
  <2>1. q \in 0..(n - 1) /\ q \in 0..(N - 1) /\ ToSet(g.on) = {q}
    BY <1>1, <1>4, ProperShape DEF OneQubit
  <2>2. ASSUME NEW b \in Bits(N)
        PROVE  Evolve(A, g)[b] = IF b \in M THEN Evolve(a, g)[Low(b, n)] ELSE 0
    <3> DEFINE b0 == Put(b, q, 0)
               b1 == Put(b, q, 1)
               l == Low(b, n)
    <3>1. /\ A[b0] \in Int /\ A[b1] \in Int
          /\ Evolve(A, g)[b] = IF b[q] = 1 THEN A[b0] - A[b1] ELSE A[b0] + A[b1]
      BY <1>2, <1>4, EvolveH
    <3>2. l \in Bits(n) /\ l[q] = b[q]
      BY <2>1, LowBits
    <3>3. /\ a[Put(l, q, 0)] \in Int /\ a[Put(l, q, 1)] \in Int
          /\ Evolve(a, g)[l] = IF l[q] = 1 THEN a[Put(l, q, 0)] - a[Put(l, q, 1)]
                               ELSE a[Put(l, q, 0)] + a[Put(l, q, 1)]
      <4>1. l \in Bits(n)
        BY <3>2
      <4> HIDE DEF l
      <4> QED BY <4>1, <1>4, EvolveH
    <3>4. Low(b0, n) = Put(l, q, 0) /\ Low(b1, n) = Put(l, q, 1)
      <4> HIDE DEF q
      <4> QED BY <2>1, LowPut
    <3>5. b0 \in Bits(N) /\ b1 \in Bits(N)
      <4> HIDE DEF q
      <4> QED BY <2>1, SetBits
    <3>6. \A w \in 0..(N - 1) : w # q => b0[w] = b[w] /\ b1[w] = b[w]
      <4> HIDE DEF q
      <4> QED BY <2>1, PutElsewhere
    <3> HIDE DEF b0, b1, l, q
    <3>7. (b \in M <=> b0 \in M) /\ (b \in M <=> b1 \in M)
      <4>1. \A w \in 0..(N - 1) : w \notin ToSet(g.on) => b[w] = b0[w] /\ b[w] = b1[w]
        BY <2>1, <3>6
      <4> QED BY <4>1, <3>5 DEF Ignores
    <3>8. /\ A[b0] = IF b0 \in M THEN a[Low(b0, n)] ELSE 0
          /\ A[b1] = IF b1 \in M THEN a[Low(b1, n)] ELSE 0
      BY <3>5 DEF Follows
    <3>9. CASE b \in M
      <4>1. A[b0] = a[Put(l, q, 0)] /\ A[b1] = a[Put(l, q, 1)]
        BY <3>9, <3>4, <3>7, <3>8
      <4>2. Evolve(A, g)[b] = Evolve(a, g)[l]
        BY <4>1, <3>1, <3>2, <3>3
      <4> QED BY <4>2, <3>9 DEF l
    <3>10. CASE b \notin M
      <4>1. A[b0] = 0 /\ A[b1] = 0
        BY <3>10, <3>7, <3>8
      <4>2. Evolve(A, g)[b] = 0
        BY <4>1, <3>1
      <4> QED BY <4>2, <3>10
    <3> QED BY <3>9, <3>10
  <2> QED BY <2>2 DEF Follows
<1> QED BY <1>3, <1>4

\* The CNOT that copies a wire is a gate.
LEMMA CnotGates ==
    ASSUME NEW W, NEW q \in W, NEW r \in W, q # r
    PROVE  /\ Gate("CNOT", <<q, r>>) \in Proper(W) /\ Gate("CNOT", <<q, r>>).name = "CNOT"
           /\ Gate("CNOT", <<q, r>>).on[1] = q /\ Gate("CNOT", <<q, r>>).on[2] = r
<1> DEFINE s == <<q, r>>
<1>1. s \in [1..2 -> W] /\ DOMAIN s = {1, 2} /\ s[1] = q /\ s[2] = r
  OBVIOUS
<1> HIDE DEF s
<1>2. RequireDistinct(s)
  BY <1>1 DEF RequireDistinct, IsInjective
<1>3. /\ Gate("CNOT", s) \in [name : TwoQubit, on : [1..2 -> W]] /\ Gate("CNOT", s).on = s
      /\ Gate("CNOT", s).name = "CNOT"
  BY <1>1 DEF Gate, TwoQubit
<1>4. Gate("CNOT", s) \in Proper(W)
  BY <1>2, <1>3 DEF Proper, Gates
<1> QED BY <1>1, <1>3, <1>4 DEF s

\* A copy to a fresh wire loses nothing.
LEMMA FollowsMeasure ==
    ASSUME NEW n, NEW N, 0..(n - 1) \subseteq 0..(N - 1),
           NEW q \in 0..(n - 1), NEW r \in 0..(N - 1), r \notin 0..(n - 1),
           NEW a \in Amps(n), NEW A \in Amps(N), NEW M, NEW K, Follows(A, a, n, N, M),
           \A b \in Bits(N) : b \in K <=> Permuted(Gate("CNOT", <<q, r>>), b) \in M
    PROVE  Follows(Evolve(A, Gate("CNOT", <<q, r>>)), a, n, N, K)
<1> DEFINE g == Gate("CNOT", <<q, r>>)
<1>1. q \in 0..(N - 1) /\ r \in 0..(N - 1) /\ q # r /\ \A w \in 0..(n - 1) : w \in 0..(N - 1) /\ w # r
  OBVIOUS
<1>2. g \in Proper(0..(N - 1)) /\ g.name = "CNOT" /\ g.on[1] = q /\ g.on[2] = r
  <2> DEFINE W == 0..(N - 1)
  <2>1. q \in W /\ r \in W
    BY <1>1
  <2> HIDE DEF W
  <2>2. g \in Proper(W) /\ g.name = "CNOT" /\ g.on[1] = q /\ g.on[2] = r
    BY <2>1, <1>1, CnotGates
  <2> QED BY <2>2 DEF W
<1> HIDE DEF g
<1>3. Evolve(A, g) = [b \in Bits(N) |-> A[Permuted(g, b)]]
  BY <1>2, EvolvePermuted
<1>4. ASSUME NEW b \in Bits(N)
      PROVE  Evolve(A, g)[b] = IF b \in K THEN a[Low(b, n)] ELSE 0
  <2>1. /\ Permuted(g, b) \in Bits(N)
        /\ \A w \in 0..(N - 1) : w # r => Permuted(g, b)[w] = b[w]
    BY <1>2, CnotBits
  <2>2. Low(Permuted(g, b), n) = Low(b, n)
    <3>1. \A w \in 0..(n - 1) : Permuted(g, b)[w] = b[w]
      BY <1>1, <2>1
    <3> QED BY <3>1 DEF Low
  <2>3. A[Permuted(g, b)] = IF Permuted(g, b) \in M THEN a[Low(Permuted(g, b), n)] ELSE 0
    BY <2>1 DEF Follows
  <2>4. b \in K <=> Permuted(g, b) \in M
    BY DEF g
  <2>5. Evolve(A, g)[b] = A[Permuted(g, b)]
    BY <1>3
  <2> QED BY <2>2, <2>3, <2>4, <2>5
<1> QED BY <1>4 DEF Follows, g

---------------------------------------------------------------------------
(* The simulation of a program that only measures and computes.            *)

\* What an instruction acts on.
LEMMA ElementaryShape ==
    ASSUME NEW W, NEW w \in Elementary(W)
    PROVE  /\ IsGate(w) => GateOf(w) \in Proper(W) /\ GateOf(w).name = w.name /\ GateOf(w).on = w.on
           /\ w.op = "measure" => w.on[1] \in W
<1>1. \/ /\ w.op = "gate" /\ RequireDistinct(w.on)
         /\ \/ w.name \in OneQubit \union {"I"} /\ w.on \in [1..1 -> W]
            \/ w.name \in TwoQubit /\ w.on \in [1..2 -> W]
            \/ w.name \in ThreeQubit /\ w.on \in [1..3 -> W]
      \/ w.op \in {"measure", "reset"} /\ w.on \in [1..1 -> W]
      \/ w.op \in {"conditioned", "modified", "barrier", "declare"}
  BY DEF Elementary
<1>2. ASSUME IsGate(w)
      PROVE  GateOf(w) \in Proper(W) /\ GateOf(w).name = w.name /\ GateOf(w).on = w.on
  <2>1. /\ RequireDistinct(w.on)
        /\ \/ w.name \in OneQubit \union {"I"} /\ w.on \in [1..1 -> W]
           \/ w.name \in TwoQubit /\ w.on \in [1..2 -> W]
           \/ w.name \in ThreeQubit /\ w.on \in [1..3 -> W]
    BY <1>1, <1>2 DEF IsGate
  <2>2. GateOf(w) = [name |-> w.name, on |-> w.on]
    BY DEF GateOf, Gate
  <2>3. GateOf(w) \in Gates(W) /\ GateOf(w).name = w.name /\ GateOf(w).on = w.on
    BY <2>1, <2>2 DEF Gates
  <2> QED BY <2>1, <2>3 DEF Proper
<1>3. ASSUME w.op = "measure" PROVE w.on[1] \in W
  BY <1>1, <1>3
<1> QED BY <1>2, <1>3

\* What an importer accepts.
Quiet(p) == \A i \in 1..Len(p) : p[i].op \in {"gate", "measure", "barrier", "declare"}
Settled(p) ==
    \A i, j \in 1..Len(p) :
        i < j /\ p[i].op = "measure" /\ IsGate(p[j]) /\ ~IsIdentity(GateOf(p[j])) =>
            MeasureOf(p, i) \notin ToSet(p[j].on)

\* An accepted program has gates and measurements only, and no gate after the
\* measurement of its wire but an identity.
LEMMA AcceptedPrograms ==
    ASSUME NEW P, NEW p \in Seq(P), NEW framework \in Langs, Accepts(framework, p)
    PROVE  Quiet(p) /\ Settled(p)
<1>1. DOMAIN p = 1..Len(p) /\ Len(p) \in Nat
  BY LenProperties
<1>2. Quiet(p)
  BY <1>1 DEF Quiet, Accepts, Only, Langs
<1>3. ASSUME NEW i \in 1..Len(p), NEW j \in 1..Len(p), i < j, p[i].op = "measure",
             IsGate(p[j]), ~IsIdentity(GateOf(p[j]))
      PROVE  MeasureOf(p, i) \notin ToSet(p[j].on)
  <2>1. i \in Measurements(p) /\ j \in (i + 1)..Len(p)
    BY <1>1, <1>3 DEF Measurements
  <2>2. ~IsHarmless(p[j]) /\ p[j].op # "barrier"
    BY <1>3 DEF IsHarmless, IsIdentity, GateOf, Gate, IsGate
  <2>3. CASE framework = "braket"
    BY <2>1, <2>3 DEF Accepts, BraketTerminal, Touches
  <2>4. CASE framework = "qiskit"
    BY <2>1, <2>2, <2>4 DEF Accepts, QiskitTerminal, Disturbs, Touches
  <2>5. CASE framework = "cirq"
    BY <2>1, <2>2, <2>5 DEF Accepts, CirqTerminal, Disturbs, Touches
  <2>6. CASE framework = "pennylane"
    BY <1>1, <1>3, <2>6 DEF Accepts, Only
  <2>7. CASE framework = "pyquil"
    BY <2>1, <2>7 DEF Accepts, PyquilTerminal, Touches
  <2> QED BY <2>3, <2>4, <2>5, <2>6, <2>7 DEF Langs
<1> QED BY <1>2, <1>3 DEF Settled

\* The wire that a measurement writes, and those that are still to be written.
Wire(p, n, i) == n + Records(p, i) - 1
Free(p, n, i) == {w \in Nat : w >= n + Records(p, i)}

\* A program on the wires 0..n-1 that is simulated on 0..N-1.
Setting(p, n, N) ==
    /\ n \in Nat /\ p \in Seq(Elementary(0..(n - 1))) /\ Quiet(p) /\ Settled(p)
    /\ N = n + Records(p, Len(p))

\* The wires of the measurements are distinct, fresh, and all there are.
LEMMA WiresAre ==
    ASSUME NEW n, NEW N, NEW p, Setting(p, n, N)
    PROVE  /\ n \in Nat /\ N \in Nat /\ 0..(n - 1) \subseteq 0..(N - 1) /\ Len(p) \in Nat
           /\ \A i \in 1..Len(p) : p[i].op = "measure" =>
                  /\ Wire(p, n, i) \in 0..(N - 1) /\ Wire(p, n, i) \notin 0..(n - 1)
                  /\ Wire(p, n, i) \in Free(p, n, i - 1)
                  /\ \A w \in 0..(N - 1) : w \in Free(p, n, i) <=>
                                               w \in Free(p, n, i - 1) /\ w # Wire(p, n, i)
                  /\ \A j \in 1..(i - 1) : p[j].op = "measure" => Wire(p, n, j) # Wire(p, n, i)
           /\ \A i \in 1..Len(p) : p[i].op # "measure" => Free(p, n, i) = Free(p, n, i - 1)
           /\ \A i \in 0..Len(p) : \A w \in 0..(n - 1) : w \notin Free(p, n, i)
           /\ \A w \in 0..(N - 1) : w \in 0..(n - 1) \/ w \in Free(p, n, 0)
           /\ \A w \in 0..(N - 1) : w \notin Free(p, n, Len(p))
           /\ \A w \in 0..(N - 1) : w \notin 0..(n - 1) =>
                  \E j \in 1..Len(p) : p[j].op = "measure" /\ Wire(p, n, j) = w
<1> DEFINE L == Len(p)
           E == Elementary(0..(n - 1))
           rec(i) == Records(p, i)
<1>1. n \in Nat /\ p \in Seq(E) /\ N = n + rec(L) /\ \A i \in 1..L : p[i].op # "reset"
  BY DEF Setting, Quiet
<1> HIDE DEF E
<1>2. /\ L \in Nat /\ \A i \in 0..L : rec(i) \in Nat
      /\ rec(0) = 0
      /\ \A i \in 1..L : /\ Measures(p[i]) => rec(i) = rec(i - 1) + 1
                         /\ ~Measures(p[i]) => rec(i) = rec(i - 1)
      /\ \A i, j \in 0..L : j <= i => rec(j) <= rec(i)
  BY <1>1, RecordsAre
<1>3. /\ \A k \in 1..rec(L) : \E j \in 1..L : Measures(p[j]) /\ rec(j) = k
      /\ \A i, j \in 1..L : Measures(p[i]) /\ Measures(p[j]) /\ rec(i) = rec(j) => i = j
  BY <1>1, EveryRecord
<1>4. \A i \in 1..L : Measures(p[i]) <=> p[i].op = "measure"
  BY <1>1 DEF Measures
<1>5. L \in 0..L /\ 0 \in 0..L /\ \A i \in 1..L : i \in 0..L /\ i - 1 \in 0..L
  BY <1>2
<1> HIDE DEF L, rec
<1>6. N \in Nat /\ \A i \in 0..L : rec(i) <= rec(L) /\ rec(i) \in Nat
  BY <1>1, <1>2, <1>5
<1>7. ASSUME NEW i \in 1..L, p[i].op = "measure"
      PROVE  /\ Wire(p, n, i) \in 0..(N - 1) /\ Wire(p, n, i) \notin 0..(n - 1)
             /\ Wire(p, n, i) \in Free(p, n, i - 1)
             /\ \A w \in 0..(N - 1) : w \in Free(p, n, i) <=>
                                          w \in Free(p, n, i - 1) /\ w # Wire(p, n, i)
             /\ \A j \in 1..(i - 1) : p[j].op = "measure" => Wire(p, n, j) # Wire(p, n, i)
  <2>1. /\ rec(i) = rec(i - 1) + 1 /\ rec(i - 1) \in Nat /\ rec(i) \in Nat /\ rec(i) <= rec(L)
        /\ rec(L) \in Nat
    BY <1>2, <1>4, <1>5, <1>6, <1>7
  <2>2. Wire(p, n, i) = n + rec(i) - 1
    BY DEF Wire, rec
  <2>3. Wire(p, n, i) \in 0..(N - 1) /\ Wire(p, n, i) \notin 0..(n - 1)
    BY <1>1, <2>1, <2>2, SMTT(30)
  <2>4. Wire(p, n, i) = n + rec(i - 1) /\ Wire(p, n, i) \in Nat
    BY <1>1, <2>1, <2>2, SMTT(30)
  <2>5. Wire(p, n, i) \in Free(p, n, i - 1)
    BY <1>1, <2>1, <2>4 DEF Free, rec
  <2>6. \A w \in 0..(N - 1) : w \in Free(p, n, i) <=> w \in Free(p, n, i - 1) /\ w # Wire(p, n, i)
    <3>1. \A w \in Nat : w >= n + rec(i) <=> w >= n + rec(i - 1) /\ w # n + rec(i - 1)
      BY <1>1, <2>1, SMTT(30)
    <3> QED BY <3>1, <2>4, <1>6 DEF Free, rec
  <2>7. ASSUME NEW j \in 1..(i - 1), p[j].op = "measure"
        PROVE  Wire(p, n, j) # Wire(p, n, i)
    <3>1. j \in 1..L /\ j # i /\ j \in 0..L
      BY <1>2
    <3>2. rec(j) # rec(i) /\ rec(j) \in Nat
      BY <3>1, <2>7, <1>3, <1>4, <1>6, <1>7
    <3>3. Wire(p, n, j) = n + rec(j) - 1
      BY DEF Wire, rec
    <3> QED BY <3>2, <3>3, <2>1, <2>2, <1>1, SMTT(30)
  <2> QED BY <2>3, <2>5, <2>6, <2>7
<1>8. \A i \in 1..L : p[i].op # "measure" => Free(p, n, i) = Free(p, n, i - 1)
  BY <1>2, <1>4 DEF Free, rec
<1>9. \A i \in 0..L : \A w \in 0..(n - 1) : w \notin Free(p, n, i)
  BY <1>1, <1>2 DEF Free, rec
<1>10. \A w \in 0..(N - 1) : w \in 0..(n - 1) \/ w \in Free(p, n, 0)
  BY <1>1, <1>2, <1>6 DEF Free, rec
<1>11. \A w \in 0..(N - 1) : w \notin Free(p, n, L)
  BY <1>1, <1>2, <1>5, <1>6 DEF Free, rec
<1>12. ASSUME NEW w \in 0..(N - 1), w \notin 0..(n - 1)
       PROVE  \E j \in 1..L : p[j].op = "measure" /\ Wire(p, n, j) = w
  <2>1. rec(L) \in Nat
    BY <1>2, <1>5
  <2>2. w - n + 1 \in 1..rec(L)
    BY <1>1, <1>6, <1>12, <2>1
  <2>3. PICK j \in 1..L : Measures(p[j]) /\ rec(j) = w - n + 1
    BY <2>2, <1>3
  <2>4. Wire(p, n, j) = w
    BY <2>3, <1>1, <1>6 DEF Wire, rec
  <2> QED BY <2>3, <2>4, <1>4
<1>13. 0..(n - 1) \subseteq 0..(N - 1)
  BY <1>1, <1>5, <1>6
<1> QED BY <1>1, <1>2, <1>6, <1>7, <1>8, <1>9, <1>10, <1>11, <1>12, <1>13 DEF L

\* The outcomes that can be seen after some instruction: what was measured
\* still stands on the measured wire, and the other wires are not used yet.
Copied(p, n, N, i) ==
    {b \in Bits(N) :
        /\ \A j \in 1..i : p[j].op = "measure" => b[Wire(p, n, j)] = b[MeasureOf(p, j)]
        /\ \A w \in 0..(N - 1) : w \in Free(p, n, i) => b[w] = 0}

\* A measurement is of a wire of the program, which no later gate moves.
LEMMA MeasuredWires ==
    ASSUME NEW n, NEW N, NEW p, Setting(p, n, N), NEW i \in 1..Len(p)
    PROVE  /\ p[i].op = "measure" => MeasureOf(p, i) \in 0..(n - 1)
           /\ IsGate(p[i]) => /\ GateOf(p[i]) \in Proper(0..(n - 1))
                              /\ GateOf(p[i]).on = p[i].on
                              /\ ToSet(p[i].on) \subseteq 0..(n - 1)
<1>1. p[i] \in Elementary(0..(n - 1))
  BY ElementOfSeq DEF Setting
<1>2. /\ IsGate(p[i]) => GateOf(p[i]) \in Proper(0..(n - 1)) /\ GateOf(p[i]).on = p[i].on
      /\ p[i].op = "measure" => p[i].on[1] \in 0..(n - 1)
  BY <1>1, ElementaryShape
<1>3. ASSUME IsGate(p[i]) PROVE ToSet(p[i].on) \subseteq 0..(n - 1)
  <2> DEFINE W == 0..(n - 1)
             g == GateOf(p[i])
  <2>1. g \in Proper(W) /\ g.on = p[i].on
    BY <1>2, <1>3
  <2> HIDE DEF W, g
  <2>2. ToSet(g.on) \subseteq W
    BY <2>1, ProperNames
  <2> QED BY <2>1, <2>2 DEF W
<1> QED BY <1>2, <1>3 DEF MeasureOf

\* Whether an outcome can be seen depends on what is measured, not on the wires a
\* gate moves.
LEMMA CopiedIgnores ==
    ASSUME NEW n, NEW N, NEW p, Setting(p, n, N), NEW i \in 1..Len(p),
           IsGate(p[i]), ~IsIdentity(GateOf(p[i]))
    PROVE  Ignores(Copied(p, n, N, i - 1), N, ToSet(p[i].on))
<1> DEFINE V == ToSet(p[i].on)
<1>1. V \subseteq 0..(n - 1)
  BY MeasuredWires
<1>2. /\ 0..(n - 1) \subseteq 0..(N - 1) /\ Len(p) \in Nat
      /\ \A j \in 1..Len(p) : p[j].op = "measure" =>
             Wire(p, n, j) \in 0..(N - 1) /\ Wire(p, n, j) \notin 0..(n - 1)
      /\ \A w \in 0..(n - 1) : w \notin Free(p, n, i - 1)
  <2>1. i - 1 \in 0..Len(p)
    BY WiresAre
  <2> QED BY <2>1, WiresAre, SMTT(30)
<1>3. \A j \in 1..(i - 1) : j \in 1..Len(p) /\ j < i
  BY <1>2
<1>4. \A j \in 1..(i - 1) : p[j].op = "measure" => MeasureOf(p, j) \notin V /\ MeasureOf(p, j) \in 0..(n - 1)
  BY <1>3, MeasuredWires DEF Setting, Settled
<1> HIDE DEF V
<1>5. ASSUME NEW b \in Bits(N), NEW d \in Bits(N), \A w \in 0..(N - 1) : w \notin V => b[w] = d[w],
             b \in Copied(p, n, N, i - 1)
      PROVE  d \in Copied(p, n, N, i - 1)
  <2>1. ASSUME NEW j \in 1..(i - 1), p[j].op = "measure"
        PROVE  d[Wire(p, n, j)] = d[MeasureOf(p, j)]
    <3>1. b[Wire(p, n, j)] = b[MeasureOf(p, j)]
      BY <1>5, <2>1 DEF Copied
    <3>2. Wire(p, n, j) \in 0..(N - 1) /\ Wire(p, n, j) \notin V
      BY <1>1, <1>2, <1>3, <2>1
    <3>3. MeasureOf(p, j) \in 0..(N - 1) /\ MeasureOf(p, j) \notin V
      BY <1>2, <1>4, <2>1
    <3> QED BY <3>1, <3>2, <3>3, <1>5
  <2>2. ASSUME NEW w \in 0..(N - 1), w \in Free(p, n, i - 1) PROVE d[w] = 0
    <3>1. w \notin V
      BY <1>1, <1>2, <2>2
    <3>2. b[w] = 0
      BY <1>5, <2>2 DEF Copied
    <3> QED BY <3>1, <3>2, <1>5
  <2> QED BY <2>1, <2>2 DEF Copied
<1>6. ASSUME NEW b \in Bits(N), NEW d \in Bits(N), \A w \in 0..(N - 1) : w \notin V => b[w] = d[w]
      PROVE  b \in Copied(p, n, N, i - 1) <=> d \in Copied(p, n, N, i - 1)
  <2>1. \A w \in 0..(N - 1) : w \notin V => d[w] = b[w]
    BY <1>6
  <2> QED BY <2>1, <1>5, <1>6
<1> QED BY <1>6 DEF Ignores, V

\* An instruction that measures nothing leaves the outcomes that can be seen.
LEMMA CopiedStays ==
    ASSUME NEW n, NEW N, NEW p, Setting(p, n, N), NEW i \in 1..Len(p), p[i].op # "measure"
    PROVE  Copied(p, n, N, i) = Copied(p, n, N, i - 1)
<1>1. Free(p, n, i) = Free(p, n, i - 1) /\ Len(p) \in Nat
  BY WiresAre
<1>2. 1..i = (1..(i - 1)) \union {i}
  BY <1>1
<1> QED BY <1>1, <1>2 DEF Copied

\* A measurement halves them: its fresh wire repeats the measured one.
LEMMA CopiedMeasure ==
    ASSUME NEW n, NEW N, NEW p, Setting(p, n, N), NEW i \in 1..Len(p), p[i].op = "measure",
           NEW b \in Bits(N)
    PROVE  b \in Copied(p, n, N, i) <=>
               Permuted(Gate("CNOT", <<MeasureOf(p, i), Wire(p, n, i)>>), b) \in Copied(p, n, N, i - 1)
<1> DEFINE q == MeasureOf(p, i)
           r == Wire(p, n, i)
           g == Gate("CNOT", <<q, r>>)
           d == Permuted(g, b)
<1>1. /\ r \in 0..(N - 1) /\ r \notin 0..(n - 1) /\ r \in Free(p, n, i - 1)
      /\ \A w \in 0..(N - 1) : w \in Free(p, n, i) <=> w \in Free(p, n, i - 1) /\ w # r
      /\ \A j \in 1..(i - 1) : p[j].op = "measure" => Wire(p, n, j) # r
  BY WiresAre
<1>2. q \in 0..(n - 1) /\ q \in 0..(N - 1)
  BY MeasuredWires, WiresAre
<1>3. \A j \in 1..(i - 1) : p[j].op = "measure" =>
          /\ Wire(p, n, j) \in 0..(N - 1) /\ MeasureOf(p, j) \in 0..(N - 1) /\ MeasureOf(p, j) # r
  <2>1. \A j \in 1..(i - 1) : j \in 1..Len(p)
    BY WiresAre
  <2>2. \A j \in 1..(i - 1) : p[j].op = "measure" =>
            Wire(p, n, j) \in 0..(N - 1) /\ MeasureOf(p, j) \in 0..(n - 1)
    BY <2>1, WiresAre, MeasuredWires, ZenonT(30)
  <2>3. 0..(n - 1) \subseteq 0..(N - 1)
    BY WiresAre
  <2> QED BY <2>2, <2>3, <1>1
<1>4. 1..i = (1..(i - 1)) \union {i}
  BY WiresAre
<1> HIDE DEF q, r
<1>5. q # r
  BY <1>1, <1>2
<1>6. g \in Proper(0..(N - 1)) /\ g.name = "CNOT" /\ g.on[1] = q /\ g.on[2] = r
  <2> DEFINE W == 0..(N - 1)
  <2>1. q \in W /\ r \in W
    BY <1>1, <1>2
  <2> HIDE DEF W
  <2>2. g \in Proper(W) /\ g.name = "CNOT" /\ g.on[1] = q /\ g.on[2] = r
    BY <2>1, <1>5, CnotGates
  <2> QED BY <2>2 DEF W
<1> HIDE DEF g
<1>7. /\ d \in Bits(N)
      /\ d[r] = IF b[q] = 1 THEN 1 - b[r] ELSE b[r]
      /\ \A w \in 0..(N - 1) : w # r => d[w] = b[w]
  BY <1>6, CnotBits
<1> HIDE DEF d
<1>8. b[q] \in {0, 1} /\ b[r] \in {0, 1}
  BY <1>1, <1>2 DEF Bits
<1>9. d[r] = 0 <=> b[r] = b[q]
  BY <1>7, <1>8
<1>10. (\A w \in 0..(N - 1) : w \in Free(p, n, i - 1) => d[w] = 0) <=>
           /\ b[r] = b[q]
           /\ \A w \in 0..(N - 1) : w \in Free(p, n, i) => b[w] = 0
  BY <1>1, <1>7, <1>9
<1>11. ASSUME NEW j \in 1..(i - 1), p[j].op = "measure"
       PROVE  d[Wire(p, n, j)] = d[MeasureOf(p, j)] <=> b[Wire(p, n, j)] = b[MeasureOf(p, j)]
  <2>1. d[Wire(p, n, j)] = b[Wire(p, n, j)]
    BY <1>1, <1>3, <1>7, <1>11
  <2>2. d[MeasureOf(p, j)] = b[MeasureOf(p, j)]
    BY <1>3, <1>7, <1>11
  <2> QED BY <2>1, <2>2
<1>12. b \in Copied(p, n, N, i) <=>
           /\ \A j \in 1..(i - 1) : p[j].op = "measure" => b[Wire(p, n, j)] = b[MeasureOf(p, j)]
           /\ b[r] = b[q]
           /\ \A w \in 0..(N - 1) : w \in Free(p, n, i) => b[w] = 0
  BY <1>4 DEF Copied, q, r
<1>13. d \in Copied(p, n, N, i - 1) <=>
           /\ \A j \in 1..(i - 1) : p[j].op = "measure" => d[Wire(p, n, j)] = d[MeasureOf(p, j)]
           /\ \A w \in 0..(N - 1) : w \in Free(p, n, i - 1) => d[w] = 0
  BY <1>7 DEF Copied
<1> QED BY <1>10, <1>11, <1>12, <1>13 DEF d, g, q, r

\* The gates that simulate one instruction.
Block(p, n, i) ==
    CASE p[i].op = "gate" -> <<GateOf(p[i])>>
      [] p[i].op = "modified" -> <<Gate("CNOT", p[i].on)>>
      [] p[i].op = "measure" -> <<Gate("CNOT", <<MeasureOf(p, i), n + Records(p, i) - 1>>)>>
      [] p[i].op = "reset" -> <<Gate("SWAP", <<p[i].on[1], n + Records(p, i) - 1>>)>>
      [] p[i].op = "conditioned" ->
            LET written == LastMeasure(p, i, p[i].reads)
            IN  IF written = {} THEN <<>>
                ELSE <<Gate("CNOT", <<n + Records(p, Max(written)) - 1, p[i].on[1]>>)>>
      [] OTHER -> <<>>

Simulated(p, n) == [i \in DOMAIN p |-> Block(p, n, i)]

LEMMA DeferredIs == \A p, n : Deferred(p, n) = FlattenSeq(Simulated(p, n))
BY Zenon DEF Deferred, Simulated, Block

\* What one instruction is simulated by.
LEMMA Blocks ==
    ASSUME NEW n, NEW N, NEW p, Setting(p, n, N), NEW i \in 1..Len(p)
    PROVE  /\ IsGate(p[i]) \/ p[i].op = "measure" \/ p[i].op \in {"barrier", "declare"}
           /\ IsGate(p[i]) => /\ Block(p, n, i) = <<GateOf(p[i])>>
                              /\ GateOf(p[i]) \in Proper(0..(n - 1))
                              /\ GateOf(p[i]) \in Proper(0..(N - 1))
           /\ p[i].op = "measure" =>
                  /\ Block(p, n, i) = <<Gate("CNOT", <<MeasureOf(p, i), Wire(p, n, i)>>)>>
                  /\ Gate("CNOT", <<MeasureOf(p, i), Wire(p, n, i)>>) \in Proper(0..(N - 1))
           /\ p[i].op \in {"barrier", "declare"} => Block(p, n, i) = <<>>
<1> DEFINE W == 0..(N - 1)
           V == 0..(n - 1)
<1>1. p[i].op \in {"gate", "measure", "barrier", "declare"}
  BY DEF Setting, Quiet
<1>2. V \subseteq W
  BY WiresAre
<1>3. ASSUME IsGate(p[i])
      PROVE  /\ Block(p, n, i) = <<GateOf(p[i])>>
             /\ GateOf(p[i]) \in Proper(V) /\ GateOf(p[i]) \in Proper(W)
  <2>1. Block(p, n, i) = <<GateOf(p[i])>>
    BY <1>3 DEF IsGate, Block
  <2>2. GateOf(p[i]) \in Proper(V)
    BY <1>3, MeasuredWires
  <2> HIDE DEF V, W
  <2>3. ToSet(GateOf(p[i]).on) \subseteq W
    BY <2>2, <1>2, ProperNames
  <2> QED BY <2>1, <2>2, <2>3, ProperOnNames
<1>4. ASSUME p[i].op = "measure"
      PROVE  /\ Block(p, n, i) = <<Gate("CNOT", <<MeasureOf(p, i), Wire(p, n, i)>>)>>
             /\ Gate("CNOT", <<MeasureOf(p, i), Wire(p, n, i)>>) \in Proper(W)
  <2>1. Block(p, n, i) = <<Gate("CNOT", <<MeasureOf(p, i), Wire(p, n, i)>>)>>
    BY <1>4 DEF Block, Wire
  <2>2. MeasureOf(p, i) \in V /\ Wire(p, n, i) \in W /\ Wire(p, n, i) \notin V
    BY <1>4, MeasuredWires, WiresAre
  <2> HIDE DEF V, W
  <2> QED BY <2>1, <2>2, <1>2, CnotGates
<1>5. ASSUME p[i].op \in {"barrier", "declare"} PROVE Block(p, n, i) = <<>>
  BY <1>5 DEF Block
<1> QED BY <1>1, <1>3, <1>4, <1>5 DEF IsGate

\* The program simulated, with what it measured kept on wires of their own.
LEMMA DeferredFollows ==
    ASSUME NEW n, NEW N, NEW p, Setting(p, n, N)
    PROVE  /\ Deferred(p, n) \in Seq(Proper(0..(N - 1)))
           /\ GatesOf(p) \in Seq(Proper(0..(n - 1)))
           /\ Amplitudes(Deferred(p, n), N) \in Amps(N)
           /\ Amplitudes(GatesOf(p), n) \in Amps(n)
           /\ Follows(Amplitudes(Deferred(p, n), N), Amplitudes(GatesOf(p), n), n, N,
                      Copied(p, n, N, Len(p)))
<1> DEFINE L == Len(p)
           E == Elementary(0..(n - 1))
           G == Proper(0..(N - 1))
           bs == Simulated(p, n)
           M(i) == Copied(p, n, N, i)
<1>1. /\ L \in Nat /\ p \in Seq(E) /\ DOMAIN p = 1..L /\ n \in Nat /\ N \in Nat
      /\ 0..(n - 1) \subseteq 0..(N - 1)
  BY WiresAre, LenProperties DEF Setting
<1>2. \A w \in E : IsGate(w) => GateOf(w) \in Proper(0..(n - 1))
  BY ElementaryShape
<1> HIDE DEF E, L
<1>3. \A i \in 1..L : bs[i] = Block(p, n, i)
  BY <1>1 DEF Simulated
<1>4. bs \in Seq(Seq(G)) /\ Len(bs) = L
  <2>1. ASSUME NEW i \in 1..L PROVE bs[i] \in Seq(G)
    <3> DEFINE g == GateOf(p[i])
               k == Gate("CNOT", <<MeasureOf(p, i), Wire(p, n, i)>>)
    <3>1. /\ IsGate(p[i]) \/ p[i].op = "measure" \/ p[i].op \in {"barrier", "declare"}
          /\ IsGate(p[i]) => Block(p, n, i) = <<g>> /\ g \in G
          /\ p[i].op = "measure" => Block(p, n, i) = <<k>> /\ k \in G
          /\ p[i].op \in {"barrier", "declare"} => Block(p, n, i) = <<>>
      BY Blocks DEF L
    <3> HIDE DEF g, k, G
    <3>2. <<>> \in Seq(G)
      BY EmptySeq
    <3>3. bs[i] = Block(p, n, i)
      BY <1>3
    <3> HIDE DEF bs
    <3>4. CASE IsGate(p[i])
      <4>1. bs[i] = <<g>> /\ g \in G
        BY <3>1, <3>3, <3>4
      <4> QED BY <4>1
    <3>5. CASE p[i].op = "measure"
      <4>1. bs[i] = <<k>> /\ k \in G
        BY <3>1, <3>3, <3>5
      <4> QED BY <4>1
    <3>6. CASE p[i].op \in {"barrier", "declare"}
      <4>1. bs[i] = <<>>
        BY <3>1, <3>3, <3>6
      <4> QED BY <4>1, <3>2
    <3> QED BY <3>1, <3>4, <3>5, <3>6
  <2>2. DOMAIN bs = 1..L /\ bs = [i \in 1..L |-> bs[i]]
    BY <1>1 DEF Simulated
  <2> HIDE DEF bs, G
  <2>3. bs \in [1..L -> Seq(G)]
    BY <2>1, <2>2
  <2> QED BY <2>3, <1>1, FunctionIsSeq
<1>5. Deferred(p, n) = FlattenSeq(bs)
  BY DeferredIs
<1>6. GatesOf(p) \in Seq(Proper(0..(n - 1)))
  BY <1>1, <1>2, GatesOfType
<1>7. PICK a : Stepped(a, Ground(n), p) /\ Runs(Ground(n), GatesOf(p)) = a[L]
  BY <1>1, <1>2, GatesOfRuns DEF L
<1>8. PICK A : /\ A[0] = Ground(N)
               /\ \A i \in 1..L : A[i] = Runs(A[i - 1], bs[i])
               /\ Runs(Ground(N), FlattenSeq(bs)) = A[L]
  <2> HIDE DEF bs, G
  <2>1. PICK A : /\ A[0] = Ground(N)
                 /\ \A i \in 1..Len(bs) : A[i] = Runs(A[i - 1], bs[i])
                 /\ Runs(Ground(N), FlattenSeq(bs)) = A[Len(bs)]
    BY <1>4, RunBlocks
  <2> QED BY <2>1, <1>4
<1> HIDE DEF bs
<1> DEFINE S == {i \in 0..L : a[i] \in Amps(n) /\ A[i] \in Amps(N) /\ Follows(A[i], a[i], n, N, M(i))}
<1>9. 0 \in S
  <2>1. a[0] = Ground(n) /\ A[0] = Ground(N) /\ Ground(n) \in Amps(n) /\ Ground(N) \in Amps(N)
    BY <1>7, <1>8, GroundType DEF Stepped
  <2>2. ASSUME NEW b \in Bits(N)
        PROVE  Ground(N)[b] = IF b \in M(0) THEN Ground(n)[Low(b, n)] ELSE 0
    <3>1. Low(b, n) \in Bits(n) /\ \A q \in 0..(n - 1) : Low(b, n)[q] = b[q]
      BY <1>1, LowBits
    <3>2. DOMAIN b = 0..(N - 1) /\ DOMAIN Low(b, n) = 0..(n - 1)
      BY <3>1 DEF Bits
    <3>3. b \in M(0) <=> \A w \in 0..(N - 1) : w \in Free(p, n, 0) => b[w] = 0
      BY DEF Copied
    <3>4. \A w \in 0..(N - 1) : w \in 0..(n - 1) \/ w \in Free(p, n, 0)
      BY WiresAre
    <3>5. \A w \in 0..(n - 1) : w \notin Free(p, n, 0)
      <4>1. 0 \in 0..Len(p)
        BY <1>1 DEF L
      <4> QED BY <4>1, WiresAre
    <3>6. Ground(N)[b] = IF \A q \in 0..(N - 1) : b[q] = 0 THEN 1 ELSE 0
      BY <3>2 DEF Ground
    <3>7. Ground(n)[Low(b, n)] = IF \A q \in 0..(n - 1) : Low(b, n)[q] = 0 THEN 1 ELSE 0
      BY <3>1, <3>2 DEF Ground
    <3>8. (\A q \in 0..(N - 1) : b[q] = 0) <=>
              b \in M(0) /\ \A q \in 0..(n - 1) : Low(b, n)[q] = 0
      <4>1. ASSUME \A q \in 0..(N - 1) : b[q] = 0
            PROVE  b \in M(0) /\ \A q \in 0..(n - 1) : Low(b, n)[q] = 0
        BY <4>1, <1>1, <3>1, <3>3
      <4>2. ASSUME b \in M(0), \A q \in 0..(n - 1) : Low(b, n)[q] = 0, NEW w \in 0..(N - 1)
            PROVE  b[w] = 0
        BY <4>2, <3>1, <3>3, <3>4
      <4> QED BY <4>1, <4>2
    <3> HIDE DEF M
    <3> QED BY <3>6, <3>7, <3>8
  <2>3. 0 \in 0..L
    BY <1>1
  <2> QED BY <2>1, <2>2, <2>3 DEF Follows
<1>10. ASSUME NEW m \in 0..(L - 1), m \in S PROVE m + 1 \in S
  <2> DEFINE i == m + 1
             x == a[m]
             X == A[m]
  <2>1. i \in 1..L /\ i \in 0..L /\ i - 1 = m
    BY <1>1
  <2>2. x \in Amps(n) /\ X \in Amps(N) /\ Follows(X, x, n, N, M(m))
    BY <1>10
  <2>3. A[i] = Runs(X, Block(p, n, i))
    BY <1>3, <1>8, <2>1
  <2>4. a[i] = IF IsGate(p[i]) THEN Evolve(x, GateOf(p[i])) ELSE x
    BY <1>7, <2>1 DEF Stepped, L
  <2> HIDE DEF i, x, X, M, G
  <2>5. ASSUME IsGate(p[i]) PROVE a[i] \in Amps(n) /\ A[i] \in Amps(N) /\ Follows(A[i], a[i], n, N, M(i))
    <3> DEFINE g == GateOf(p[i])
    <3>1. Block(p, n, i) = <<g>> /\ g \in Proper(0..(n - 1)) /\ g \in Proper(0..(N - 1))
      BY <2>1, <2>5, Blocks DEF L
    <3>2. g.on = p[i].on
      BY <2>1, <2>5, MeasuredWires DEF L
    <3>3. M(i) = M(m)
      BY <2>1, <2>5, CopiedStays DEF L, M, IsGate
    <3> HIDE DEF g
    <3>4. A[i] = Evolve(X, g) /\ a[i] = Evolve(x, g)
      BY <2>3, <2>4, <2>5, <3>1, RunGate DEF g
    <3>5. Evolve(X, g) \in Amps(N) /\ Evolve(x, g) \in Amps(n)
      BY <2>2, <3>1, EvolveType
    <3>6. CASE IsIdentity(g)
      <4>1. Evolve(X, g) = X /\ Evolve(x, g) = x
        BY <2>2, <3>6, EvolveIdentity
      <4> QED BY <4>1, <2>2, <3>3, <3>4
    <3>7. CASE ~IsIdentity(g)
      <4>1. Ignores(M(m), N, ToSet(g.on))
        BY <2>1, <2>5, <3>2, <3>7, CopiedIgnores DEF L, M, g
      <4>2. Follows(Evolve(X, g), Evolve(x, g), n, N, M(m))
        BY <1>1, <2>2, <3>1, <4>1, FollowsGate
      <4> QED BY <4>2, <3>3, <3>4, <3>5
    <3> QED BY <3>6, <3>7
  <2>6. ASSUME p[i].op = "measure"
        PROVE  a[i] \in Amps(n) /\ A[i] \in Amps(N) /\ Follows(A[i], a[i], n, N, M(i))
    <3> DEFINE q == MeasureOf(p, i)
               r == Wire(p, n, i)
               g == Gate("CNOT", <<q, r>>)
    <3>1. Block(p, n, i) = <<g>> /\ g \in Proper(0..(N - 1))
      BY <2>1, <2>6, Blocks DEF L
    <3>2. q \in 0..(n - 1) /\ r \in 0..(N - 1) /\ r \notin 0..(n - 1)
      BY <2>1, <2>6, MeasuredWires, WiresAre DEF L
    <3>3. \A b \in Bits(N) : b \in M(i) <=> Permuted(g, b) \in M(m)
      BY <2>1, <2>6, CopiedMeasure DEF L, M
    <3>4. ~IsGate(p[i])
      BY <2>6 DEF IsGate
    <3> HIDE DEF q, r
    <3>5. Follows(Evolve(X, g), x, n, N, M(i))
      BY <1>1, <2>2, <3>2, <3>3, FollowsMeasure
    <3> HIDE DEF g
    <3>6. A[i] = Evolve(X, g) /\ a[i] = x
      BY <2>3, <2>4, <3>1, <3>4, RunGate
    <3>7. Evolve(X, g) \in Amps(N)
      BY <2>2, <3>1, EvolveType
    <3> QED BY <2>2, <3>5, <3>6, <3>7
  <2>7. ASSUME p[i].op \in {"barrier", "declare"}
        PROVE  a[i] \in Amps(n) /\ A[i] \in Amps(N) /\ Follows(A[i], a[i], n, N, M(i))
    <3>1. Block(p, n, i) = <<>>
      BY <2>1, <2>7, Blocks DEF L
    <3>2. M(i) = M(m)
      BY <2>1, <2>7, CopiedStays DEF L, M
    <3>3. A[i] = X
      BY <2>3, <3>1, RunNothing
    <3>4. a[i] = x
      BY <2>4, <2>7 DEF IsGate
    <3> QED BY <2>2, <3>2, <3>3, <3>4
  <2>8. IsGate(p[i]) \/ p[i].op = "measure" \/ p[i].op \in {"barrier", "declare"}
    BY <2>1, Blocks DEF L
  <2>9. i \in S
    BY <2>1, <2>5, <2>6, <2>7, <2>8
  <2> QED BY <2>9 DEF i
<1>11. a[L] \in Amps(n) /\ A[L] \in Amps(N) /\ Follows(A[L], a[L], n, N, M(L))
  <2> HIDE DEF S
  <2>1. \A i \in 0..L : i \in S
    BY <1>1, <1>9, <1>10, BoundedInduction
  <2>2. L \in 0..L
    BY <1>1
  <2> HIDE DEF M
  <2> QED BY <2>1, <2>2 DEF S
<1>12. Deferred(p, n) \in Seq(G)
  <2> HIDE DEF G
  <2> QED BY <1>4, <1>5, FlattenType
<1> QED BY <1>5, <1>6, <1>7, <1>8, <1>11, <1>12 DEF Amplitudes, L, M

\* Measurements of different positions write different wires.
LEMMA WireOnce ==
    ASSUME NEW n, NEW N, NEW p, Setting(p, n, N), NEW i \in 1..Len(p), NEW j \in 1..Len(p),
           p[i].op = "measure", p[j].op = "measure", Wire(p, n, i) = Wire(p, n, j)
    PROVE  i = j
<1>1. Len(p) \in Nat
  BY WiresAre
<1>2. ~(j < i)
  <2>1. ASSUME j < i PROVE FALSE
    <3>1. j \in 1..(i - 1)
      BY <1>1, <2>1
    <3> QED BY <3>1, WiresAre, SMTT(30)
  <2> QED BY <2>1
<1>3. ~(i < j)
  <2>1. ASSUME i < j PROVE FALSE
    <3>1. i \in 1..(j - 1)
      BY <1>1, <2>1
    <3> QED BY <3>1, WiresAre, SMTT(30)
  <2> QED BY <2>1
<1> QED BY <1>1, <1>2, <1>3

\* An outcome of the program is one outcome of its simulation.
LEMMA OneOutcome ==
    ASSUME NEW n, NEW N, NEW p, Setting(p, n, N)
    PROVE  /\ \A b, d \in Copied(p, n, N, Len(p)) : Low(b, n) = Low(d, n) => b = d
           /\ \A b \in Bits(n) : \E e \in Copied(p, n, N, Len(p)) : Low(e, n) = b
<1> DEFINE L == Len(p)
           V == 0..(n - 1)
           W == 0..(N - 1)
           K == {j \in 1..L : p[j].op = "measure"}
<1>1. /\ V \subseteq W
      /\ \A j \in K : Wire(p, n, j) \in W /\ Wire(p, n, j) \notin V
      /\ \A w \in W : w \notin Free(p, n, L)
      /\ \A w \in W : w \notin V => \E j \in K : Wire(p, n, j) = w
  BY WiresAre
<1>2. \A j \in K : MeasureOf(p, j) \in V
  BY MeasuredWires
<1>3. \A b : b \in Copied(p, n, N, L) <=>
                 b \in Bits(N) /\ \A j \in K : b[Wire(p, n, j)] = b[MeasureOf(p, j)]
  BY <1>1 DEF Copied
<1>4. \A i, j \in K : Wire(p, n, i) = Wire(p, n, j) => i = j
  BY WireOnce
<1>5. \A b \in Bits(N) : Low(b, n) \in Bits(n) /\ \A q \in V : Low(b, n)[q] = b[q]
  <2>1. 0..(n - 1) \subseteq 0..(N - 1)
    BY WiresAre
  <2> QED BY <2>1, LowBits
<1> HIDE DEF L, V, W, K
<1>6. ASSUME NEW b \in Copied(p, n, N, L), NEW d \in Copied(p, n, N, L), Low(b, n) = Low(d, n)
      PROVE  b = d
  <2>1. b \in Bits(N) /\ d \in Bits(N)
    BY <1>3
  <2>2. \A q \in V : b[q] = d[q]
    BY <2>1, <1>5, <1>6
  <2>3. ASSUME NEW w \in W PROVE b[w] = d[w]
    <3>1. CASE w \in V
      BY <2>2, <3>1
    <3>2. CASE w \notin V
      <4>1. PICK j \in K : Wire(p, n, j) = w
        BY <1>1, <3>2
      <4>2. b[w] = b[MeasureOf(p, j)] /\ d[w] = d[MeasureOf(p, j)]
        BY <4>1, <1>3
      <4> QED BY <4>2, <1>2, <2>2
    <3> QED BY <3>1, <3>2
  <2> QED BY <2>1, <2>3, BitsEqual DEF W
<1>7. ASSUME NEW b \in Bits(n) PROVE \E e \in Copied(p, n, N, L) : Low(e, n) = b
  <2> DEFINE of(w) == CHOOSE j \in K : Wire(p, n, j) = w
             e == [w \in W |-> IF w \in V THEN b[w] ELSE b[MeasureOf(p, of(w))]]
  <2>1. \A w \in W : w \notin V => of(w) \in K /\ Wire(p, n, of(w)) = w
    BY <1>1
  <2>2. \A q \in V : b[q] \in {0, 1}
    BY DEF Bits, V
  <2>3. /\ \A w \in V : e[w] = b[w]
        /\ \A w \in W : w \notin V => e[w] = b[MeasureOf(p, of(w))]
    BY <1>1
  <2>4. e = [w \in W |-> e[w]]
    OBVIOUS
  <2> HIDE DEF e, of
  <2>5. \A w \in W : e[w] \in {0, 1}
    <3> TAKE w \in W
    <3>1. CASE w \in V
      BY <2>2, <2>3, <3>1
    <3>2. CASE w \notin V
      BY <1>2, <2>1, <2>2, <2>3, <3>2
    <3> QED BY <3>1, <3>2
  <2>6. e \in Bits(N)
    <3>1. e \in [W -> {0, 1}]
      BY <2>4, <2>5
    <3> QED BY <3>1 DEF Bits, W
  <2>7. ASSUME NEW j \in K PROVE e[Wire(p, n, j)] = e[MeasureOf(p, j)]
    <3>1. Wire(p, n, j) \in W /\ Wire(p, n, j) \notin V
      BY <1>1
    <3>2. of(Wire(p, n, j)) = j
      BY <1>4, <2>1, <3>1
    <3> QED BY <1>2, <2>3, <3>1, <3>2
  <2>8. e \in Copied(p, n, N, L)
    BY <1>3, <2>6, <2>7
  <2>9. Low(e, n) = b
    <3>1. Low(e, n) \in Bits(n) /\ \A q \in V : Low(e, n)[q] = b[q]
      BY <1>5, <2>3, <2>6
    <3> QED BY <3>1, BitsEqual DEF V
  <2> QED BY <2>8, <2>9
<1> QED BY <1>6, <1>7 DEF L

\* A program that only measures and computes has the counts of its gates.
LEMMA SimulationCounts ==
    ASSUME NEW n, NEW N, NEW p, Setting(p, n, N)
    PROVE  Counts(GatesOf(p), n, Register(n)) = Counts(Deferred(p, n), N, Register(n))
<1> DEFINE c == GatesOf(p)
           d == Deferred(p, n)
           a == Amplitudes(c, n)
           A == Amplitudes(d, N)
           M == Copied(p, n, N, Len(p))
           R == Register(n)
<1>1. c \in Seq(Proper(0..(n - 1))) /\ d \in Seq(Proper(0..(N - 1)))
  BY DeferredFollows
<1>2. Follows(A, a, n, N, M)
  BY DeferredFollows
<1>3. M \subseteq Bits(N)
  BY DEF Copied
<1>4. /\ \A b, e \in M : Low(b, n) = Low(e, n) => b = e
      /\ \A b \in Bits(n) : \E e \in M : Low(e, n) = b
  BY OneOutcome
<1>5. n \in Nat
  BY WiresAre
<1>6. /\ \A b : KeyOf(b, R) = Word(b, n)
      /\ \A b, e \in Bits(n) : Word(b, n) = Word(e, n) => b = e
      /\ Apart(a, n, R)
  BY <1>5, RegisterKeys
<1>7. \A b \in Bits(N) : Low(b, n) \in Bits(n) /\ \A q \in 0..(n - 1) : Low(b, n)[q] = b[q]
  <2>1. 0..(n - 1) \subseteq 0..(N - 1)
    BY WiresAre
  <2> QED BY <2>1, LowBits
<1>8. ASSUME NEW b \in Bits(N) PROVE Word(Low(b, n), n) = Word(b, n)
  <2>1. \A i \in 1..n : i - 1 \in 0..(n - 1)
    BY <1>5
  <2>2. \A i \in 1..n : Low(b, n)[i - 1] = b[i - 1]
    BY <2>1, <1>7
  <2> QED BY <2>2 DEF Word
<1> HIDE DEF c, d, a, A, M, R
<1>9. \A b \in Bits(N) : A[b] = IF b \in M THEN a[Low(b, n)] ELSE 0
  BY <1>2 DEF Follows
<1>10. Apart(A, N, R)
  <2>1. ASSUME NEW b \in Seen(A, N), NEW e \in Seen(A, N), KeyOf(b, R) = KeyOf(e, R) PROVE b = e
    <3>1. b \in Bits(N) /\ e \in Bits(N) /\ A[b] # 0 /\ A[e] # 0
      BY DEF Seen
    <3>2. b \in M /\ e \in M
      BY <3>1, <1>9
    <3>3. Word(Low(b, n), n) = Word(Low(e, n), n)
      BY <2>1, <3>1, <1>6, <1>8
    <3>4. Low(b, n) = Low(e, n)
      BY <3>1, <3>3, <1>6, <1>7
    <3> QED BY <3>2, <3>4, <1>4
  <2> QED BY <2>1 DEF Apart
<1>11. ASSUME NEW b \in Seen(a, n)
       PROVE  \E e \in Seen(A, N) : KeyOf(b, R) = KeyOf(e, R) /\ a[b] = A[e]
  <2>1. b \in Bits(n) /\ a[b] # 0
    BY DEF Seen
  <2>2. PICK e \in M : Low(e, n) = b
    BY <2>1, <1>4
  <2>3. e \in Bits(N) /\ A[e] = a[b]
    BY <2>2, <1>3, <1>9
  <2>4. e \in Seen(A, N)
    BY <2>1, <2>3 DEF Seen
  <2>5. KeyOf(b, R) = KeyOf(e, R)
    BY <2>2, <2>3, <1>6, <1>8
  <2> QED BY <2>3, <2>4, <2>5
<1>12. ASSUME NEW e \in Seen(A, N) PROVE \E b \in Seen(a, n) : KeyOf(b, R) = KeyOf(e, R)
  <2>1. e \in Bits(N) /\ A[e] # 0
    BY DEF Seen
  <2>2. A[e] = a[Low(e, n)]
    BY <2>1, <1>9
  <2>3. Low(e, n) \in Seen(a, n)
    BY <2>1, <2>2, <1>7 DEF Seen
  <2>4. KeyOf(Low(e, n), R) = KeyOf(e, R)
    BY <2>1, <1>6, <1>8
  <2> QED BY <2>3, <2>4
<1>13. Counts(c, n, R) = Counts(d, N, R)
  BY <1>1, <1>6, <1>10, <1>11, <1>12, CountsSame DEF a, A
<1> QED BY <1>13 DEF c, d, R

\* An accepted program, imported: its counts, on its wires, are the program's.
LEMMA ImportIsFaithful ==
    ASSUME NEW n \in Nat, NEW p \in Seq(Elementary(0..(n - 1))), NEW framework \in Langs, Accepts(framework, p)
    PROVE  /\ Converted(framework, p) \in Circuit
           /\ NumQubits(Converted(framework, p)) = NumQubits(GatesOf(p))
           /\ Counts(Converted(framework, p), n, Register(n)) = ForeignCounts(p, n)
<1> DEFINE E == Elementary(0..(n - 1))
           N == n + Records(p, Len(p))
<1>1. \A w \in E : IsGate(w) => GateOf(w) \in Proper(0..(n - 1))
  BY ElementaryShape
<1>2. Quiet(p) /\ Settled(p)
  BY AcceptedPrograms
<1>3. Setting(p, n, N)
  BY <1>2 DEF Setting
<1>4. p \in Seq(E)
  OBVIOUS
<1> HIDE DEF E, N
<1>5. /\ Converted(framework, p) \in Circuit
      /\ NumQubits(Converted(framework, p)) = NumQubits(GatesOf(p))
      /\ Amplitudes(Converted(framework, p), n) = Amplitudes(GatesOf(p), n)
  BY <1>1, <1>4, ConvertedIs
<1>6. Counts(Converted(framework, p), n, Register(n)) = Counts(GatesOf(p), n, Register(n))
  BY <1>5, SameAmplitudes
<1>7. Counts(GatesOf(p), n, Register(n)) = Counts(Deferred(p, n), N, Register(n))
  BY <1>3, SimulationCounts
<1> QED BY <1>5, <1>6, <1>7 DEF ForeignCounts, N

---------------------------------------------------------------------------
(* The user.                                                               *)

\* An unrolled program is one of elementary instructions.
LEMMA FlatType ==
    ASSUME NEW l, NEW p \in Seq(Words(l))
    PROVE  Flat(p) \in Seq(Elementary(0..(WordWires - 1)))
<1> DEFINE E == Elementary(0..(WordWires - 1))
           body(i) == IF p[i].op = "repeated" THEN p[i].body \o p[i].body ELSE <<p[i]>>
           bodies == [i \in DOMAIN p |-> body(i)]
<1>1. Len(p) \in Nat /\ DOMAIN p = 1..Len(p) /\ \A i \in 1..Len(p) : p[i] \in Words(l)
  BY LenProperties
<1>2. \A w \in Instructions : \/ w.op # "repeated" /\ w \in E
                              \/ w.op = "repeated" /\ w.body \in Seq(E)
  BY WordsAssumption
<1> HIDE DEF E
<1>3. ASSUME NEW i \in 1..Len(p) PROVE body(i) \in Seq(E)
  <2>1. p[i] \in Instructions
    BY <1>1 DEF Words
  <2>2. CASE p[i].op # "repeated" /\ p[i] \in E
    BY <2>2
  <2>3. CASE p[i].op = "repeated" /\ p[i].body \in Seq(E)
    BY <2>3, ConcatProperties
  <2> QED BY <1>2, <2>1, <2>2, <2>3
<1> HIDE DEF body
<1>4. bodies \in Seq(Seq(E))
  BY <1>1, <1>3, FunctionIsSeq
<1>5. FlattenSeq(bodies) \in Seq(E)
  BY <1>4, FlattenType
<1> QED BY <1>5 DEF Flat, E, body

\* The user holds a circuit at every stage; it is the program's, converted,
\* from the import until the user goes on with it.
CircuitInv ==
    /\ lang \in Langs
    /\ program \in Seq(Words(lang))
    /\ circuit \in Circuit
    /\ stage = "imported" =>
         Accepts(lang, Flat(program)) /\ circuit = Converted(lang, Flat(program))

LEMMA CircuitInvariance == Spec => []CircuitInv
<1>1. Init => CircuitInv
  <2> SUFFICES ASSUME Init PROVE CircuitInv
    OBVIOUS
  <2>1. lang \in Langs /\ program \in Seq(Words(lang)) /\ stage # "imported"
    <3>1. CASE stage = "writing" /\ lang \in Langs /\ program \in Beginnings \intersect Seq(Words(lang))
      BY <3>1
    <3>2. CASE stage \in {"building", "allocating"} /\ lang = "braket" /\ program = <<>>
      BY <3>2, EmptySeq DEF Langs
    <3> QED BY <3>1, <3>2 DEF Init
  <2>2. circuit \in Circuit
    BY EmptySeq DEF Init, Circuit
  <2> QED BY <2>1, <2>2 DEF CircuitInv
<1>2. CircuitInv /\ [Next]_vars => CircuitInv'
  <2> SUFFICES ASSUME CircuitInv, [Next]_vars PROVE CircuitInv'
    OBVIOUS
  <2> USE DEF CircuitInv
  <2>1. CASE Write
    <3>1. PICK w \in Words(lang) : program' = Append(program, w)
      BY <2>1 DEF Write
    <3>2. Append(program, w) \in Seq(Words(lang))
      BY AppendProperties
    <3>3. stage = "writing" /\ UNCHANGED <<lang, circuit, stage>>
      BY <2>1 DEF Write
    <3> QED BY <3>1, <3>2, <3>3
  <2>2. CASE Import
    <3>1. stage = "writing" /\ UNCHANGED <<lang, program>>
      BY <2>2 DEF Import
    <3>2. CASE Accepts(lang, Flat(program))
      <4>1. circuit' = Converted(lang, Flat(program))
        BY <2>2, <3>2 DEF Import
      <4>2. WordWires \in Nat /\ Flat(program) \in Seq(Elementary(0..(WordWires - 1)))
        BY FlatType, WordsAssumption
      <4>3. Converted(lang, Flat(program)) \in Circuit
        BY <3>2, <4>2, ImportIsFaithful
      <4> QED BY <3>1, <3>2, <4>1, <4>3
    <3>3. CASE ~Accepts(lang, Flat(program))
      <4>1. stage' = "refused" /\ circuit' = circuit
        BY <2>2, <3>3 DEF Import
      <4> QED BY <3>1, <4>1
    <3> QED BY <3>2, <3>3
  <2>3. CASE Keep
    <3>1. stage' = "building" /\ lang' = "braket" /\ program' = <<>> /\ circuit' = circuit
      BY <2>3 DEF Keep
    <3> QED BY <3>1, EmptySeq DEF Langs
  <2>4. CASE \E g \in FluentGates : Apply(g)
    <3>1. PICK g \in FluentGates : Apply(g)
      BY <2>4
    <3>2. /\ stage = "building" /\ RequireDistinct(g.on)
          /\ circuit' = Append(circuit, g) /\ UNCHANGED <<lang, program, stage>>
      BY <3>1 DEF Apply
    <3>3. g \in Proper(Nat)
      BY <3>2, FluentAssumption DEF Proper
    <3>4. Append(circuit, g) \in Circuit
      BY <3>3, AppendProperties DEF Circuit
    <3> QED BY <3>2, <3>4
  <2>5. CASE UNCHANGED conversion
    BY <2>5 DEF conversion
  <2> QED BY <2>1, <2>2, <2>3, <2>4, <2>5 DEF Next, Allocate, Over, vars, conversion
<1> QED BY <1>1, <1>2, PTL DEF Spec

\* Every import, in every framework and of every program, computes what the
\* program computes: no gate is lost, no measurement is dropped that something
\* after it would have told apart, and the width stays.
THEOREM ImportsAlwaysFaithful == Spec => []ImportFaithful
<1>1. CircuitInv => ImportFaithful
  <2> SUFFICES ASSUME CircuitInv, stage = "imported"
               PROVE  /\ NumQubits(circuit) = NumQubits(GatesOf(Flat(program)))
                      /\ Counts(circuit, WordWires, Register(WordWires))
                           = ForeignCounts(Flat(program), WordWires)
    BY DEF ImportFaithful
  <2>1. WordWires \in Nat /\ Flat(program) \in Seq(Elementary(0..(WordWires - 1)))
    BY FlatType, WordsAssumption DEF CircuitInv
  <2>2. lang \in Langs /\ Accepts(lang, Flat(program)) /\ circuit = Converted(lang, Flat(program))
    BY DEF CircuitInv
  <2> QED BY <2>1, <2>2, ImportIsFaithful
<1> QED BY <1>1, CircuitInvariance, PTL

\* Whatever circuit the user holds, of any width and length, its counts are the
\* same from every executor and device that takes it, and after any round trip.
THEOREM KeysAlwaysFaithful == Spec => []KeysFaithful
<1>1. CircuitInv => KeysFaithful
  BY AllWaysAgree DEF CircuitInv, KeysFaithful
<1> QED BY <1>1, CircuitInvariance, PTL

---------------------------------------------------------------------------
(* The allocation of a histogram.  Sums over the bins are recursive, so    *)
(* what is true of them is proved by induction over a set of numbers.      *)

Split(a, x, y) == a * (x + y) = a * x + a * y

LEMMA Distributes ==
    ASSUME NEW a \in Int, NEW x \in Int, NEW y \in Int
    PROVE  Split(a, x, y)
BY DEF Split

LEMMA ProductIsInt ==
    ASSUME NEW a \in Int, NEW x \in Int
    PROVE  a * x \in Int
OBVIOUS

\* The recursive definition of the sums defines them.
Summed(f) ==
    /\ \A n \in 0..NBins : Sums(f)[n] \in Int
    /\ Sums(f)[0] = 0
    /\ \A n \in 0..(NBins - 1) : Sums(f)[n + 1] = Sums(f)[n] + f[n + 1]

LEMMA SumsStep ==
    ASSUME NEW f \in [Bins -> Int]
    PROVE  Summed(f)
<1> USE ShotAssumption DEF Bins
<1> DEFINE Adds(g, n) == g[0] = 0 /\ \A k \in 1..n : g[k] = g[k - 1] + f[k]
           S == {n \in Nat : \E g \in [0..n -> Int] : Adds(g, n)}
<1>1. 0 \in S
  <2>1. [k \in 0..0 |-> 0] \in [0..0 -> Int] /\ Adds([k \in 0..0 |-> 0], 0)
    OBVIOUS
  <2> QED BY <2>1
<1>2. ASSUME NEW n \in 0..(NBins - 1), n \in S PROVE n + 1 \in S
  <2>1. PICK g \in [0..n -> Int] : Adds(g, n)
    BY <1>2
  <2> DEFINE h == [k \in 0..(n + 1) |-> IF k = n + 1 THEN g[n] + f[n + 1] ELSE g[k]]
  <2>2. h \in [0..(n + 1) -> Int]
    BY <2>1
  <2>3. Adds(h, n + 1)
    BY <2>1
  <2>4. n + 1 \in Nat
    OBVIOUS
  <2> HIDE DEF h, Adds
  <2> QED BY <2>2, <2>3, <2>4
<1>3. NBins \in S
  <2> HIDE DEF S
  <2>1. \A n \in 0..NBins : n \in S
    BY <1>1, <1>2, BoundedInduction
  <2> QED BY <2>1
<1>4. PICK g \in [0..NBins -> Int] : Adds(g, NBins)
  BY <1>3
<1> DEFINE Equation(h) == h = [k \in 0..NBins |-> IF k = 0 THEN 0 ELSE h[k - 1] + f[k]]
<1>5. Equation(g)
  BY <1>4
<1>6. Sums(f) = CHOOSE h : Equation(h)
  BY DEF Sums
<1>7. Equation(Sums(f))
  <2> HIDE DEF Equation
  <2> QED BY <1>5, <1>6
<1> DEFINE s == Sums(f)
<1> HIDE DEF s
<1>8. s = [k \in 0..NBins |-> IF k = 0 THEN 0 ELSE s[k - 1] + f[k]]
  BY <1>7 DEF s
<1>9. s[0] = 0 /\ \A n \in 0..(NBins - 1) : s[n + 1] = s[n] + f[n + 1]
  <2>1. s[0] = 0
    BY <1>8
  <2>2. ASSUME NEW n \in 0..(NBins - 1) PROVE s[n + 1] = s[n] + f[n + 1]
    <3>1. n + 1 \in 0..NBins /\ n + 1 # 0 /\ (n + 1) - 1 = n
      OBVIOUS
    <3>2. s[n + 1] = s[(n + 1) - 1] + f[n + 1]
      BY <1>8, <3>1
    <3> QED BY <3>1, <3>2
  <2> QED BY <2>1, <2>2
<1>10. \A n \in 0..NBins : s[n] \in Int
  <2> DEFINE I == {n \in Nat : s[n] \in Int}
  <2>1. 0 \in I /\ \A n \in 0..(NBins - 1) : n \in I => n + 1 \in I
    BY <1>9, SMTT(30)
  <2> HIDE DEF I
  <2>2. \A n \in 0..NBins : n \in I
    BY <2>1, BoundedInduction
  <2> QED BY <2>2 DEF I
<1> QED BY <1>9, <1>10 DEF s, Summed

\* One equation between three functions, bin by bin.
Linear(a, b, f, g, r) ==
    /\ a \in Int /\ b \in Int
    /\ f \in [Bins -> Int] /\ g \in [Bins -> Int] /\ r \in [Bins -> Int]
    /\ \A k \in Bins : a * f[k] = b * g[k] + r[k]

\* What a product with a sum is, in terms of opaque products.
LEMMA SumsAgree ==
    ASSUME NEW a \in Int, NEW b \in Int, NEW F \in Int, NEW G \in Int, NEW R \in Int,
           NEW x \in Int, NEW y \in Int, NEW z \in Int,
           a * F = b * G + R, a * x = b * y + z
    PROVE  a * (F + x) = b * (G + y) + (R + z)
<1>1. Split(a, F, x) /\ Split(b, G, y)
  BY Distributes
<1>3. a * F \in Int /\ b * G \in Int /\ a * x \in Int /\ b * y \in Int
  BY ProductIsInt
<1> DEFINE aF == a * F
           ax == a * x
           bG == b * G
           by == b * y
<1>4. aF \in Int /\ ax \in Int /\ bG \in Int /\ by \in Int /\ aF = bG + R /\ ax = by + z
  BY <1>3
<1>5. a * (F + x) = aF + ax /\ b * (G + y) = bG + by
  BY <1>1 DEF Split
<1> HIDE DEF aF, ax, bG, by
<1>6. aF + ax = (bG + by) + (R + z)
  BY <1>4
<1> QED BY <1>5, <1>6

\* Sums that satisfy the same equation bin by bin satisfy it in total.
LEMMA SumLinear ==
    ASSUME NEW a, NEW b, NEW f, NEW g, NEW r, Linear(a, b, f, g, r)
    PROVE  a * Total(f) = b * Total(g) + Total(r)
<1>eq. /\ a \in Int /\ b \in Int
       /\ f \in [Bins -> Int] /\ g \in [Bins -> Int] /\ r \in [Bins -> Int]
       /\ \A k \in Bins : a * f[k] = b * g[k] + r[k]
  BY DEF Linear
<1>0. Summed(f) /\ Summed(g) /\ Summed(r)
  BY <1>eq, SumsStep
<1> USE ShotAssumption DEF Bins
<1> DEFINE S == {n \in 0..NBins : a * Sums(f)[n] = b * Sums(g)[n] + Sums(r)[n]}
<1>1. 0 \in S
  <2>1. Sums(f)[0] = 0 /\ Sums(g)[0] = 0 /\ Sums(r)[0] = 0
    BY <1>0 DEF Summed
  <2>2. a * 0 = b * 0 + 0
    BY <1>eq
  <2> QED BY <2>1, <2>2
<1>2. ASSUME NEW n \in 0..(NBins - 1), n \in S PROVE n + 1 \in S
  <2> DEFINE F == Sums(f)[n]
             G == Sums(g)[n]
             R == Sums(r)[n]
             x == f[n + 1]
             y == g[n + 1]
             z == r[n + 1]
  <2>1. F \in Int /\ G \in Int /\ R \in Int /\ a * F = b * G + R
    BY <1>0, <1>2 DEF Summed
  <2>2. n + 1 \in Bins /\ n + 1 \in 0..NBins
    OBVIOUS
  <2>3. /\ Sums(f)[n + 1] = F + x /\ Sums(g)[n + 1] = G + y /\ Sums(r)[n + 1] = R + z
    BY <1>0 DEF Summed
  <2>4. x \in Int /\ y \in Int /\ z \in Int /\ a * x = b * y + z
    BY <1>eq, <2>2
  <2> HIDE DEF F, G, R, x, y, z
  <2>5. a * (F + x) = b * (G + y) + (R + z)
    BY <1>eq, <2>1, <2>4, SumsAgree
  <2>6. a * Sums(f)[n + 1] = b * Sums(g)[n + 1] + Sums(r)[n + 1]
    BY <2>3, <2>5
  <2> QED BY <2>2, <2>6
<1> HIDE DEF S
<1>3. NBins \in S
  <2>1. \A n \in 0..NBins : n \in S
    BY <1>1, <1>2, BoundedInduction
  <2> QED BY <2>1
<1> QED BY <1>3 DEF S, Total

\* One more, or one less, in a bin is one more, or one less, in total.
LEMMA SumBump ==
    ASSUME NEW f \in [Bins -> Int], NEW g \in [Bins -> Int], NEW k \in Bins, NEW d \in Int,
           g[k] = f[k] + d, \A n \in Bins : n # k => g[n] = f[n]
    PROVE  Total(g) = Total(f) + d
<1> USE ShotAssumption DEF Bins
<1> DEFINE S == {n \in 0..NBins : Sums(g)[n] = Sums(f)[n] + IF k <= n THEN d ELSE 0}
<1>0. Summed(f) /\ Summed(g)
  BY SumsStep
<1>2. 0 \in S
  BY <1>0 DEF Summed
<1>3. ASSUME NEW n \in 0..(NBins - 1), n \in S PROVE n + 1 \in S
  <2>1. /\ Sums(f)[n + 1] = Sums(f)[n] + f[n + 1] /\ Sums(g)[n + 1] = Sums(g)[n] + g[n + 1]
        /\ Sums(f)[n] \in Int /\ Sums(g)[n] \in Int
    BY <1>0 DEF Summed
  <2>2. Sums(g)[n] = Sums(f)[n] + IF k <= n THEN d ELSE 0
    BY <1>3
  <2>3. n + 1 \in Bins /\ n + 1 \in 0..NBins /\ f[n + 1] \in Int
    OBVIOUS
  <2> DEFINE F == Sums(f)[n]
             G == Sums(g)[n]
             x == f[n + 1]
             y == g[n + 1]
  <2>4. F \in Int /\ x \in Int /\ G = F + IF k <= n THEN d ELSE 0
    BY <2>1, <2>2, <2>3
  <2>5. y = x + IF k = n + 1 THEN d ELSE 0
    BY <2>3
  <2> HIDE DEF F, G, x, y
  <2>6. G + y = (F + x) + IF k <= n + 1 THEN d ELSE 0
    BY <2>4, <2>5
  <2>7. Sums(f)[n + 1] = F + x /\ Sums(g)[n + 1] = G + y
    BY <2>1 DEF F, G, x, y
  <2> QED BY <2>3, <2>6, <2>7
<1> HIDE DEF S
<1>4. NBins \in S
  <2>1. \A n \in 0..NBins : n \in S
    BY <1>2, <1>3, BoundedInduction
  <2> QED BY <2>1
<1>5. k <= NBins
  OBVIOUS
<1> QED BY <1>4, <1>5 DEF S, Total

\* A sum is at most a bound for each bin of a set outside of which there is nothing.
LEMMA SumBound ==
    ASSUME NEW f \in [Bins -> Int], NEW Z \in SUBSET Bins, NEW c \in Nat,
           \A k \in Bins : f[k] <= IF k \in Z THEN c ELSE 0
    PROVE  Total(f) <= c * Cardinality(Z)
<1>0. Summed(f)
  BY SumsStep
<1> USE ShotAssumption DEF Bins
<1> DEFINE Part(n) == Z \cap (1..n)
           S == {n \in 0..NBins : Sums(f)[n] <= c * Cardinality(Part(n))}
<1>1. ASSUME NEW n \in 0..NBins
      PROVE  IsFiniteSet(Part(n)) /\ Cardinality(Part(n)) \in Nat
  <2>1. IsFiniteSet(1..n)
    BY FS_Interval
  <2>2. IsFiniteSet(Part(n))
    BY <2>1, FS_Intersection
  <2> QED BY <2>2, FS_CardinalityType
<1>2. 0 \in S
  <2>1. Part(0) = {} /\ Cardinality({}) = 0
    BY FS_EmptySet
  <2>2. Sums(f)[0] = 0 /\ c * 0 = 0
    BY <1>0 DEF Summed
  <2> HIDE DEF Part
  <2>3. Cardinality(Part(0)) = 0
    BY <2>1
  <2>4. Sums(f)[0] <= c * Cardinality(Part(0))
    BY <2>2, <2>3
  <2> QED BY <2>4
<1>3. ASSUME NEW n \in 0..(NBins - 1), n \in S PROVE n + 1 \in S
  <2> DEFINE C == Cardinality(Part(n))
  <2>1. Sums(f)[n + 1] = Sums(f)[n] + f[n + 1] /\ Sums(f)[n] \in Int
    BY <1>0 DEF Summed
  <2>2. Sums(f)[n] <= c * C /\ C \in Nat
    BY <1>1, <1>3
  <2>3. n + 1 \in Bins /\ n + 1 \in 0..NBins /\ f[n + 1] \in Int /\ n \in 0..NBins
    OBVIOUS
  <2>4. CASE n + 1 \in Z
    <3>1. Part(n + 1) = Part(n) \cup {n + 1} /\ n + 1 \notin Part(n)
      BY <2>4
    <3>2. Cardinality(Part(n + 1)) = C + 1
      BY <3>1, <1>1, <2>3, FS_AddElement
    <3>3. f[n + 1] <= c
      BY <2>3, <2>4
    <3>4. c * (C + 1) = c * C + c /\ c * C \in Int
      BY <2>2, Distributes, ProductIsInt DEF Split
    <3> HIDE DEF Part, C
    <3> QED BY <2>1, <2>2, <2>3, <3>2, <3>3, <3>4
  <2>5. CASE n + 1 \notin Z
    <3>1. Part(n + 1) = Part(n)
      BY <2>5
    <3>2. f[n + 1] <= 0
      BY <2>3, <2>5
    <3>3. c * C \in Int
      BY <2>2, ProductIsInt
    <3> HIDE DEF Part
    <3> QED BY <2>1, <2>2, <2>3, <3>1, <3>2, <3>3
  <2> QED BY <2>4, <2>5
<1> HIDE DEF S
<1>4. NBins \in S
  <2>1. \A n \in 0..NBins : n \in S
    BY <1>2, <1>3, BoundedInduction
  <2> QED BY <2>1
<1>5. Part(NBins) = Z
  OBVIOUS
<1> QED BY <1>4, <1>5 DEF S, Total

LEMMA SumNatural ==
    ASSUME NEW f \in [Bins -> Nat]
    PROVE  Total(f) \in Nat
<1>1. Summed(f)
  BY SumsStep
<1> USE ShotAssumption DEF Bins
<1> DEFINE S == {n \in 0..NBins : Sums(f)[n] \in Nat}
<1>2. 0 \in S /\ \A n \in 0..(NBins - 1) : n \in S => n + 1 \in S
  BY <1>1 DEF Summed
<1> HIDE DEF S
<1>3. \A n \in 0..NBins : n \in S
  BY <1>2, BoundedInduction
<1> QED BY <1>3 DEF S, Total

\* A strict order of the bins, and the bins before one of them.
Orders(B) ==
    /\ \A j \in Bins : <<j, j>> \notin B
    /\ \A j, k \in Bins : j # k => <<j, k>> \in B \/ <<k, j>> \in B
    /\ \A j, k, l \in Bins : <<j, k>> \in B /\ <<k, l>> \in B => <<j, l>> \in B

Before(B, k) == {j \in Bins : <<j, k>> \in B}

LEMMA BinsFinite ==
    /\ NBins \in Nat \ {0} /\ IsFiniteSet(Bins) /\ Cardinality(Bins) = NBins
    /\ \A Z \in SUBSET Bins : IsFiniteSet(Z) /\ Cardinality(Z) \in Nat
<1>1. NBins \in Nat \ {0} /\ IsFiniteSet(Bins) /\ Cardinality(Bins) = NBins
  BY ShotAssumption, FS_Interval DEF Bins
<1>2. ASSUME NEW Z \in SUBSET Bins PROVE IsFiniteSet(Z) /\ Cardinality(Z) \in Nat
  BY <1>1, FS_Subset, FS_CardinalityType
<1> QED BY <1>1, <1>2

\* Counting the bins before it tells a bin from every other, and there is a bin
\* for every number.
LEMMA PlacesDiffer ==
    ASSUME NEW B, Orders(B), NEW j \in Bins, NEW k \in Bins,
           Cardinality(Before(B, j)) = Cardinality(Before(B, k))
    PROVE  j = k
<1>1. ASSUME NEW x \in Bins, NEW y \in Bins, <<x, y>> \in B
      PROVE  Cardinality(Before(B, x)) # Cardinality(Before(B, y))
  <2>1. Before(B, x) \in SUBSET Before(B, y) /\ Before(B, x) # Before(B, y)
    <3>1. x \in Before(B, y) /\ x \notin Before(B, x)
      BY <1>1 DEF Orders, Before
    <3>2. \A l \in Before(B, x) : l \in Before(B, y)
      BY <1>1 DEF Orders, Before
    <3> QED BY <3>1, <3>2
  <2>2. IsFiniteSet(Before(B, y))
    BY BinsFinite DEF Before
  <2> QED BY <2>1, <2>2, FS_Subset
<1> QED BY <1>1 DEF Orders

LEMMA PlacesTaken ==
    ASSUME NEW B, Orders(B)
    PROVE  /\ \A k \in Bins : Cardinality(Before(B, k)) \in 0..(NBins - 1)
           /\ \A m \in 0..(NBins - 1) : \E k \in Bins : Cardinality(Before(B, k)) = m
<1> DEFINE place == [k \in Bins |-> Cardinality(Before(B, k))]
<1>1. ASSUME NEW k \in Bins
      PROVE  Cardinality(Before(B, k)) \in 0..(NBins - 1)
  <2>1. Before(B, k) \in SUBSET Bins /\ Before(B, k) # Bins
    BY DEF Orders, Before
  <2>2. /\ Cardinality(Before(B, k)) <= Cardinality(Bins)
        /\ Cardinality(Before(B, k)) # Cardinality(Bins)
    BY <2>1, BinsFinite, FS_Subset
  <2>3. Cardinality(Before(B, k)) \in Nat
    BY <2>1, BinsFinite
  <2> QED BY <2>2, <2>3, BinsFinite
<1>2. place \in [Bins -> 0..(NBins - 1)]
  BY <1>1
<1>3. \A j, k \in Bins : place[j] = place[k] => j = k
  BY PlacesDiffer
<1> HIDE DEF place
<1>4. place \in Injection(Bins, 0..(NBins - 1))
  BY <1>2, <1>3 DEF Injection, IsInjective
<1>5. IsFiniteSet(0..(NBins - 1)) /\ Cardinality(0..(NBins - 1)) = NBins
  <2>1. NBins - 1 \in Int /\ NBins - 1 >= 0 /\ NBins \in Nat
    BY BinsFinite
  <2> DEFINE m == NBins - 1
  <2>2. m \in Int /\ ~(0 > m) /\ m - 0 + 1 = NBins
    BY <2>1
  <2> HIDE DEF m
  <2>3. IsFiniteSet(0..m) /\ Cardinality(0..m) = m - 0 + 1
    BY <2>2, FS_Interval
  <2> QED BY <2>2, <2>3 DEF m
<1>6. place \in Surjection(Bins, 0..(NBins - 1))
  BY BinsFinite, <1>4, <1>5, FS_Injection
<1>7. \A m \in 0..(NBins - 1) : \E k \in Bins : place[k] = m
  BY <1>6 DEF Surjection
<1> QED BY <1>1, <1>7 DEF place

LEMMA Division ==
    ASSUME NEW s \in Nat, NEW p \in Nat \ {0}
    PROVE  /\ s = p * (s \div p) + (s % p) /\ s % p \in 0..(p - 1) /\ s \div p \in Nat
           /\ s = 0 => s \div p = 0 /\ s % p = 0
OBVIOUS

LEMMA RestIsLess ==
    ASSUME NEW s \in Nat, NEW p \in Nat \ {0}
    PROVE  s % p <= s
<1>1. s = p * (s \div p) + (s % p) /\ s \div p \in Nat /\ s % p \in Nat
  BY Division
<1> DEFINE q == s \div p
<1> HIDE DEF q
<1>2. p * q >= 0 /\ p * q \in Int
  BY <1>1 DEF q
<1> QED BY <1>1, <1>2 DEF q

\* Floor and remainder of a bin's share.
LEMMA Shares ==
    ASSUME probs \in [Bins -> 0..Parts], asked \in Nat, NEW k \in Bins
    PROVE  /\ Floored(k) \in Nat /\ Remainder(k) \in 0..(Parts - 1)
           /\ asked * probs[k] = Parts * Floored(k) + Remainder(k)
           /\ probs[k] = 0 => Floored(k) = 0 /\ Remainder(k) = 0
           /\ asked = 0 => Floored(k) = 0
<1>1. Parts \in Nat \ {0} /\ probs[k] \in Nat
  BY ShotAssumption
<1> DEFINE p == probs[k]
           s == p * asked
<1> HIDE DEF p
<1>2. s \in Nat /\ s = asked * p
  BY <1>1 DEF p
<1>3. (p = 0 => s = 0) /\ (asked = 0 => s = 0)
  BY <1>1 DEF p
<1> HIDE DEF s
<1>4. s = Parts * (s \div Parts) + (s % Parts) /\ s % Parts \in 0..(Parts - 1) /\ s \div Parts \in Nat
  BY <1>1, <1>2, Division
<1>5. s = 0 => s \div Parts = 0 /\ s % Parts = 0
  BY <1>1, <1>2, Division
<1> QED BY <1>2, <1>3, <1>4, <1>5 DEF s, p, Floored, Remainder

\* The two orders are orders, so whoever's turn it is is a bin, and the bins
\* before it are as many as the turns of this round.
LEMMA Turns ==
    ASSUME probs \in [Bins -> 0..Parts], asked \in Nat
    PROVE  /\ \A i \in Nat : /\ HandedTo(i) \in Bins
                             /\ Cardinality({j \in Bins : LargestFirst(j, HandedTo(i))}) = i % NBins
           /\ \A i \in Nat : TakenFrom(i) \in Bins
           /\ \A k \in Bins : \E i \in 0..(NBins - 1) : TakenFrom(i) = k
<1>1. \A k \in Bins : Remainder(k) \in Int /\ k \in Int
  BY Shares DEF Bins
<1>2. NBins \in Nat \ {0} /\ \A i \in Nat : i % NBins \in 0..(NBins - 1)
  BY ShotAssumption
<1> DEFINE L == {p \in Bins \X Bins : LargestFirst(p[1], p[2])}
           S == {p \in Bins \X Bins : SmallestFirst(p[1], p[2])}
<1>3. /\ \A j, k \in Bins : <<j, k>> \in L <=> LargestFirst(j, k)
      /\ \A j, k \in Bins : <<j, k>> \in S <=> SmallestFirst(j, k)
  OBVIOUS
<1> HIDE DEF L, S
<1>4. Orders(L)
  BY <1>1, <1>3 DEF LargestFirst, Orders
<1>5. Orders(S)
  BY <1>1, <1>3 DEF SmallestFirst, Orders
<1>6. \A k \in Bins : /\ Before(L, k) = {j \in Bins : LargestFirst(j, k)}
                      /\ Before(S, k) = {j \in Bins : SmallestFirst(j, k)}
  BY <1>3 DEF Before
<1>7. /\ \A m \in 0..(NBins - 1) : \E k \in Bins : Cardinality({j \in Bins : LargestFirst(j, k)}) = m
      /\ \A m \in 0..(NBins - 1) : \E k \in Bins : Cardinality({j \in Bins : SmallestFirst(j, k)}) = m
  <2>1. /\ \A m \in 0..(NBins - 1) : \E k \in Bins : Cardinality(Before(L, k)) = m
        /\ \A m \in 0..(NBins - 1) : \E k \in Bins : Cardinality(Before(S, k)) = m
    BY <1>4, <1>5, PlacesTaken
  <2> QED BY <2>1, <1>6
<1>8. ASSUME NEW i \in Nat
      PROVE  /\ HandedTo(i) \in Bins
             /\ Cardinality({j \in Bins : LargestFirst(j, HandedTo(i))}) = i % NBins
             /\ TakenFrom(i) \in Bins
  BY <1>2, <1>7 DEF HandedTo, TakenFrom
<1>9. ASSUME NEW k \in Bins PROVE \E i \in 0..(NBins - 1) : TakenFrom(i) = k
  <2> DEFINE i == Cardinality(Before(S, k))
  <2>1. i \in 0..(NBins - 1)
    BY <1>5, PlacesTaken
  <2>2. \A l \in Bins : Cardinality(Before(S, l)) = i => l = k
    BY <1>5, PlacesDiffer
  <2>5. \A l \in Bins : Cardinality({j \in Bins : SmallestFirst(j, l)}) = i <=> l = k
    BY <1>6, <2>2
  <2> HIDE DEF i
  <2>3. i % NBins = i
    BY <2>1, <1>2
  <2>4. TakenFrom(i) = k
    BY <2>5, <2>3 DEF TakenFrom
  <2> QED BY <2>1, <2>4
<1> QED BY <1>8, <1>9

Floors == [k \in Bins |-> Floored(k)]
Rest == [k \in Bins |-> Remainder(k)]
Shortage == asked - Total(Floors)

AllocationType ==
    /\ probs \in [Bins -> 0..Parts] /\ asked \in Nat
    /\ counts \in [Bins -> Int] /\ leftover \in Int /\ turn \in Nat /\ limit \in Int
    /\ phase \in {"floor", "handing", "reclaiming", "done"}

AtFloor == phase = "floor" => counts = [k \in Bins |-> 0] /\ turn = 0

\* Too few: no bin gets a second shot when the probabilities sum to one, and
\* none without a remainder gets any when they sum to at least that.
AtHanding ==
    phase = "handing" =>
        /\ leftover = Shortage /\ leftover >= 0 /\ turn <= leftover
        /\ Total(counts) = Total(Floors) + turn
        /\ \A k \in Bins : counts[k] >= Floored(k)
        /\ leftover < NBins => \A k \in Bins :
             counts[k] = Floored(k) + IF \E i \in 0..(turn - 1) : HandedTo(i) = k THEN 1 ELSE 0
        /\ Total(probs) >= Parts => \A k \in Bins : Remainder(k) = 0 => counts[k] = Floored(k)

\* Too many: every round of the bins takes a shot back, so a round in which none
\* was taken yet has found only empty bins.
Rounds ==
    \E q \in Nat, r \in 0..(NBins - 1) :
        /\ turn = NBins * q + r
        /\ leftover - Shortage >= q
        /\ leftover - Shortage = q => \A i \in 0..(r - 1) : counts[TakenFrom(i)] = 0

AtReclaiming ==
    phase = "reclaiming" =>
        /\ Shortage < 0 /\ leftover \in Shortage..0
        /\ limit = NBins * (1 - Shortage)
        /\ Total(counts) = asked - leftover
        /\ \A k \in Bins : counts[k] \in 0..Floored(k)
        /\ leftover < 0 => Rounds

AllocationInv == AllocationType /\ AtFloor /\ AtHanding /\ AtReclaiming /\ CountsExact

\* What flooring leaves over, measured by the remainders.
LEMMA ShortageBounds ==
    ASSUME NEW a \in Nat, NEW p \in Nat \ {0}, NEW t \in Nat, NEW f \in Nat, NEW r \in Nat,
           a * t = p * f + r
    PROVE  /\ t >= p => p * (a - f) <= r
           /\ t = p => p * (a - f) = r
<1>1. p * (a - f) = p * a - p * f
  OBVIOUS
<1>2. t >= p => a * t >= a * p
  OBVIOUS
<1> QED BY <1>1, <1>2

\* A product with a part less one on the other side decides an order.
LEMMA PartLess ==
    ASSUME NEW a \in Nat \ {0}, NEW x \in Int, NEW y \in Nat, a * x <= (a - 1) * y
    PROVE  x <= y /\ (y > 0 => x < y)
OBVIOUS

LEMMA ShareTotals ==
    ASSUME AllocationType
    PROVE  /\ Floors \in [Bins -> Int] /\ Total(Floors) \in Nat
           /\ Total(Rest) \in Nat /\ Total(probs) \in Nat /\ Shortage \in Int
           /\ Total(probs) >= Parts => Parts * Shortage <= Total(Rest)
           /\ Total(probs) = Parts => Shortage >= 0 /\ Shortage < NBins
<1> USE DEF AllocationType
<1>1. Floors \in [Bins -> Nat] /\ Rest \in [Bins -> Nat] /\ probs \in [Bins -> Nat]
  BY Shares, ShotAssumption DEF Floors, Rest
<1>2. /\ Floors \in [Bins -> Int] /\ Rest \in [Bins -> Int] /\ probs \in [Bins -> Int]
      /\ Total(Floors) \in Nat /\ Total(Rest) \in Nat /\ Total(probs) \in Nat
  BY <1>1, SumNatural
<1>3. Shortage \in Int /\ Parts \in Nat \ {0}
  BY <1>2, ShotAssumption DEF Shortage
<1>4. \A k \in Bins : asked * probs[k] = Parts * Floors[k] + Rest[k]
  BY Shares DEF Floors, Rest
<1>5. asked * Total(probs) = Parts * Total(Floors) + Total(Rest)
  <2>1. asked \in Int /\ Parts \in Int
    BY <1>3
  <2> HIDE DEF AllocationType
  <2>2. Linear(asked, Parts, probs, Floors, Rest)
    BY <1>2, <1>4, <2>1 DEF Linear
  <2> QED BY <2>2, SumLinear
<1>6. /\ Total(probs) >= Parts => Parts * Shortage <= Total(Rest)
      /\ Total(probs) = Parts => Parts * Shortage = Total(Rest)
  <2> DEFINE t == Total(probs)
             f == Total(Floors)
             r == Total(Rest)
  <2>1. t \in Nat /\ f \in Nat /\ r \in Nat /\ asked \in Nat /\ asked * t = Parts * f + r
    BY <1>2, <1>5
  <2>2. Shortage = asked - f
    BY DEF Shortage
  <2> HIDE DEF t, f, r
  <2>3. (t >= Parts => Parts * (asked - f) <= r) /\ (t = Parts => Parts * (asked - f) = r)
    BY <2>1, <1>3, ShortageBounds
  <2> QED BY <2>2, <2>3 DEF t, f, r
<1>7. Total(Rest) <= (Parts - 1) * NBins
  <2>1. \A k \in Bins : Rest[k] <= IF k \in Bins THEN Parts - 1 ELSE 0
    BY Shares, <1>3 DEF Rest
  <2>2. Parts - 1 \in Nat /\ Bins \in SUBSET Bins
    BY <1>3
  <2>3. Total(Rest) <= (Parts - 1) * Cardinality(Bins)
    BY <1>2, <2>1, <2>2, SumBound
  <2> QED BY <2>3, BinsFinite
<1>8. ASSUME Total(probs) = Parts PROVE Shortage >= 0 /\ Shortage < NBins
  <2>1. Parts * Shortage = Total(Rest) /\ NBins \in Nat /\ NBins > 0
    BY <1>6, <1>8, BinsFinite
  <2> DEFINE t == Total(Rest)
  <2> HIDE DEF t
  <2>2. Parts * Shortage = t /\ t \in Nat /\ t <= (Parts - 1) * NBins
    BY <2>1, <1>2, <1>7 DEF t
  <2>3. Shortage < NBins
    BY <2>1, <2>2, <1>3, PartLess
  <2>4. Shortage >= 0
    BY <2>2, <1>3
  <2> QED BY <2>3, <2>4
<1> QED BY <1>2, <1>3, <1>6, <1>8

\* The turn of a bin without remainder comes after the shots are handed out.
LEMMA NoTurnWithoutRemainder ==
    ASSUME AllocationType, Total(probs) >= Parts, NEW n \in Nat, n < Shortage
    PROVE  Remainder(HandedTo(n)) # 0
<1> USE DEF AllocationType
<1> DEFINE k == HandedTo(n)
           Z == {j \in Bins : Remainder(j) # 0}
           E == {j \in Bins : LargestFirst(j, k)}
<1>1. k \in Bins /\ Cardinality(E) = n % NBins
  BY Turns
<1>2. Shortage \in Int /\ Parts * Shortage <= Total(Rest) /\ Total(Rest) \in Nat /\ Parts \in Nat \ {0}
  BY ShareTotals, ShotAssumption
<1>3. n % NBins <= n /\ n % NBins \in Nat
  BY BinsFinite, Division, RestIsLess
<1> SUFFICES ASSUME Remainder(k) = 0 PROVE FALSE
  OBVIOUS
<1>4. Z \in SUBSET E
  BY Shares DEF LargestFirst
<1> HIDE DEF E, k
<1>5. Cardinality(Z) <= n /\ Cardinality(Z) \in Nat
  <2>1. IsFiniteSet(E) /\ Cardinality(E) \in Nat /\ Cardinality(Z) \in Nat
    BY BinsFinite DEF E
  <2>2. Cardinality(Z) <= Cardinality(E)
    BY <1>4, <2>1, FS_Subset
  <2> QED BY <2>1, <2>2, <1>1, <1>3
<1>6. Total(Rest) <= (Parts - 1) * Cardinality(Z)
  <2>1. Rest \in [Bins -> Int] /\ \A j \in Bins : Rest[j] <= IF j \in Z THEN Parts - 1 ELSE 0
    BY Shares, <1>2 DEF Rest
  <2>2. Z \in SUBSET Bins /\ Parts - 1 \in Nat
    BY <1>2
  <2> HIDE DEF Z
  <2> QED BY <2>1, <2>2, SumBound
<1> DEFINE z == Cardinality(Z)
           t == Total(Rest)
<1>7. z \in Nat /\ z <= n /\ t \in Nat /\ t <= (Parts - 1) * z /\ Parts * Shortage <= t
  BY <1>2, <1>5, <1>6
<1> HIDE DEF z, t
<1>8. (Parts - 1) * z \in Int /\ Parts * Shortage \in Int
  BY <1>2, <1>7
<1>9. Parts * Shortage <= (Parts - 1) * z
  BY <1>7, <1>8
<1>10. Shortage <= z
  BY <1>2, <1>7, <1>9, PartLess
<1> QED BY <1>2, <1>7, <1>10

\* The histogram and the shots do not change, nor what is computed of them.
LEMMA SharesStay ==
    ASSUME UNCHANGED <<probs, asked>>
    PROVE  /\ Floors' = Floors /\ Rest' = Rest /\ Shortage' = Shortage
           /\ \A k : Floored(k)' = Floored(k) /\ Remainder(k)' = Remainder(k)
           /\ \A i : HandedTo(i)' = HandedTo(i) /\ TakenFrom(i)' = TakenFrom(i)
<1>1. \A k : Floored(k)' = Floored(k) /\ Remainder(k)' = Remainder(k)
  BY DEF Floored, Remainder
<1>2. Floors' = Floors /\ Rest' = Rest
  BY <1>1 DEF Floors, Rest
<1>3. Shortage' = Shortage
  BY <1>2 DEF Shortage, Total
<1>4. \A j, k : LargestFirst(j, k)' = LargestFirst(j, k) /\ SmallestFirst(j, k)' = SmallestFirst(j, k)
  BY <1>1 DEF LargestFirst, SmallestFirst
<1>5. \A i : HandedTo(i)' = HandedTo(i) /\ TakenFrom(i)' = TakenFrom(i)
  BY <1>4 DEF HandedTo, TakenFrom
<1> QED BY <1>1, <1>2, <1>3, <1>5

LEMMA FloorKeeps ==
    ASSUME AllocationInv, Floor
    PROVE  AllocationInv'
<1> USE DEF AllocationInv
<1>1. phase = "floor" /\ counts = [k \in Bins |-> 0] /\ turn = 0 /\ UNCHANGED <<probs, asked, turn>>
  BY DEF Floor, AtFloor
<1>2. asked \in Nat /\ AllocationType
  BY DEF AllocationType
<1>3. /\ Floors' = Floors /\ Shortage' = Shortage
      /\ \A k : Floored(k)' = Floored(k) /\ Remainder(k)' = Remainder(k)
  BY <1>1, SharesStay
<1>4. CASE asked = 0
  <2>1. phase' = "done" /\ counts' = counts /\ leftover' = leftover /\ limit' = limit
    BY <1>1, <1>4 DEF Floor
  <2>2. Total(counts) = 0
    <3>1. counts \in [Bins -> Int] /\ counts \in [Bins -> Nat] /\ {} \in SUBSET Bins
      BY <1>1
    <3>2. Total(counts) <= 0 * Cardinality({})
      BY <1>1, <3>1, SumBound
    <3>3. Total(counts) \in Nat
      BY <3>1, SumNatural
    <3> QED BY <3>2, <3>3, FS_EmptySet
  <2>3. \A k \in Bins : Floored(k) = 0
    BY <1>4, <1>2, Shares DEF AllocationType
  <2>4. CountsExact'
    <3>1. Total(counts)' = Total(counts) /\ Total(probs)' = Total(probs)
      BY <2>1, <1>1 DEF Total
    <3> QED BY <2>1, <2>2, <2>3, <3>1, <1>1, <1>3, <1>4 DEF CountsExact
  <2> QED BY <2>1, <2>4, <1>1 DEF AllocationType, AtFloor, AtHanding, AtReclaiming
<1>5. CASE asked # 0
  <2>1. /\ counts' = Floors /\ leftover' = asked - Total(counts)'
        /\ limit' = NBins * (1 - leftover')
        /\ phase' = IF leftover' >= 0 THEN "handing" ELSE "reclaiming"
    BY <1>1, <1>5 DEF Floor, Floors
  <2>2. Total(counts)' = Total(Floors) /\ leftover' = Shortage
    <3>1. Total(counts)' = Total(counts')
      BY DEF Total
    <3> QED BY <2>1, <3>1 DEF Shortage
  <2>3. Floors \in [Bins -> Int] /\ Total(Floors) \in Nat /\ Shortage \in Int
    BY <1>2, ShareTotals
  <2>4. NBins \in Nat \ {0} /\ NBins * (1 - Shortage) \in Int
    BY BinsFinite, <2>3, ProductIsInt
  <2>5. AllocationType'
    BY <1>1, <2>1, <2>2, <2>3, <2>4 DEF AllocationType
  <2>6. \A k \in Bins : counts'[k] = Floored(k) /\ Floored(k) \in Nat
    BY <2>1, <1>2, Shares DEF Floors, AllocationType
  <2>7. CASE Shortage >= 0
    <3>1. AtHanding'
      BY <1>1, <1>3, <2>1, <2>2, <2>3, <2>6, <2>7 DEF AtHanding
    <3> QED BY <3>1, <2>1, <2>2, <2>5, <2>7 DEF AtFloor, AtReclaiming, CountsExact
  <2>8. CASE Shortage < 0
    <3>1. Rounds'
      <4>1. 0 \in Nat /\ 0 \in 0..(NBins - 1) /\ turn' = NBins * 0 + 0
        BY <1>1, <2>4
      <4>2. leftover' - Shortage' = 0 /\ \A i \in 0..(0 - 1) : FALSE
        BY <1>3, <2>2, <2>3
      <4> QED BY <4>1, <4>2 DEF Rounds
    <3>2. asked - leftover' = Total(Floors)
      BY <1>2, <2>2, <2>3 DEF Shortage
    <3>3. AtReclaiming'
      BY <1>1, <1>3, <2>1, <2>2, <2>3, <2>6, <2>8, <3>1, <3>2 DEF AtReclaiming
    <3> QED BY <3>3, <2>1, <2>2, <2>3, <2>5, <2>8 DEF AtFloor, AtHanding, CountsExact
  <2> QED BY <2>3, <2>7, <2>8
<1> QED BY <1>4, <1>5

LEMMA HandKeeps ==
    ASSUME AllocationInv, Hand
    PROVE  AllocationInv'
<1> USE DEF AllocationInv
<1> DEFINE k == HandedTo(turn)
<1>1. /\ phase = "handing" /\ turn < leftover /\ UNCHANGED <<probs, asked, leftover, limit, phase>>
      /\ counts' = [counts EXCEPT ![k] = @ + 1] /\ turn' = turn + 1
  BY DEF Hand
<1>2. /\ counts \in [Bins -> Int] /\ turn \in Nat /\ leftover \in Int /\ asked \in Nat
      /\ probs \in [Bins -> 0..Parts]
  BY DEF AllocationType
<1>3. /\ leftover = Shortage /\ Total(counts) = Total(Floors) + turn
      /\ \A j \in Bins : counts[j] >= Floored(j)
  BY <1>1 DEF AtHanding
<1>4. /\ Floors' = Floors /\ Shortage' = Shortage
      /\ \A j : Floored(j)' = Floored(j) /\ Remainder(j)' = Remainder(j)
      /\ \A i : HandedTo(i)' = HandedTo(i)
  BY <1>1, SharesStay
<1>5. k \in Bins
  BY <1>2, Turns
<1> HIDE DEF k
<1>6. /\ counts' \in [Bins -> Int] /\ counts'[k] = counts[k] + 1
      /\ \A j \in Bins : j # k => counts'[j] = counts[j]
  BY <1>1, <1>2, <1>5
<1>7. AllocationType'
  BY <1>1, <1>2, <1>6 DEF AllocationType
<1>8. Total(counts)' = Total(Floors) + (turn + 1)
  <2>1. Total(counts') = Total(counts) + 1
    BY <1>2, <1>5, <1>6, SumBump
  <2>2. Total(Floors) \in Nat
    BY ShareTotals
  <2>3. Total(counts)' = Total(counts')
    BY DEF Total
  <2> QED BY <2>1, <2>2, <2>3, <1>2, <1>3
<1>9. \A j \in Bins : Floored(j) \in Nat /\ counts[j] \in Int
  BY <1>2, Shares
<1>10. ASSUME leftover < NBins, NEW j \in Bins
       PROVE  counts'[j] = Floored(j) + IF \E i \in 0..turn : HandedTo(i) = j THEN 1 ELSE 0
  <2>1. \A m \in Bins :
          counts[m] = Floored(m) + IF \E i \in 0..(turn - 1) : HandedTo(i) = m THEN 1 ELSE 0
    BY <1>1, <1>10 DEF AtHanding
  <2>2. ASSUME NEW i \in 0..(turn - 1) PROVE HandedTo(i) # k
    <3>1. i \in Nat /\ i # turn /\ i < NBins /\ turn < NBins /\ NBins \in Nat \ {0}
      BY <1>1, <1>2, <1>10, BinsFinite
    <3>2. i % NBins = i /\ turn % NBins = turn
      BY <3>1, <1>2
    <3>3. /\ Cardinality({m \in Bins : LargestFirst(m, HandedTo(i))}) = i % NBins
          /\ Cardinality({m \in Bins : LargestFirst(m, HandedTo(turn))}) = turn % NBins
      BY <3>1, <1>2, Turns
    <3> QED BY <3>1, <3>2, <3>3 DEF k
  <2>3. CASE j = k
    <3>1. counts[k] = Floored(k)
      BY <2>1, <2>2, <1>5, <1>9
    <3>2. \E i \in 0..turn : HandedTo(i) = k
      BY <1>2 DEF k
    <3> QED BY <2>3, <3>1, <3>2, <1>6
  <2>4. CASE j # k
    <3>1. (\E i \in 0..turn : HandedTo(i) = j) <=> (\E i \in 0..(turn - 1) : HandedTo(i) = j)
      <4>1. \A i \in 0..turn : i \in 0..(turn - 1) \/ i = turn
        BY <1>2
      <4>2. \A i \in 0..(turn - 1) : i \in 0..turn
        BY <1>2
      <4> QED BY <4>1, <4>2, <2>4 DEF k
    <3>2. counts'[j] = counts[j]
      BY <1>6, <2>4
    <3>3. counts[j] = Floored(j) + IF \E i \in 0..(turn - 1) : HandedTo(i) = j THEN 1 ELSE 0
      BY <2>1
    <3> QED BY <3>1, <3>2, <3>3
  <2> QED BY <2>3, <2>4
<1>11. ASSUME Total(probs) >= Parts, NEW j \in Bins, Remainder(j) = 0
       PROVE  counts'[j] = Floored(j)
  <2>1. Remainder(k) # 0
    BY <1>1, <1>2, <1>3, <1>11, NoTurnWithoutRemainder DEF k
  <2>2. counts[j] = Floored(j)
    BY <1>1, <1>11 DEF AtHanding
  <2> QED BY <2>1, <2>2, <1>6, <1>11
<1>12. AtHanding'
  <2>1. leftover' >= 0 /\ turn' <= leftover' /\ leftover' = Shortage' /\ turn' - 1 = turn
    BY <1>1, <1>2, <1>3, <1>4 DEF AtHanding
  <2>2. Total(counts)' = Total(Floors)' + turn'
    <3>1. Total(Floors)' = Total(Floors)
      BY <1>4 DEF Total
    <3> QED BY <3>1, <1>1, <1>8
  <2>3. \A j \in Bins : counts'[j] >= Floored(j)
    BY <1>3, <1>5, <1>6, <1>9
  <2>4. Total(probs)' = Total(probs)
    BY <1>1 DEF Total
  <2> QED BY <1>1, <1>4, <1>10, <1>11, <2>1, <2>2, <2>3, <2>4 DEF AtHanding
<1> QED BY <1>1, <1>7, <1>12 DEF AtFloor, AtReclaiming, CountsExact

\* A number written by its rounds.
LEMMA RoundTurn ==
    ASSUME NEW N \in Nat \ {0}, NEW q \in Nat, NEW r \in 0..(N - 1)
    PROVE  (N * q + r) % N = r /\ r % N = r /\ N * q \in Nat
OBVIOUS

LEMMA NextRound ==
    ASSUME NEW N \in Nat \ {0}, NEW q \in Nat, NEW r \in 0..(N - 1), NEW t, t = N * q + r
    PROVE  /\ r + 1 < N => t + 1 = N * q + (r + 1) /\ r + 1 \in 0..(N - 1)
           /\ ~(r + 1 < N) => t + 1 = N * (q + 1) + 0 /\ r = N - 1
OBVIOUS

\* A histogram with a shot in it has a bin with a shot.
LEMMA SomethingToTake ==
    ASSUME probs \in [Bins -> 0..Parts], asked \in Nat, counts \in [Bins -> Int], Total(counts) > 0
    PROVE  \E i \in 0..(NBins - 1) : counts[TakenFrom(i)] # 0
<1> SUFFICES ASSUME \A i \in 0..(NBins - 1) : counts[TakenFrom(i)] = 0 PROVE FALSE
  OBVIOUS
<1>1. \A k \in Bins : counts[k] = 0
  BY Turns
<1>2. counts \in [Bins -> Nat] /\ {} \in SUBSET Bins
  BY <1>1
<1>3. Total(counts) <= 0 * Cardinality({})
  BY <1>1, <1>2, SumBound
<1>4. Total(counts) \in Nat /\ 0 * Cardinality({}) = 0
  BY <1>2, SumNatural, FS_EmptySet
<1> QED BY <1>3, <1>4

LEMMA ReclaimKeeps ==
    ASSUME AllocationInv, Reclaim
    PROVE  AllocationInv'
<1> USE DEF AllocationInv
<1> DEFINE k == TakenFrom(turn)
<1>1. /\ phase = "reclaiming" /\ leftover < 0 /\ turn' = turn + 1
      /\ UNCHANGED <<probs, asked, limit, phase>>
      /\ IF counts[k] > 0
         THEN counts' = [counts EXCEPT ![k] = @ - 1] /\ leftover' = leftover + 1
         ELSE UNCHANGED <<counts, leftover>>
  BY DEF Reclaim
<1>2. /\ counts \in [Bins -> Int] /\ turn \in Nat /\ leftover \in Int /\ asked \in Nat
      /\ probs \in [Bins -> 0..Parts] /\ limit \in Int
  BY DEF AllocationType
<1>3. /\ Shortage < 0 /\ leftover \in Shortage..0 /\ limit = NBins * (1 - Shortage)
      /\ Total(counts) = asked - leftover /\ Rounds
      /\ \A j \in Bins : counts[j] \in 0..Floored(j)
  BY <1>1 DEF AtReclaiming
<1>4. /\ Shortage' = Shortage /\ Shortage \in Int
      /\ \A j : Floored(j)' = Floored(j) /\ Remainder(j)' = Remainder(j)
      /\ \A i : TakenFrom(i)' = TakenFrom(i)
  BY <1>1, SharesStay, ShareTotals
<1>5. PICK q \in Nat, r \in 0..(NBins - 1) :
        /\ turn = NBins * q + r
        /\ leftover - Shortage >= q
        /\ leftover - Shortage = q => \A i \in 0..(r - 1) : counts[TakenFrom(i)] = 0
  BY <1>3 DEF Rounds
<1>6. /\ NBins \in Nat \ {0}
      /\ r + 1 < NBins => turn' = NBins * q + (r + 1) /\ r + 1 \in 0..(NBins - 1)
      /\ ~(r + 1 < NBins) => turn' = NBins * (q + 1) + 0 /\ r = NBins - 1
  BY <1>1, <1>5, BinsFinite, NextRound
<1>7. k \in Bins /\ k = TakenFrom(r)
  <2>1. turn % NBins = r % NBins
    BY <1>5, <1>6, RoundTurn
  <2> QED BY <2>1, <1>2, Turns DEF TakenFrom
<1> HIDE DEF k
<1>8. \A j \in Bins : Floored(j) \in Nat /\ counts[j] \in Nat /\ counts[j] <= Floored(j)
  BY <1>2, <1>3, Shares
<1>9. /\ \/ leftover' - Shortage > leftover - Shortage
         \/ counts' = counts /\ leftover' = leftover /\ counts[k] = 0
      /\ counts' \in [Bins -> Int] /\ leftover' \in Shortage..0
      /\ Total(counts') = asked - leftover'
      /\ \A j \in Bins : counts'[j] \in 0..Floored(j)
  <2>1. CASE counts[k] > 0
    <3>1. counts' = [counts EXCEPT ![k] = @ - 1] /\ leftover' = leftover + 1
      BY <1>1, <2>1
    <3>2. /\ counts' \in [Bins -> Int] /\ counts'[k] = counts[k] + (-1)
          /\ \A j \in Bins : j # k => counts'[j] = counts[j]
      BY <3>1, <1>2, <1>7
    <3>3. Total(counts') = Total(counts) + (-1)
      BY <3>2, <1>2, <1>7, SumBump
    <3>4. Total(counts') = asked - leftover'
      BY <3>1, <3>3, <1>2, <1>3
    <3>5. \A j \in Bins : counts'[j] \in 0..Floored(j)
      BY <3>2, <1>7, <1>8, <2>1
    <3>6. leftover' - Shortage > leftover - Shortage /\ leftover' \in Shortage..0
      BY <3>1, <1>1, <1>2, <1>3, <1>4
    <3> QED BY <3>2, <3>4, <3>5, <3>6
  <2>2. CASE ~(counts[k] > 0)
    <3>1. counts[k] = 0 /\ counts' = counts /\ leftover' = leftover
      BY <1>1, <1>7, <1>8, <2>2
    <3> QED BY <3>1, <1>2, <1>3
  <2> QED BY <2>1, <2>2
<1>10. AllocationType'
  BY <1>1, <1>2, <1>4, <1>9 DEF AllocationType
<1>11. Rounds'
  <2>1. ASSUME NEW p \in Nat, NEW s \in 0..(NBins - 1), turn' = NBins * p + s,
               leftover' - Shortage >= p,
               leftover' - Shortage = p => \A i \in 0..(s - 1) : counts'[TakenFrom(i)] = 0
        PROVE  Rounds'
    BY <2>1, <1>4 DEF Rounds
  <2>2. leftover - Shortage \in Int /\ leftover' - Shortage \in Int
    BY <1>2, <1>4, <1>9
  <2>3. CASE leftover' - Shortage > leftover - Shortage
    <3>1. leftover' - Shortage >= q + 1 /\ leftover' - Shortage # q
      BY <2>2, <2>3, <1>5
    <3>2. CASE r + 1 < NBins
      BY <3>1, <3>2, <2>1, <2>2, <1>6
    <3>3. CASE ~(r + 1 < NBins)
      BY <3>1, <3>3, <2>1, <1>6
    <3> QED BY <3>2, <3>3
  <2>4. CASE counts' = counts /\ leftover' = leftover /\ counts[k] = 0
    <3>1. leftover' - Shortage = q => \A i \in 0..r : counts'[TakenFrom(i)] = 0
      <4>1. \A i \in 0..r : i \in 0..(r - 1) \/ i = r
        OBVIOUS
      <4> QED BY <4>1, <2>4, <1>5, <1>7
    <3>2. CASE r + 1 < NBins
      <4>1. (r + 1) - 1 = r
        OBVIOUS
      <4> QED BY <4>1, <3>1, <3>2, <2>1, <2>4, <1>5, <1>6
    <3>3. CASE ~(r + 1 < NBins)
      <4>1. Total(counts) > 0
        BY <1>1, <1>2, <1>3
      <4>2. PICK i \in 0..(NBins - 1) : counts[TakenFrom(i)] # 0
        BY <4>1, <1>2, SomethingToTake
      <4>3. i \in 0..r
        BY <3>3, <1>6
      <4>4. leftover' - Shortage # q
        BY <4>2, <4>3, <3>1, <2>4
      <4>5. leftover' - Shortage >= q + 1
        BY <4>4, <2>2, <2>4, <1>5
      <4> QED BY <4>5, <3>3, <2>1, <1>6
    <3> QED BY <3>2, <3>3
  <2> QED BY <2>3, <2>4, <1>9
<1>12. AtReclaiming'
  <2>1. Total(counts)' = Total(counts')
    BY DEF Total
  <2> QED BY <2>1, <1>1, <1>3, <1>4, <1>9, <1>11 DEF AtReclaiming
<1> QED BY <1>1, <1>10, <1>12 DEF AtFloor, AtHanding, CountsExact

\* When the reclaiming loop runs into its bound there is nothing to reclaim.
LEMMA EnoughRounds ==
    ASSUME NEW N \in Nat \ {0}, NEW q \in Nat, NEW r \in 0..(N - 1), NEW s \in Int, NEW l \in Int,
           l - s >= q, l < 0
    PROVE  N * q + r < N * (1 - s)
<1>1. q + 1 <= - s /\ - s \in Nat
  OBVIOUS
<1>2. N * (q + 1) <= N * (- s)
  BY <1>1
<1>3. N * (q + 1) = N * q + N /\ N * (1 - s) = N + N * (- s)
  OBVIOUS
<1>4. N * q \in Int /\ N * (- s) \in Int
  OBVIOUS
<1> DEFINE a == N * q
           b == N * (- s)
<1>5. a \in Int /\ b \in Int /\ a + N <= b
  BY <1>2, <1>3, <1>4
<1> HIDE DEF a, b
<1>6. a + r < N + b
  BY <1>5
<1> QED BY <1>3, <1>6 DEF a, b

LEMMA ReturnKeeps ==
    ASSUME AllocationInv, Return
    PROVE  AllocationInv'
<1> USE DEF AllocationInv
<1>1. phase' = "done" /\ UNCHANGED <<probs, asked, counts, leftover, turn, limit>>
  BY DEF Return
<1>2. /\ counts \in [Bins -> Int] /\ turn \in Nat /\ leftover \in Int /\ asked \in Nat
      /\ probs \in [Bins -> 0..Parts] /\ limit \in Int
  BY DEF AllocationType
<1>3. AllocationType'
  BY <1>1 DEF AllocationType
<1>4. /\ Total(Floors) \in Nat /\ Shortage \in Int
      /\ Total(probs) = Parts => Shortage >= 0 /\ Shortage < NBins
  BY ShareTotals
<1>5. \A k \in Bins : /\ Floored(k) \in Nat
                      /\ probs[k] = 0 => Floored(k) = 0 /\ Remainder(k) = 0
  BY <1>2, Shares
<1>6. Shortage = asked - Total(Floors)
  BY DEF Shortage
<1> DEFINE Exact ==
      /\ Total(counts) = asked
      /\ \A k \in Bins : counts[k] >= 0
      /\ Total(probs) = Parts => \A k \in Bins : counts[k] \in {Floored(k), Floored(k) + 1}
      /\ Total(probs) >= Parts => \A k \in Bins : probs[k] = 0 => counts[k] = 0
<1>7. ASSUME phase = "handing" PROVE Exact
  <2>1. /\ leftover = Shortage /\ turn = leftover /\ Total(counts) = Total(Floors) + turn
        /\ \A k \in Bins : counts[k] >= Floored(k)
    BY <1>2, <1>7 DEF AtHanding, Return
  <2>2. Total(counts) = asked
    BY <2>1, <1>2, <1>4, <1>6
  <2>3. \A k \in Bins : counts[k] >= 0
    BY <2>1, <1>2, <1>5
  <2>4. ASSUME Total(probs) = Parts, NEW k \in Bins
        PROVE  counts[k] \in {Floored(k), Floored(k) + 1}
    <3>1. counts[k] = Floored(k) + IF \E i \in 0..(turn - 1) : HandedTo(i) = k THEN 1 ELSE 0
      BY <2>1, <2>4, <1>4, <1>7 DEF AtHanding
    <3> QED BY <3>1, <1>5
  <2>5. ASSUME Total(probs) >= Parts, NEW k \in Bins, probs[k] = 0
        PROVE  counts[k] = 0
    BY <2>5, <1>5, <1>7 DEF AtHanding
  <2> QED BY <2>2, <2>3, <2>4, <2>5
<1>8. ASSUME phase = "reclaiming" PROVE Exact
  <2>1. /\ Shortage < 0 /\ leftover \in Shortage..0 /\ limit = NBins * (1 - Shortage)
        /\ Total(counts) = asked - leftover
        /\ \A k \in Bins : counts[k] \in 0..Floored(k)
        /\ leftover < 0 => Rounds
    BY <1>8 DEF AtReclaiming
  <2>2. leftover = 0
    <3> SUFFICES ASSUME leftover < 0 PROVE FALSE
      BY <2>1, <1>2, <1>4
    <3>1. PICK q \in Nat, r \in 0..(NBins - 1) :
            turn = NBins * q + r /\ leftover - Shortage >= q
      BY <2>1 DEF Rounds
    <3>2. NBins \in Nat \ {0}
      BY BinsFinite
    <3>3. turn < limit
      BY <3>1, <3>2, <2>1, <1>2, <1>4, EnoughRounds
    <3> QED BY <3>3, <1>8 DEF Return, Bound
  <2>3. Total(counts) = asked
    BY <2>1, <2>2, <1>2
  <2>4. \A k \in Bins : counts[k] >= 0
    BY <2>1, <1>2, <1>5
  <2>5. Total(probs) # Parts
    BY <2>1, <1>4
  <2>6. ASSUME NEW k \in Bins, probs[k] = 0 PROVE counts[k] = 0
    BY <2>1, <2>6, <1>2, <1>5
  <2> QED BY <2>3, <2>4, <2>5, <2>6
<1> HIDE DEF Exact
<1>9. Exact
  BY <1>7, <1>8 DEF Return
<1>10. CountsExact'
  <2>1. Total(counts)' = Total(counts) /\ Total(probs)' = Total(probs)
    BY <1>1 DEF Total
  <2>2. \A k : Floored(k)' = Floored(k)
    BY <1>1, SharesStay
  <2> QED BY <2>1, <2>2, <1>1, <1>9 DEF CountsExact, Exact
<1> QED BY <1>1, <1>3, <1>10 DEF AtFloor, AtHanding, AtReclaiming

LEMMA AllocationStays ==
    ASSUME AllocationInv, UNCHANGED allocation
    PROVE  AllocationInv'
<1>1. UNCHANGED <<probs, asked, counts, leftover, turn, limit, phase>>
  BY DEF allocation
<1>2. /\ Shortage' = Shortage
      /\ \A k : Floored(k)' = Floored(k) /\ Remainder(k)' = Remainder(k)
      /\ \A i : HandedTo(i)' = HandedTo(i) /\ TakenFrom(i)' = TakenFrom(i)
  BY <1>1, SharesStay
<1>3. Total(counts)' = Total(counts) /\ Total(probs)' = Total(probs) /\ Total(Floors)' = Total(Floors)
  BY <1>1, SharesStay DEF Total
<1>4. AllocationType' /\ AtFloor' /\ CountsExact'
  BY <1>1, <1>2, <1>3 DEF AllocationInv, AllocationType, AtFloor, CountsExact
<1>5. AtHanding'
  BY <1>1, <1>2, <1>3 DEF AllocationInv, AtHanding
<1>6. Rounds' = Rounds
  BY <1>1, <1>2 DEF Rounds
<1>7. AtReclaiming'
  BY <1>1, <1>2, <1>3, <1>6 DEF AllocationInv, AtReclaiming
<1> QED BY <1>4, <1>5, <1>7 DEF AllocationInv

\* In a process that does other things besides, an allocation behaves as its own
\* specification allows.
THEOREM AllocationAlone == Spec => AllocationSpec
<1>1. Init => AllocationInit
  BY DEF Init
<1>2. [Next]_vars => [AllocationNext]_allocation
  <2> SUFFICES ASSUME [Next]_vars PROVE [AllocationNext]_allocation
    OBVIOUS
  <2>1. CASE Allocate
    BY <2>1 DEF Allocate
  <2>2. ASSUME NEW g \in FluentGates, Apply(g) PROVE UNCHANGED allocation
    BY <2>2 DEF Apply
  <2>3. CASE Write \/ Import \/ Keep
    BY <2>3 DEF Write, Import, Keep
  <2>4. CASE Over \/ UNCHANGED vars
    BY <2>4 DEF Over, vars, allocation
  <2> QED BY <2>1, <2>2, <2>3, <2>4 DEF Next
<1> QED BY <1>1, <1>2, PTL DEF Spec, AllocationSpec

LEMMA AllocationInvariance == AllocationSpec => []AllocationInv
<1>1. AllocationInit => AllocationInv
  <2> SUFFICES ASSUME AllocationInit PROVE AllocationInv
    OBVIOUS
  <2>1. AllocationType /\ phase = "floor"
    BY ShotAssumption DEF AllocationInit, AllocationType
  <2> QED BY <2>1 DEF AllocationInit, AllocationInv, AtFloor, AtHanding, AtReclaiming, CountsExact
<1>2. AllocationInv /\ [AllocationNext]_allocation => AllocationInv'
  BY FloorKeeps, HandKeeps, ReclaimKeeps, ReturnKeeps, AllocationStays DEF AllocationNext
<1> QED BY <1>1, <1>2, PTL DEF AllocationSpec

\* The counts made of a histogram are the shots, whatever the histogram and
\* the number of its bins: allocate_counts returns no other number, takes no
\* bin below zero, rounds every share up or down when the histogram is
\* normalised, and gives an impossible outcome nothing.
THEOREM CountsAlwaysExact == Spec => []CountsExact
<1>1. AllocationInv => CountsExact
  BY DEF AllocationInv
<1> QED BY <1>1, AllocationAlone, AllocationInvariance, PTL
=============================================================================

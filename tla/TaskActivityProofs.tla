------------------------- MODULE TaskActivityProofs -------------------------
(***************************************************************************)
(* Proofs about an attempt of execute_task.                                *)
(*                                                                         *)
(* TaskActivity: the process group is dead before the output is read, the  *)
(* removal of the workdir is over before the attempt ends, heartbeats last *)
(* until then, and no cancellation is swallowed.  TaskStderr: whatever the *)
(* attempt does meanwhile, the tail of the child's stderr is exact.        *)
(***************************************************************************)
EXTENDS TaskStderr, SequenceTheorems, WellFoundedInduction, TLAPS

\* The removal runs only while execute_task waits for it.
RemovalInv ==
    /\ pc \in {"spawning", "running", "draining", "killing"} => removal = "none"
    /\ pc = "removing" => ~keep /\ removal # "none"
    /\ pc \in {"stopping", "ended"} => removal = IF keep THEN "none" ELSE "done"
    /\ beat = "off" => pc = "ended"

\* A cancellation is pending in the wait for the killed child, in "held", or
\* has become the outcome.
CancelInv ==
    cancelled => \/ pc = "killing"
                 \/ pc = "removing" /\ held
                 \/ pc \in {"removing", "stopping", "ended"} /\ outcome = "cancelled"

TaskInv ==
    /\ TypeOK
    /\ NoWriterLeft
    /\ pc = "spawning" => child = "none" /\ group = "none"
    /\ RemovalInv
    /\ CancelInv

\* A step of execute_task keeps the invariant.
LEMMA ExecuteKeeps ==
    ASSUME TaskInv, Execute
    PROVE  TaskInv'
<1> USE DEF TaskInv, TypeOK, NoWriterLeft, RemovalInv, CancelInv, proc, clean
<1>1. CASE Spawned
  BY <1>1 DEF Spawned
<1>2. CASE SpawnFails
  BY <1>2 DEF SpawnFails, Leave, BeatOnLeaving
<1>3. CASE ChildReaped
  BY <1>3 DEF ChildReaped, KillGroup, Killed
<1>4. CASE Drained
  BY <1>4 DEF Drained, Leave, BeatOnLeaving
<1>5. CASE KillWaitOver
  BY <1>5 DEF KillWaitOver, Leave, BeatOnLeaving
<1>6. CASE Removed
  BY <1>6 DEF Removed, HeldBack
<1>7. CASE Stopped
  BY <1>7 DEF Stopped
<1> QED BY <1>1, <1>2, <1>3, <1>4, <1>5, <1>6, <1>7 DEF Execute

\* So does a cancellation, wherever it arrives.
LEMMA CancelKeeps ==
    ASSUME TaskInv, Cancel
    PROVE  TaskInv'
<1> USE DEF TaskInv, TypeOK, NoWriterLeft, RemovalInv, CancelInv, proc, clean
<1>1. CASE CancelSpawn
  BY <1>1 DEF CancelSpawn, Request, Leave, BeatOnLeaving
<1>2. CASE CancelRun
  BY <1>2 DEF CancelRun, Request, KillGroup, Killed
<1>3. CASE CancelKill
  BY <1>3 DEF CancelKill, Request, Leave, BeatOnLeaving
<1>4. CASE CancelRemoval
  BY <1>4 DEF CancelRemoval, Request, Hold
<1>5. CASE CancelStop
  BY <1>5 DEF CancelStop, Request
<1> QED BY <1>1, <1>2, <1>3, <1>4, <1>5 DEF Cancel

\* The invariant holds in every reachable state.
LEMMA TaskInvariance == Spec => []TaskInv
<1>1. Init => TaskInv
  BY DEF Init, TaskInv, TypeOK, NoWriterLeft, RemovalInv, CancelInv
<1>2. TaskInv /\ [Next]_vars => TaskInv'
  <2> SUFFICES ASSUME TaskInv, [Next]_vars
               PROVE  TaskInv'
    OBVIOUS
  <2> USE DEF TaskInv, TypeOK, NoWriterLeft, RemovalInv, CancelInv, proc, clean
  <2>1. CASE ChildForks
    BY <2>1 DEF ChildForks
  <2>2. CASE ChildExits
    BY <2>2 DEF ChildExits
  <2>3. CASE RemovalEnds
    BY <2>3 DEF RemovalEnds
  <2>4. CASE HeartbeatFails
    BY <2>4 DEF HeartbeatFails
  <2>5. CASE UNCHANGED vars
    BY <2>5 DEF vars
  <2> QED
    BY <2>1, <2>2, <2>3, <2>4, <2>5, ExecuteKeeps, CancelKeeps DEF Next, Task, Over
<1> QED BY <1>1, <1>2, PTL DEF Spec

---------------------------------------------------------------------------
\* The state of an attempt of execute_task keeps its types.
THEOREM TaskTypeCorrect == Spec => []TypeOK
<1>1. TaskInv => TypeOK
  BY DEF TaskInv
<1> QED BY <1>1, TaskInvariance, PTL

\* When execute_task reads the output and removes the workdir, no process of the
\* child's group is left to write to them.
THEOREM GroupDeadBeforeRead == Spec => []NoWriterLeft
<1>1. TaskInv => NoWriterLeft
  BY DEF TaskInv
<1> QED BY <1>1, TaskInvariance, PTL

\* No number of cancellations makes execute_task end before the removal of the
\* workdir.
THEOREM RemovalAlwaysFinished == Spec => []RemovalFinished
<1>1. TaskInv => RemovalFinished
  BY DEF TaskInv, RemovalInv, RemovalFinished
<1> QED BY <1>1, TaskInvariance, PTL

\* The heartbeat loop is never stopped while the workdir is being removed.
THEOREM HeartbeatsSpanRemoval == Spec => []BeatsThroughout
<1>1. TaskInv => BeatsThroughout
  BY DEF TaskInv, RemovalInv, BeatsThroughout
<1> QED BY <1>1, TaskInvariance, PTL

\* A cancelled attempt ends as cancelled, not with a result or a failure.
THEOREM NoCancellationSwallowed == Spec => []CancellationKept
<1>1. TaskInv => CancellationKept
  BY DEF TaskInv, CancelInv, CancellationKept
<1> QED BY <1>1, TaskInvariance, PTL

\* The reader of the child's stderr never holds up or changes the attempt:
\* with it, execute_task takes the same steps, so the theorems above hold of
\* an attempt whose child writes to stderr as it likes.
THEOREM ReaderAside == AttemptSpec => Spec
<1>1. AttemptInit => Init
  BY DEF AttemptInit
<1>2. [AttemptNext]_attempt => [Next]_vars
  BY DEF AttemptNext, attempt, Read
<1> QED
  BY <1>1, <1>2, PTL DEF AttemptSpec, Spec

---------------------------------------------------------------------------
(* The tail of the stream.  The chunks are runs of consecutive bytes, cut  *)
(* at edges: e[i - 1] bytes of the stream come before chunk i.             *)

Run(a, b) == [i \in 1..(b - a) |-> a + i]

Cut(cs, e) ==
    /\ cs \in Seq(Seq(Nat)) /\ e \in [0..Len(cs) -> Nat]
    /\ \A i \in 1..Len(cs) : e[i - 1] < e[i] /\ cs[i] = Run(e[i - 1], e[i])

TailInv ==
    /\ size \in Nat /\ dropped \in Nat /\ fed \in Nat
    /\ fed = dropped + size /\ size = IF fed < Limit THEN fed ELSE Limit
    /\ \E e \in [0..Len(chunks) -> Nat] :
          Cut(chunks, e) /\ e[0] = dropped /\ e[Len(chunks)] = fed

LEMMA LeastNumber ==
    ASSUME NEW T \in SUBSET Nat, T # {}
    PROVE  \E x \in T : \A y \in T : x <= y
<1>1. PICK x \in T : \A y \in T : ~(<<y, x>> \in OpToRel(<, Nat))
  BY NatLessThanWellFounded, WFMin, Zenon
<1>2. ASSUME NEW y \in T, y < x PROVE <<y, x>> \in OpToRel(<, Nat)
  BY <1>2 DEF OpToRel
<1>3. \A y \in T : ~(y < x)
  BY <1>1, <1>2, Zenon
<1> QED BY <1>3

\* What holds of one, and of the next number up to a bound, holds up to it.
LEMMA BoundedInduction ==
    ASSUME NEW N \in Nat, NEW S, 1 \in S, \A n \in 1..(N - 1) : n \in S => n + 1 \in S
    PROVE  \A n \in 1..N : n \in S
<1> DEFINE T == (1..N) \ S
<1>1. SUFFICES ASSUME T # {} PROVE FALSE
  OBVIOUS
<1>2. PICK x \in T : \A y \in T : x <= y
  <2>1. T \in SUBSET Nat
    OBVIOUS
  <2> QED BY <1>1, <2>1, LeastNumber
<1>3. x \in Nat /\ x # 1 /\ x >= 1 /\ x <= N /\ x \notin S
  BY <1>2
<1>4. x - 1 \in 1..(N - 1) /\ x - 1 \notin T /\ (x - 1) + 1 = x
  BY <1>2, <1>3
<1>5. x - 1 \in S
  BY <1>3, <1>4
<1> QED BY <1>3, <1>4, <1>5

LEMMA RunType ==
    ASSUME NEW a \in Nat, NEW b \in Nat, a <= b
    PROVE  /\ Run(a, b) \in Seq(Nat) /\ Len(Run(a, b)) = b - a
           /\ \A i \in 1..(b - a) : Run(a, b)[i] = a + i
<1>1. b - a \in Nat
  OBVIOUS
<1> QED BY <1>1 DEF Run

\* Adjacent runs are one run.
LEMMA RunsJoin ==
    ASSUME NEW a \in Nat, NEW b \in Nat, NEW c \in Nat, a <= b, b <= c
    PROVE  Run(a, b) \o Run(b, c) = Run(a, c)
<1>1. /\ Run(a, b) \in Seq(Nat) /\ Run(b, c) \in Seq(Nat) /\ Run(a, c) \in Seq(Nat)
      /\ Len(Run(a, b)) = b - a /\ Len(Run(b, c)) = c - b /\ Len(Run(a, c)) = c - a
      /\ \A i \in 1..(b - a) : Run(a, b)[i] = a + i
      /\ \A i \in 1..(c - b) : Run(b, c)[i] = b + i
      /\ \A i \in 1..(c - a) : Run(a, c)[i] = a + i
  <2>1. a <= c
    OBVIOUS
  <2>2. /\ Run(a, b) \in Seq(Nat) /\ Len(Run(a, b)) = b - a
        /\ \A i \in 1..(b - a) : Run(a, b)[i] = a + i
    BY RunType
  <2>3. /\ Run(b, c) \in Seq(Nat) /\ Len(Run(b, c)) = c - b
        /\ \A i \in 1..(c - b) : Run(b, c)[i] = b + i
    BY RunType
  <2>4. /\ Run(a, c) \in Seq(Nat) /\ Len(Run(a, c)) = c - a
        /\ \A i \in 1..(c - a) : Run(a, c)[i] = a + i
    BY <2>1, RunType
  <2> QED BY <2>2, <2>3, <2>4
<1> DEFINE s == Run(a, b)
           t == Run(b, c)
           u == Run(a, c)
           v == s \o t
<1> HIDE DEF s, t, u
<1>2. /\ s \in Seq(Nat) /\ t \in Seq(Nat) /\ u \in Seq(Nat)
      /\ Len(s) = b - a /\ Len(t) = c - b /\ Len(u) = c - a
      /\ \A i \in 1..(b - a) : s[i] = a + i
      /\ \A i \in 1..(c - b) : t[i] = b + i
      /\ \A i \in 1..(c - a) : u[i] = a + i
  BY <1>1 DEF s, t, u
<1>3. /\ v \in Seq(Nat) /\ Len(v) = Len(s) + Len(t)
      /\ \A i \in 1..(Len(s) + Len(t)) : v[i] = IF i <= Len(s) THEN s[i] ELSE t[i - Len(s)]
  BY <1>2, ConcatProperties
<1> HIDE DEF v
<1>4. Len(v) = Len(u)
  BY <1>2, <1>3
<1>5. ASSUME NEW i \in 1..Len(v) PROVE v[i] = u[i]
  <2>1. i \in 1..(c - a) /\ u[i] = a + i
    BY <1>2, <1>3
  <2>2. CASE i <= b - a
    BY <1>2, <1>3, <2>1, <2>2
  <2>3. CASE ~(i <= b - a)
    <3>1. v[i] = t[i - (b - a)] /\ i - (b - a) \in 1..(c - b)
      BY <1>2, <1>3, <2>1, <2>3
    <3>2. t[i - (b - a)] = b + (i - (b - a))
      BY <3>1, <1>2
    <3> QED BY <3>1, <3>2, <2>1
  <2> QED BY <2>2, <2>3
<1>6. v = u
  BY <1>2, <1>3, <1>4, <1>5, SeqEqual
<1> QED BY <1>6 DEF s, t, u, v

\* The end of a run is a run.
LEMMA RunTrimmed ==
    ASSUME NEW a \in Nat, NEW b \in Nat, NEW x \in Nat, a + x < b
    PROVE  SubSeq(Run(a, b), x + 1, Len(Run(a, b))) = Run(a + x, b)
<1> DEFINE s == Run(a, b)
           t == Run(a + x, b)
           u == SubSeq(s, x + 1, Len(s))
<1>1. /\ s \in Seq(Nat) /\ Len(s) = b - a
      /\ \A i \in 1..(b - a) : s[i] = a + i
  BY RunType
<1>2. /\ t \in Seq(Nat) /\ Len(t) = b - (a + x)
      /\ \A i \in 1..(b - (a + x)) : t[i] = (a + x) + i
  <2>1. a + x \in Nat /\ a + x <= b
    OBVIOUS
  <2> QED BY <2>1, RunType
<1> HIDE DEF s, t
<1>3. /\ u \in Seq(Nat) /\ Len(u) = b - (a + x)
      /\ \A i \in 1..(b - (a + x)) : u[i] = s[(x + 1) + i - 1]
  <2>1. Len(s) \in Int /\ x + 1 \in Int /\ x + 1 <= Len(s) /\ Len(s) - (x + 1) + 1 = b - (a + x)
    BY <1>1
  <2>2. \A i \in (x + 1)..Len(s) : s[i] \in Nat
    BY <1>1
  <2> QED BY <2>1, <2>2, SubSeqProperties
<1> HIDE DEF u
<1>4. ASSUME NEW i \in 1..Len(u) PROVE u[i] = t[i]
  <2>1. i \in 1..(b - (a + x)) /\ (x + 1) + i - 1 = x + i /\ x + i \in 1..(b - a)
    BY <1>3
  <2> QED BY <2>1, <1>1, <1>2, <1>3
<1>5. u = t
  BY <1>2, <1>3, <1>4, SeqEqual
<1> QED BY <1>5 DEF s, t, u

\* The edges are ascending.
LEMMA EdgesAscend ==
    ASSUME NEW cs, NEW e, Cut(cs, e), NEW j \in 0..Len(cs), NEW k \in j..Len(cs)
    PROVE  e[j] <= e[k]
<1>0. Len(cs) \in Nat
  BY DEF Cut
<1> DEFINE S == {n \in 1..(Len(cs) - j + 1) : e[j] <= e[j + n - 1]}
           N == Len(cs) - j + 1
<1>1. N \in Nat /\ j \in Nat
  BY <1>0
<1>2. 1 \in S
  <2>1. j + 1 - 1 = j /\ 1 \in 1..N
    BY <1>0, <1>1
  <2>2. e[j] \in Nat
    BY DEF Cut
  <2> QED BY <2>1, <2>2
<1>3. ASSUME NEW n \in 1..(N - 1), n \in S PROVE n + 1 \in S
  <2>1. j + n - 1 \in 0..Len(cs) /\ j + n \in 1..Len(cs) /\ (j + n) - 1 = j + n - 1
    BY <1>0, <1>1
  <2>2. e[j + n - 1] < e[j + n]
    BY <2>1 DEF Cut
  <2>3. e[j] \in Nat /\ e[j + n - 1] \in Nat /\ e[j + n] \in Nat
    <3>1. j + n \in 0..Len(cs)
      BY <2>1, <1>0
    <3> QED BY <3>1, <2>1 DEF Cut
  <2>4. e[j] <= e[j + n]
    BY <1>3, <2>2, <2>3
  <2>5. j + (n + 1) - 1 = j + n /\ n + 1 \in 1..N
    BY <1>1
  <2> QED BY <2>4, <2>5
<1> HIDE DEF S
<1>4. \A n \in 1..N : n \in S
  BY <1>1, <1>2, <1>3, BoundedInduction
<1>5. k - j + 1 \in 1..N /\ j + (k - j + 1) - 1 = k
  BY <1>0
<1> QED BY <1>4, <1>5 DEF S

\* Joining chunks cut at edges restores the run between the first and the last.
LEMMA CutFlattened ==
    ASSUME NEW cs, NEW e, Cut(cs, e)
    PROVE  FlattenSeq(cs) = Run(e[0], e[Len(cs)])
<1>0. cs \in Seq(Seq(Nat)) /\ Len(cs) \in Nat /\ e \in [0..Len(cs) -> Nat]
  BY DEF Cut
<1>1. CASE Len(cs) = 0
  <2>1. cs = <<>> /\ FlattenSeq(cs) = cs
    BY <1>0, <1>1 DEF FlattenSeq
  <2>2. Run(e[0], e[Len(cs)]) \in Seq(Nat) /\ Len(Run(e[0], e[Len(cs)])) = 0
    BY <1>0, <1>1, RunType
  <2> QED BY <2>1, <2>2
<1>2. CASE Len(cs) # 0
  <2> DEFINE N == Len(cs)
             Equation(h) == h = [i \in 1..N |-> IF i = 1 THEN cs[i] ELSE h[i - 1] \o cs[i]]
             g == [i \in 1..N |-> Run(e[0], e[i])]
  <2>1. ASSUME NEW i \in 1..N, i # 1 PROVE Run(e[0], e[i - 1]) \o cs[i] = Run(e[0], e[i])
    <3>1. i - 1 \in 0..N /\ i \in 0..N /\ 0 \in 0..N
      BY <2>1, <1>0
    <3>2. i - 1 \in 0..N /\ i - 1 \in 0..Len(cs) /\ i \in (i - 1)..Len(cs)
      BY <3>1, <1>0
    <3>4. e[0] <= e[i - 1]
      BY <3>1, <3>2, EdgesAscend
    <3>5. e[i - 1] <= e[i]
      BY <3>1, <3>2, EdgesAscend
    <3>6. cs[i] = Run(e[i - 1], e[i])
      BY DEF Cut
    <3>3. e[0] \in Nat /\ e[i - 1] \in Nat /\ e[i] \in Nat
      BY <3>1, <1>0
    <3> QED BY <3>3, <3>4, <3>5, <3>6, RunsJoin
  <2>2. 1 \in 1..N /\ cs[1] = Run(e[0], e[1])
    BY <1>0, <1>2 DEF Cut
  <2>3. Equation(g)
    <3>1. ASSUME NEW i \in 1..N
          PROVE  g[i] = IF i = 1 THEN cs[i] ELSE g[i - 1] \o cs[i]
      <4>1. CASE i = 1
        BY <4>1, <2>2
      <4>2. CASE i # 1
        <5>1. i - 1 \in 1..N
          BY <4>2, <1>0
        <5> QED BY <5>1, <4>2, <2>1
      <4> QED BY <4>1, <4>2
    <3> QED BY <3>1
  <2> DEFINE s == CHOOSE h : Equation(h)
  <2> HIDE DEF g
  <2>4. Equation(s)
    <3> HIDE DEF Equation
    <3> QED BY <2>3
  <2>5. FlattenSeq(cs) = s[N]
    BY <1>2 DEF FlattenSeq
  <2> HIDE DEF s
  <2> DEFINE S == {n \in 1..N : s[n] = Run(e[0], e[n])}
  <2>6. 1 \in S
    BY <2>2, <2>4
  <2>7. ASSUME NEW n \in 1..(N - 1), n \in S PROVE n + 1 \in S
    <3>1. n + 1 \in 1..N /\ n + 1 # 1 /\ (n + 1) - 1 = n
      BY <1>0
    <3>2. s[n + 1] = s[n] \o cs[n + 1]
      BY <2>4, <3>1
    <3>3. Run(e[0], e[n]) \o cs[n + 1] = Run(e[0], e[n + 1])
      BY <2>1, <3>1
    <3> QED BY <2>7, <3>1, <3>2, <3>3
  <2> HIDE DEF S
  <2>8. N \in 1..N /\ N \in Nat
    BY <1>0, <1>2
  <2> HIDE DEF N
  <2>9. N \in S
    BY <2>6, <2>7, <2>8, BoundedInduction
  <2> QED BY <2>5, <2>9 DEF S, N
<1> QED BY <1>1, <1>2

\* Some of the chunks in a row are chunks, cut at their edges.
LEMMA CutPart ==
    ASSUME NEW cs, NEW e, Cut(cs, e), NEW m \in 0..Len(cs), NEW n \in m..Len(cs)
    PROVE  /\ Cut(SubSeq(cs, m + 1, n), [i \in 0..(n - m) |-> e[m + i]])
           /\ Len(SubSeq(cs, m + 1, n)) = n - m
<1>0. /\ cs \in Seq(Seq(Nat)) /\ Len(cs) \in Nat /\ e \in [0..Len(cs) -> Nat]
      /\ \A i \in 1..Len(cs) : e[i - 1] < e[i] /\ cs[i] = Run(e[i - 1], e[i])
  BY DEF Cut
<1> DEFINE ds == SubSeq(cs, m + 1, n)
           d == [i \in 0..(n - m) |-> e[m + i]]
<1>1. /\ ds \in Seq(Seq(Nat)) /\ Len(ds) = n - m
      /\ \A i \in 1..(n - m) : ds[i] = cs[m + i]
  <2>1. m + 1 \in Int /\ n \in Int /\ \A i \in (m + 1)..n : cs[i] \in Seq(Nat)
    BY <1>0
  <2>2. /\ ds \in Seq(Seq(Nat)) /\ Len(ds) = IF m + 1 <= n THEN n - (m + 1) + 1 ELSE 0
        /\ \A i \in 1..(n - (m + 1) + 1) : ds[i] = cs[(m + 1) + i - 1]
    BY <2>1, SubSeqProperties
  <2>3. n - (m + 1) + 1 = n - m /\ (m + 1 <= n \/ n - m = 0)
    BY <1>0
  <2>4. \A i \in 1..(n - m) : (m + 1) + i - 1 = m + i
    BY <1>0
  <2> QED BY <2>2, <2>3, <2>4
<1>2. d \in [0..(n - m) -> Nat]
  <2>1. \A i \in 0..(n - m) : m + i \in 0..Len(cs)
    BY <1>0
  <2> QED BY <2>1, <1>0
<1>3. ASSUME NEW i \in 1..(n - m) PROVE d[i - 1] < d[i] /\ ds[i] = Run(d[i - 1], d[i])
  <2>1. i - 1 \in 0..(n - m) /\ i \in 0..(n - m) /\ m + i \in 1..Len(cs) /\ m + (i - 1) = (m + i) - 1
    BY <1>0
  <2>2. d[i - 1] = e[(m + i) - 1] /\ d[i] = e[m + i]
    BY <2>1
  <2> HIDE DEF d, ds
  <2> QED BY <2>1, <2>2, <1>0, <1>1
<1> HIDE DEF d, ds
<1>4. Cut(ds, d)
  BY <1>1, <1>2, <1>3 DEF Cut
<1> QED BY <1>1, <1>4 DEF ds, d

\* The bytes in the first chunks are those between the edges.
LEMMA BytesCut ==
    ASSUME NEW cs, NEW e, Cut(cs, e), NEW k \in 0..Len(cs)
    PROVE  FirstBytes(cs, k) = e[k] - e[0] /\ e[0] <= e[k] /\ e[0] \in Nat /\ e[k] \in Nat
<1>0. Len(cs) \in Nat /\ 0 \in 0..Len(cs) /\ k \in 0..Len(cs) /\ 0 + 1 = 1 /\ k - 0 = k
  BY DEF Cut
<1>1. e[0] <= e[k]
  BY <1>0, EdgesAscend
<1>2. e[0] \in Nat /\ e[k] \in Nat
  BY <1>0 DEF Cut
<1> DEFINE d == [i \in 0..k |-> e[0 + i]]
           ds == SubSeq(cs, 1, k)
<1>3. Cut(ds, d) /\ Len(ds) = k
  BY <1>0, CutPart
<1>4. d[0] = e[0] /\ d[k] = e[k]
  BY <1>0
<1> HIDE DEF d, ds
<1>5. FlattenSeq(ds) = Run(e[0], e[k])
  BY <1>3, <1>4, CutFlattened
<1> QED BY <1>1, <1>2, <1>5, RunType DEF ds, FirstBytes

\* One read adds one chunk and one edge.
LEMMA CutAppended ==
    ASSUME NEW cs, NEW e, Cut(cs, e), NEW n \in Nat \ {0}
    PROVE  LET l == Len(cs)
               all == Append(cs, [i \in 1..n |-> e[l] + i])
               d == [i \in 0..(l + 1) |-> IF i = l + 1 THEN e[l] + n ELSE e[i]]
           IN  Cut(all, d) /\ Len(all) = l + 1
<1>0. /\ cs \in Seq(Seq(Nat)) /\ Len(cs) \in Nat /\ e \in [0..Len(cs) -> Nat]
      /\ \A i \in 1..Len(cs) : e[i - 1] < e[i] /\ cs[i] = Run(e[i - 1], e[i])
  BY DEF Cut
<1> DEFINE l == Len(cs)
           c == [i \in 1..n |-> e[l] + i]
           all == Append(cs, c)
           d == [i \in 0..(l + 1) |-> IF i = l + 1 THEN e[l] + n ELSE e[i]]
<1>1. e[l] \in Nat /\ (e[l] + n) - e[l] = n
  BY <1>0
<1>2. c = Run(e[l], e[l] + n) /\ c \in Seq(Nat)
  BY <1>1 DEF Run
<1>3. d \in [0..(l + 1) -> Nat]
  BY <1>0, <1>1
<1>4. d[l] = e[l] /\ d[l + 1] = e[l] + n /\ (l + 1) - 1 = l
  BY <1>0
<1>5. ASSUME NEW i \in 1..l PROVE d[i - 1] = e[i - 1] /\ d[i] = e[i]
  BY <1>0
<1> HIDE DEF c, d
<1>6. /\ all \in Seq(Seq(Nat)) /\ Len(all) = l + 1 /\ all[l + 1] = c
      /\ \A i \in 1..l : all[i] = cs[i]
  BY <1>0, <1>2
<1> HIDE DEF all
<1>7. ASSUME NEW i \in 1..(l + 1) PROVE d[i - 1] < d[i] /\ all[i] = Run(d[i - 1], d[i])
  <2>1. CASE i = l + 1
    <3>1. d[i - 1] < d[i]
      BY <2>1, <1>1, <1>4
    <3> QED BY <3>1, <2>1, <1>2, <1>4, <1>6
  <2>2. CASE i # l + 1
    <3>1. i \in 1..l
      BY <2>2, <1>0
    <3> QED BY <3>1, <1>0, <1>5, <1>6
  <2> QED BY <2>1, <2>2
<1>8. Cut(all, d)
  BY <1>3, <1>6, <1>7 DEF Cut
<1> QED BY <1>6, <1>8 DEF all, c, d

\* The oldest chunk may lose its beginning.
LEMMA CutTrimmed ==
    ASSUME NEW cs, NEW e, Cut(cs, e), Len(cs) > 0, NEW x \in Nat, e[0] + x < e[1]
    PROVE  LET ds == <<SubSeq(Head(cs), x + 1, Len(Head(cs)))>> \o Tail(cs)
           IN  Cut(ds, [e EXCEPT ![0] = @ + x]) /\ Len(ds) = Len(cs)
<1>0. /\ cs \in Seq(Seq(Nat)) /\ Len(cs) \in Nat /\ e \in [0..Len(cs) -> Nat]
      /\ \A i \in 1..Len(cs) : e[i - 1] < e[i] /\ cs[i] = Run(e[i - 1], e[i])
  BY DEF Cut
<1> DEFINE h == SubSeq(Head(cs), x + 1, Len(Head(cs)))
           t == Tail(cs)
           ds == <<h>> \o t
           d == [e EXCEPT ![0] = @ + x]
<1>1. /\ 0 \in 0..Len(cs) /\ 1 \in 0..Len(cs) /\ 1 \in 1..Len(cs)
      /\ e[0] \in Nat /\ e[1] \in Nat /\ e[0] + x \in Nat
  <2>1. 0 \in 0..Len(cs) /\ 1 \in 0..Len(cs) /\ 1 \in 1..Len(cs)
    BY <1>0
  <2>2. e[0] \in Nat /\ e[1] \in Nat
    BY <2>1, <1>0
  <2> QED BY <2>1, <2>2
<1>2. /\ d \in [0..Len(cs) -> Nat] /\ d[0] = e[0] + x
      /\ \A i \in 1..Len(cs) : d[i] = e[i]
  BY <1>0, <1>1
<1>3. Head(cs) = Run(e[0], e[1])
  BY <1>0, <1>1
<1>4. h = Run(e[0] + x, e[1])
  <2>1. SubSeq(Run(e[0], e[1]), x + 1, Len(Run(e[0], e[1]))) = Run(e[0] + x, e[1])
    BY <1>1, RunTrimmed
  <2> QED BY <2>1, <1>3
<1>5. h \in Seq(Nat)
  <2>1. e[0] + x <= e[1]
    BY <1>1
  <2>2. Run(e[0] + x, e[1]) \in Seq(Nat)
    BY <2>1, <1>1, RunType
  <2> QED BY <2>2, <1>4
<1>6. t \in Seq(Seq(Nat)) /\ Len(t) = Len(cs) - 1 /\ \A i \in 1..(Len(cs) - 1) : t[i] = cs[i + 1]
  <2>1. cs # <<>>
    BY <1>1
  <2> QED BY <2>1, <1>0, HeadTailProperties
<1> HIDE DEF h, t, d
<1>7. /\ ds \in Seq(Seq(Nat)) /\ Len(ds) = Len(cs) /\ ds[1] = h
      /\ \A i \in 2..Len(cs) : ds[i] = t[i - 1]
  <2>1. <<h>> \in Seq(Seq(Nat)) /\ Len(<<h>>) = 1 /\ <<h>>[1] = h
    BY <1>5
  <2>2. /\ ds \in Seq(Seq(Nat)) /\ Len(ds) = Len(<<h>>) + Len(t)
        /\ \A i \in 1..(Len(<<h>>) + Len(t)) :
             ds[i] = IF i <= Len(<<h>>) THEN <<h>>[i] ELSE t[i - Len(<<h>>)]
    BY <2>1, <1>6, ConcatProperties
  <2> HIDE DEF ds
  <2> QED BY <2>1, <2>2, <1>0, <1>1, <1>6
<1> HIDE DEF ds
<1>8. ASSUME NEW i \in 1..Len(cs) PROVE d[i - 1] < d[i] /\ ds[i] = Run(d[i - 1], d[i])
  <2>1. CASE i = 1
    <3>1. d[0] < d[1] /\ d[0] = e[0] + x /\ d[1] = e[1]
      BY <1>1, <1>2
    <3> QED BY <3>1, <2>1, <1>4, <1>7
  <2>2. CASE i # 1
    <3>1. /\ i \in 2..Len(cs) /\ i - 1 \in 1..(Len(cs) - 1) /\ (i - 1) + 1 = i
          /\ i - 1 \in 1..Len(cs)
      BY <2>2, <1>0
    <3>2. ds[i] = cs[i]
      BY <3>1, <1>6, <1>7
    <3> QED BY <3>1, <3>2, <1>0, <1>2
  <2> QED BY <2>1, <2>2
<1>9. Cut(ds, d)
  BY <1>2, <1>7, <1>8 DEF Cut
<1> QED BY <1>7, <1>9 DEF ds, h, t, d

\* The loop stops at the first chunk that the limit needs.
LEMMA EvictedCut ==
    ASSUME NEW cs, NEW e, Cut(cs, e), Len(cs) > 0, NEW total, total = e[Len(cs)] - e[0]
    PROVE  LET k == Evicted(cs, total)
           IN  /\ k \in 0..(Len(cs) - 1)
               /\ e[Len(cs)] - e[k + 1] < Limit
               /\ k > 0 => e[Len(cs)] - e[k] >= Limit
<1> DEFINE l == Len(cs)
           Stops(k) == ~Evicts(cs, total, k) /\ \A j \in 0..(k - 1) : Evicts(cs, total, j)
<1>1. l \in Nat /\ l # 0 /\ Limit \in Nat /\ Limit > 0 /\ e \in [0..l -> Nat]
  BY LimitAssumption DEF Cut
<1>2. ASSUME NEW k \in 0..l
      PROVE  Evicts(cs, total, k) <=> k < l /\ e[l] - e[k + 1] >= Limit
  <2>1. CASE k = l
    BY <2>1, <1>1 DEF Evicts
  <2>2. CASE k # l
    <3>1. k + 1 \in 0..l /\ l \in 0..l
      BY <2>2, <1>1
    <3>2. FirstBytes(cs, k + 1) = e[k + 1] - e[0] /\ e[0] \in Nat /\ e[k + 1] \in Nat
      BY <3>1, BytesCut
    <3>3. e[l] \in Nat
      BY <3>1, <1>1
    <3>4. total - FirstBytes(cs, k + 1) = e[l] - e[k + 1]
      BY <3>2, <3>3
    <3> QED BY <3>4 DEF Evicts
  <2> QED BY <2>1, <2>2
<1> DEFINE T == {k \in 0..l : ~Evicts(cs, total, k)}
<1>3. PICK m \in T : \A j \in T : m <= j
  <2>1. l \in T
    BY <1>1, <1>2
  <2>2. T \in SUBSET Nat
    BY <1>1
  <2> QED BY <2>1, <2>2, LeastNumber
<1>4. m \in 0..l /\ Stops(m)
  <2>1. m \in 0..l /\ ~Evicts(cs, total, m)
    BY <1>3
  <2>2. ASSUME NEW j \in 0..(m - 1) PROVE Evicts(cs, total, j)
    <3>1. j \in 0..l /\ ~(m <= j)
      BY <2>1, <1>1
    <3> QED BY <3>1, <1>3
  <2> QED BY <2>1, <2>2
<1> DEFINE k == Evicted(cs, total)
<1>5. k \in 0..l /\ Stops(k)
  <2>1. k = CHOOSE n \in 0..l : Stops(n)
    BY DEF Evicted
  <2> HIDE DEF Stops, l
  <2> QED BY <2>1, <1>4
<1> HIDE DEF k
<1>6. k # l
  <2> SUFFICES ASSUME k = l PROVE FALSE
    OBVIOUS
  <2>1. l - 1 \in 0..(k - 1) /\ l - 1 \in 0..l /\ (l - 1) + 1 = l /\ l \in 0..l
    BY <1>1
  <2>2. e[l] - e[l] >= Limit
    BY <2>1, <1>2, <1>5
  <2>3. e[l] \in Nat
    BY <2>1, <1>1
  <2> QED BY <2>2, <2>3, <1>1
<1>7. k \in 0..(l - 1)
  BY <1>1, <1>5, <1>6
<1>8. e[l] - e[k + 1] < Limit
  <2>1. k + 1 \in 0..l /\ l \in 0..l /\ k < l /\ k \in 0..l
    BY <1>1, <1>7
  <2>2. e[l] \in Int /\ e[k + 1] \in Int
    BY <2>1, <1>1
  <2>3. ~(e[l] - e[k + 1] >= Limit)
    BY <2>1, <1>2, <1>5
  <2> QED BY <2>2, <2>3, <1>1
<1>9. k > 0 => e[l] - e[k] >= Limit
  <2> SUFFICES ASSUME k > 0 PROVE e[l] - e[k] >= Limit
    OBVIOUS
  <2>1. k - 1 \in 0..(k - 1) /\ k - 1 \in 0..l /\ (k - 1) + 1 = k
    BY <1>1, <1>5
  <2> QED BY <2>1, <1>2, <1>5
<1> QED BY <1>7, <1>8, <1>9 DEF k

\* The bytes before a, those of whole chunks, are dropped, and x of the chunk
\* that ends at b.
LEMMA BytesLeft ==
    ASSUME NEW n \in Nat \ {0}, NEW m \in Nat \ {0}, NEW s \in Nat, NEW d \in Nat, NEW f \in Nat,
           f = d + s, s = IF f < m THEN f ELSE m,
           NEW a \in Nat, NEW b \in Nat, d <= a, a < b, b <= f + n,
           f + n - b < m, a = d \/ f + n - a >= m,
           NEW t, t = s + n - (a - d), NEW x, x = IF t > m THEN t - m ELSE 0
    PROVE  /\ t \in Nat /\ x \in Nat /\ t - x \in Nat /\ a + x < b
           /\ d + (a - d) + x = a + x /\ f + n = (a + x) + (t - x)
           /\ t - x = IF f + n < m THEN f + n ELSE m
OBVIOUS

\* What one read makes of the tail.
LEMMA FeedKeeps ==
    ASSUME TailInv, NEW n \in ChunkSizes, Feed(n)
    PROVE  TailInv'
<1>1. n \in Nat \ {0} /\ Limit \in Nat \ {0}
  BY ChunkSizesAssumption, LimitAssumption
<1>2. /\ size \in Nat /\ dropped \in Nat /\ fed \in Nat
      /\ fed = dropped + size /\ size = IF fed < Limit THEN fed ELSE Limit
  BY DEF TailInv
<1>3. PICK f \in [0..Len(chunks) -> Nat] :
        Cut(chunks, f) /\ f[0] = dropped /\ f[Len(chunks)] = fed
  BY DEF TailInv
<1> DEFINE all == Append(chunks, [i \in 1..n |-> fed + i])
           l   == Len(chunks) + 1
           e   == [i \in 0..l |-> IF i = l THEN fed + n ELSE f[i]]
<1>4. Cut(all, e) /\ Len(all) = l
  <2>1. LET q == Len(chunks)
            bs == Append(chunks, [i \in 1..n |-> f[q] + i])
            d == [i \in 0..(q + 1) |-> IF i = q + 1 THEN f[q] + n ELSE f[i]]
        IN  Cut(bs, d) /\ Len(bs) = q + 1
    BY <1>1, <1>3, CutAppended
  <2> QED BY <2>1, <1>3
<1>5. l \in Nat \ {0} /\ e[0] = dropped /\ e[l] = fed + n
  <2>1. Len(chunks) \in Nat
    BY <1>3 DEF Cut
  <2> QED BY <2>1, <1>3
<1>6. e \in [0..l -> Nat]
  BY <1>4 DEF Cut
<1> HIDE DEF e, l
<1> DEFINE gone   == Evicted(all, size + n)
           left   == SubSeq(all, gone + 1, Len(all))
           bytes  == FirstBytes(all, gone)
           total  == size + n - bytes
           excess == IF total > Limit THEN total - Limit ELSE 0
<1>7. /\ chunks' = IF excess = 0 THEN left
                   ELSE <<SubSeq(Head(left), excess + 1, Len(Head(left)))>> \o Tail(left)
      /\ size' = total - excess
      /\ dropped' = dropped + bytes + excess
      /\ fed' = fed + n
  BY DEF Feed
<1> HIDE DEF all
<1>8. /\ gone \in 0..(l - 1)
      /\ e[l] - e[gone + 1] < Limit
      /\ gone > 0 => e[l] - e[gone] >= Limit
  <2>1. size + n = e[l] - e[0] /\ Len(all) > 0
    BY <1>1, <1>2, <1>4, <1>5
  <2>2. LET k == Evicted(all, size + n)
        IN  /\ k \in 0..(Len(all) - 1)
            /\ e[Len(all)] - e[k + 1] < Limit
            /\ k > 0 => e[Len(all)] - e[k] >= Limit
    BY <2>1, <1>4, EvictedCut
  <2> QED BY <2>2, <1>4
<1> HIDE DEF gone
<1>9. gone \in 0..l /\ gone + 1 \in 0..l /\ l \in 0..l /\ l \in gone..l /\ gone \in Nat
  BY <1>5, <1>8
<1>10. bytes = e[gone] - dropped /\ dropped <= e[gone] /\ e[gone] \in Nat /\ e[gone + 1] \in Nat
  BY <1>4, <1>5, <1>6, <1>9, BytesCut
<1>11. e[gone] < e[gone + 1] /\ e[gone + 1] <= e[l]
  <2>1. gone + 1 \in 1..l /\ (gone + 1) - 1 = gone /\ l \in (gone + 1)..l
    BY <1>5, <1>8
  <2>2. e[gone] < e[gone + 1]
    BY <2>1, <1>4 DEF Cut
  <2> QED BY <2>1, <2>2, <1>4, <1>9, EdgesAscend
<1> HIDE DEF bytes
<1>12. /\ excess \in Nat
       /\ e[gone] + excess < e[gone + 1]
       /\ dropped' = e[gone] + excess /\ dropped' \in Nat
       /\ fed' = dropped' + size' /\ fed' \in Nat /\ size' \in Nat
       /\ size' = IF fed' < Limit THEN fed' ELSE Limit
  <2> DEFINE a == e[gone]
             b == e[gone + 1]
  <2>1. /\ a \in Nat /\ b \in Nat /\ dropped <= a /\ a < b /\ b <= fed + n
        /\ fed + n - b < Limit /\ bytes = a - dropped
    <3>1. a \in Nat /\ b \in Nat /\ dropped <= a /\ a < b /\ bytes = a - dropped
      BY <1>10, <1>11
    <3>2. b <= fed + n
      BY <1>5, <1>11
    <3>3. e[l] - b < Limit
      BY <1>8
    <3>4. fed + n - b < Limit
      <4>1. e[l] = fed + n
        BY <1>5
      <4> QED BY <3>3, <4>1
    <3> QED BY <3>1, <3>2, <3>4
  <2>2. a = dropped \/ fed + n - a >= Limit
    <3>1. CASE gone = 0
      BY <3>1, <1>5
    <3>2. CASE gone # 0
      <4>1. gone > 0
        BY <3>2, <1>9
      <4>2. e[l] - a >= Limit
        BY <4>1, <1>8
      <4> QED BY <4>2, <1>5
    <3> QED BY <3>1, <3>2
  <2> HIDE DEF a, b, total, excess
  <2>3. total = size + n - (a - dropped)
    BY <2>1 DEF total
  <2>4. excess = IF total > Limit THEN total - Limit ELSE 0
    BY DEF excess
  <2>5. /\ total \in Nat /\ excess \in Nat /\ total - excess \in Nat /\ a + excess < b
        /\ dropped + (a - dropped) + excess = a + excess
        /\ fed + n = (a + excess) + (total - excess)
        /\ total - excess = IF fed + n < Limit THEN fed + n ELSE Limit
    BY <1>1, <1>2, <2>1, <2>2, <2>3, <2>4, BytesLeft
  <2>6. dropped' = a + excess
    BY <1>7, <2>1, <2>5
  <2>7. dropped' \in Nat /\ fed' \in Nat
    BY <2>1, <2>5, <2>6, <1>1, <1>2, <1>7
  <2> QED BY <2>5, <2>6, <2>7, <1>7 DEF a, b
<1> DEFINE d == [i \in 0..(l - gone) |-> e[gone + i]]
<1>13. Cut(left, d) /\ Len(left) = l - gone
  BY <1>4, <1>9, CutPart
<1>14. /\ d[0] = e[gone] /\ d[1] = e[gone + 1] /\ d[l - gone] = fed + n
       /\ l - gone \in Nat /\ l - gone > 0
  BY <1>5, <1>8, <1>9
<1> HIDE DEF left, d, excess, total
<1>15. \E g \in [0..Len(chunks') -> Nat] :
         Cut(chunks', g) /\ g[0] = dropped' /\ g[Len(chunks')] = fed'
  <2>1. CASE excess = 0
    <3>1. chunks' = left /\ d \in [0..Len(left) -> Nat]
      BY <2>1, <1>7, <1>13 DEF Cut
    <3>2. d[0] = dropped' /\ d[Len(left)] = fed'
      BY <2>1, <1>7, <1>10, <1>12, <1>13, <1>14
    <3> QED BY <3>1, <3>2, <1>13
  <2>2. CASE excess # 0
    <3> DEFINE ds == <<SubSeq(Head(left), excess + 1, Len(Head(left)))>> \o Tail(left)
               g == [d EXCEPT ![0] = @ + excess]
    <3>1. Cut(ds, g) /\ Len(ds) = Len(left)
      <4>1. d[0] + excess < d[1] /\ Len(left) > 0 /\ excess \in Nat
        BY <1>12, <1>13, <1>14
      <4> QED BY <4>1, <1>13, CutTrimmed
    <3>2. chunks' = ds
      BY <2>2, <1>7
    <3>3. d \in [0..Len(left) -> Nat] /\ Len(left) = l - gone
      BY <1>13 DEF Cut
    <3>4. g[0] = dropped' /\ g[Len(left)] = fed'
      BY <3>3, <1>7, <1>12, <1>14
    <3>5. g \in [0..Len(ds) -> Nat]
      BY <3>1 DEF Cut
    <3> HIDE DEF ds, g
    <3> QED BY <3>1, <3>2, <3>4, <3>5
  <2> QED BY <2>1, <2>2
<1> QED BY <1>12, <1>15 DEF TailInv

LEMMA TailInvariance == AttemptSpec => []TailInv
<1>1. AttemptInit => TailInv
  <2> SUFFICES ASSUME AttemptInit PROVE TailInv
    OBVIOUS
  <2>1. chunks = <<>> /\ size = 0 /\ dropped = 0 /\ fed = 0 /\ Limit > 0
    BY LimitAssumption DEF AttemptInit, TailInit
  <2> DEFINE e == [i \in 0..0 |-> 0]
  <2>2. e \in [0..Len(chunks) -> Nat] /\ e[0] = dropped /\ e[Len(chunks)] = fed /\ Cut(chunks, e)
    BY <2>1 DEF Cut
  <2> HIDE DEF e
  <2> QED BY <2>1, <2>2 DEF TailInv
<1>2. TailInv /\ [AttemptNext]_attempt => TailInv'
  <2> SUFFICES ASSUME TailInv, [AttemptNext]_attempt PROVE TailInv'
    OBVIOUS
  <2>1. CASE UNCHANGED tail
    BY <2>1 DEF tail, TailInv, Cut, Run
  <2>2. CASE Read
    BY <2>2, FeedKeeps DEF Read, ReadChunk
  <2> QED BY <2>1, <2>2 DEF AttemptNext, attempt
<1> QED BY <1>1, <1>2, PTL DEF AttemptSpec

\* However a child's stderr is cut into reads and whenever it is quoted, the tail
\* is the last bytes of it, and the number of dropped bytes is right: feed
\* (workflows/activity.py) loses none in between, for every limit.
THEOREM TailAlwaysExact == AttemptSpec => []TailExact
<1>1. TailInv => TailExact
  <2> SUFFICES ASSUME TailInv PROVE TailExact
    OBVIOUS
  <2>1. /\ size \in Nat /\ dropped \in Nat /\ fed \in Nat
        /\ fed = dropped + size /\ size = IF fed < Limit THEN fed ELSE Limit
    BY DEF TailInv
  <2>2. PICK e \in [0..Len(chunks) -> Nat] :
          Cut(chunks, e) /\ e[0] = dropped /\ e[Len(chunks)] = fed
    BY DEF TailInv
  <2>3. Kept = Run(dropped, fed)
    BY <2>2, CutFlattened DEF Kept
  <2>4. Len(Run(dropped, fed)) = size
    <3>1. dropped <= fed /\ fed - dropped = size
      BY <2>1
    <3> QED BY <3>1, <2>1, RunType
  <2> QED BY <2>1, <2>3, <2>4 DEF TailExact, Run
<1> QED BY <1>1, TailInvariance, PTL
=============================================================================

-------------------------- MODULE ExecutorsProofs --------------------------
(***************************************************************************)
(* Proofs about the executors of a process.                                *)
(*                                                                         *)
(* RemoteCall, for any calls and any limit on the handles: what an error   *)
(* tells of the job behind it, when a job is cancelled, that a             *)
(* cancellation finds a free worker, and which handles Rigetti keeps.      *)
(* VqpuFamily, for any budget: no family is stranded.  LocalEngines, for   *)
(* any jobs and settings: what a circuit runs with, and on.  What is true  *)
(* of the three holds in Executors.  IonQExecution: at most one cancel     *)
(* request is sent for a job, and only for a job its caller has stopped    *)
(* waiting for.                                                            *)
(***************************************************************************)
EXTENDS Executors, IonQExecution, FiniteSetTheorems, TLAPS

\* How far the work of a call may be while its caller is at a given await.
StageFits(c) ==
    /\ at[c] = "idle" => \A w \in Works : work[c][w] = "none"
    /\ at[c] = "connect" => \A w \in Works \ {"connect"} : work[c][w] = "none"
    /\ at[c] = "submit" => \A w \in {"result", "cancel", "extra"} : work[c][w] = "none"
    /\ at[c] \in {"submit", "result", "cancel", "extra"} => work[c]["connect"] = "returned"
    /\ at[c] \in {"result", "cancel", "extra"} => work[c]["submit"] = "returned"
    /\ at[c] = "cancel" => work[c]["extra"] = "none"
    /\ at[c] = "ended" => \A w \in Works : work[c][w] # "queued"

\* What the identity says of the send, which a thread may finish at any time.
IdentityFits(c) ==
    /\ work[c]["submit"] # "none" => identity[c] \in {"unknown", "submitted"}
    /\ accepted[c] => work[c]["submit"] # "none"
    /\ work[c]["submit"] = "returned" => accepted[c]
    /\ identity[c] = "submitted" =>
          accepted[c] /\ at[c] \in {"result", "cancel", "extra", "ended"}
    /\ at[c] \in {"result", "cancel", "extra"} => identity[c] = "submitted"
    /\ at[c] = "ended" /\ verdict[c] # "result" => told[c] = identity[c]

\* A cancellation is handed to the pool only by wait(), of a named job.
CancelFits(c) ==
    /\ "wait" \in requests[c] => work[c]["cancel"] # "none"
    /\ work[c]["cancel"] # "none" => at[c] \in {"cancel", "ended"} /\ Cancels
    /\ at[c] = "cancel" \/ work[c]["cancel"] # "none" =>
          verdict[c] \in {"interrupted", "timeout"} /\ identity[c] = "submitted"

CallFits == \A c \in Calls : StageFits(c) /\ IdentityFits(c) /\ CancelFits(c)

\* A handle is held by a wait or kept after one.
HandlesFit ==
    /\ Len(interruptedJobs) <= MaxRetained
    /\ Handles # {} => executor = "rigetti"
    /\ \A c \in active : at[c] \in {"result", "cancel"}
    /\ \A i \in DOMAIN interruptedJobs :
          at[interruptedJobs[i]] = "ended" /\ identity[interruptedJobs[i]] = "submitted"
                                       /\ verdict[interruptedJobs[i]] # "result"

RemoteInv == RemoteTypeOK /\ CallFits /\ HandlesFit

---------------------------------------------------------------------------
(* The table of interrupted jobs.                                          *)

\* Keep adds at the end and takes at most the oldest away.
LEMMA KeepShape ==
    ASSUME NEW s \in Seq(Calls), NEW c \in Calls, Len(s) <= MaxRetained
    PROVE  /\ Keep(s, c) \in Seq(Calls)
           /\ Len(Keep(s, c)) <= MaxRetained
           /\ \A i \in DOMAIN Keep(s, c) :
                 Keep(s, c)[i] = c \/ \E k \in DOMAIN s : Keep(s, c)[i] = s[k]
           /\ \E i \in DOMAIN Keep(s, c) : Keep(s, c)[i] = c
           /\ \A k \in DOMAIN s :
                 \/ \E i \in DOMAIN Keep(s, c) : Keep(s, c)[i] = s[k]
                 \/ Len(s) = MaxRetained /\ s[k] = Head(s)
<1> DEFINE all == Append(s, c)
<1>1. PICK n \in Nat : n = Len(s)
  OBVIOUS
<1>2. MaxRetained \in Nat /\ MaxRetained >= 1 /\ n <= MaxRetained
  BY <1>1, MaxRetainedAssumption
<1>3. /\ all \in Seq(Calls) /\ Len(all) = n + 1
      /\ DOMAIN s = 1..n /\ DOMAIN all = 1..(n + 1)
      /\ \A k \in 1..n : all[k] = s[k]
      /\ all[n + 1] = c
  BY <1>1
<1>4. Keep(s, c) = IF Len(all) > MaxRetained THEN Tail(all) ELSE all
  BY DEF Keep
<1> HIDE DEF all
<1>5. CASE n + 1 <= MaxRetained
  <2>1. Keep(s, c) = all
    BY <1>2, <1>3, <1>4, <1>5
  <2>2. n + 1 \in 1..(n + 1) /\ \A k \in 1..n : k \in 1..(n + 1)
    OBVIOUS
  <2>3. \A i \in 1..(n + 1) : i = n + 1 \/ i \in 1..n
    OBVIOUS
  <2> QED BY <2>1, <2>2, <2>3, <1>3, <1>5
<1>6. CASE n + 1 > MaxRetained
  <2> DEFINE t == Tail(all)
  <2>1. Keep(s, c) = t
    BY <1>2, <1>3, <1>4, <1>6
  <2>2. n = MaxRetained /\ n >= 1
    BY <1>2, <1>6
  <2>3. /\ t \in Seq(Calls) /\ Len(t) = n
        /\ DOMAIN t = 1..n
        /\ \A i \in 1..n : t[i] = all[i + 1]
    BY <1>3, <2>2
  <2> HIDE DEF t
  <2>4. ASSUME NEW i \in 1..n
        PROVE  t[i] = c \/ \E k \in 1..n : t[i] = s[k]
    <3>1. t[i] = all[i + 1]
      BY <2>3
    <3>2. CASE i = n
      BY <3>1, <3>2, <1>3
    <3>3. CASE i # n
      <4>1. i + 1 \in 1..n
        BY <3>3
      <4>2. all[i + 1] = s[i + 1]
        BY <4>1, <1>3
      <4> QED BY <3>1, <4>1, <4>2
    <3> QED BY <3>2, <3>3
  <2>5. t[n] = c /\ n \in 1..n
    BY <1>3, <2>2, <2>3
  <2>6. s[1] = Head(s)
    OBVIOUS
  <2>7. ASSUME NEW k \in 1..n
        PROVE  (\E i \in 1..n : t[i] = s[k]) \/ s[k] = Head(s)
    <3>1. CASE k = 1
      BY <3>1, <2>6
    <3>2. CASE k # 1
      <4>1. k - 1 \in 1..n /\ (k - 1) + 1 = k
        BY <3>2
      <4>2. t[k - 1] = all[k]
        BY <4>1, <2>3
      <4>3. all[k] = s[k]
        BY <1>3
      <4> QED BY <4>1, <4>2, <4>3
    <3> QED BY <3>1, <3>2
  <2>8. DOMAIN s = 1..n /\ Len(s) = MaxRetained
    BY <1>1, <1>3, <2>2
  <2>9. t \in Seq(Calls) /\ Len(t) <= MaxRetained
    BY <2>2, <2>3
  <2>10. \A i \in DOMAIN t : t[i] = c \/ \E k \in DOMAIN s : t[i] = s[k]
    BY <2>3, <2>4, <2>8
  <2>11. \E i \in DOMAIN t : t[i] = c
    BY <2>3, <2>5
  <2>12. \A k \in DOMAIN s :
            \/ \E i \in DOMAIN t : t[i] = s[k]
            \/ Len(s) = MaxRetained /\ s[k] = Head(s)
    BY <2>3, <2>7, <2>8
  <2> QED BY <2>1, <2>9, <2>10, <2>11, <2>12
<1> QED BY <1>2, <1>5, <1>6

---------------------------------------------------------------------------
(* The invariant.                                                          *)

\* What Release does to the two tables.
LEMMA ReleaseShape ==
    ASSUME RemoteTypeOK, HandlesFit, NEW c \in Calls, NEW failed \in BOOLEAN,
           Release(c, failed)
    PROVE  /\ active' = active \ {c}
           /\ interruptedJobs' \in Seq(Calls)
           /\ Len(interruptedJobs') <= MaxRetained
           /\ \A i \in DOMAIN interruptedJobs' :
                 \/ failed /\ c \in active /\ interruptedJobs'[i] = c
                 \/ \E k \in DOMAIN interruptedJobs : interruptedJobs'[i] = interruptedJobs[k]
           /\ failed /\ c \in active => \E i \in DOMAIN interruptedJobs' : interruptedJobs'[i] = c
           /\ \A k \in DOMAIN interruptedJobs :
                 \/ \E i \in DOMAIN interruptedJobs' : interruptedJobs'[i] = interruptedJobs[k]
                 \/ Len(interruptedJobs) = MaxRetained /\ interruptedJobs[k] = Head(interruptedJobs)
<1>1. active' = active \ {c}
  BY DEF Release
<1>2. interruptedJobs \in Seq(Calls) /\ Len(interruptedJobs) <= MaxRetained
  BY DEF RemoteTypeOK, HandlesFit
<1>3. CASE failed /\ c \in active
  <2> DEFINE kept == Keep(interruptedJobs, c)
  <2>1. interruptedJobs' = kept
    BY <1>3 DEF Release
  <2>2. /\ kept \in Seq(Calls) /\ Len(kept) <= MaxRetained
        /\ \A i \in DOMAIN kept :
              kept[i] = c \/ \E k \in DOMAIN interruptedJobs : kept[i] = interruptedJobs[k]
        /\ \E i \in DOMAIN kept : kept[i] = c
        /\ \A k \in DOMAIN interruptedJobs :
              \/ \E i \in DOMAIN kept : kept[i] = interruptedJobs[k]
              \/ Len(interruptedJobs) = MaxRetained /\ interruptedJobs[k] = Head(interruptedJobs)
    BY <1>2, KeepShape
  <2> HIDE DEF kept
  <2> QED BY <1>1, <1>3, <2>1, <2>2
<1>4. CASE ~(failed /\ c \in active)
  <2>1. interruptedJobs' = interruptedJobs
    BY <1>4 DEF Release
  <2> QED BY <1>1, <1>2, <1>4, <2>1
<1> QED BY <1>3, <1>4

\* A step of one call leaves the others as they are.
LEMMA OtherCall ==
    ASSUME NEW d \in Calls, StageFits(d) /\ IdentityFits(d) /\ CancelFits(d),
           at'[d] = at[d], work'[d] = work[d], identity'[d] = identity[d],
           accepted'[d] = accepted[d], verdict'[d] = verdict[d], told'[d] = told[d],
           requests'[d] = requests[d], executor' = executor
    PROVE  StageFits(d)' /\ IdentityFits(d)' /\ CancelFits(d)'
BY DEF StageFits, IdentityFits, CancelFits, Cancels

\* A call that ends, with verdict v: nothing of its queue is left.
LEMMA LeaveKeeps ==
    ASSUME RemoteInv, NEW c \in Calls,
           NEW v \in {"result", "error", "interrupted", "timeout"},
           at[c] \notin {"idle", "ended"},
           at[c] = "cancel" => v \in {"interrupted", "timeout"},
           Leave(c, v),
           NEW failed \in BOOLEAN, failed => v # "result", Release(c, failed)
    PROVE  RemoteInv'
<1> DEFINE shut == [w \in Works |-> IF work[c][w] = "queued" THEN "dropped" ELSE work[c][w]]
<1>0. RemoteTypeOK /\ CallFits /\ HandlesFit
  BY DEF RemoteInv
<1>1. /\ work' = [work EXCEPT ![c] = shut]
      /\ at' = [at EXCEPT ![c] = "ended"]
      /\ verdict' = [verdict EXCEPT ![c] = v]
      /\ told' = [told EXCEPT ![c] = IF v = "result" THEN "absent" ELSE identity[c]]
      /\ UNCHANGED <<executor, timed, identity, accepted, requests>>
  BY DEF Leave, Shut
<1>2. shut \in [Works -> Progress]
  BY <1>0 DEF RemoteTypeOK, Progress
<1>3. \A w \in Works : /\ shut[w] # "queued"
                       /\ shut[w] = "none" <=> work[c][w] = "none"
                       /\ shut[w] = "returned" <=> work[c][w] = "returned"
  OBVIOUS
<1> HIDE DEF shut
<1>4. RemoteTypeOK'
  BY <1>0, <1>1, <1>2, ReleaseShape DEF RemoteTypeOK, Stages, Statuses
<1>5. CallFits'
  <2> SUFFICES ASSUME NEW d \in Calls
               PROVE  StageFits(d)' /\ IdentityFits(d)' /\ CancelFits(d)'
    BY DEF CallFits
  <2>1. StageFits(d) /\ IdentityFits(d) /\ CancelFits(d)
    BY <1>0 DEF CallFits
  <2>2. CASE d # c
    <3>1. /\ at'[d] = at[d] /\ work'[d] = work[d] /\ verdict'[d] = verdict[d]
          /\ told'[d] = told[d]
      BY <2>2, <1>0, <1>1 DEF RemoteTypeOK
    <3> QED BY <2>1, <3>1, <1>1, OtherCall
  <2>3. CASE d = c
    <3>1. /\ at'[c] = "ended" /\ work'[c] = shut /\ verdict'[c] = v
          /\ told'[c] = IF v = "result" THEN "absent" ELSE identity[c]
      BY <1>0, <1>1 DEF RemoteTypeOK
    <3>2. StageFits(c)'
      BY <3>1, <1>3 DEF StageFits
    <3>3. IdentityFits(c)'
      BY <2>1, <2>3, <3>1, <1>1, <1>3 DEF IdentityFits, Works
    <3>4. CancelFits(c)'
      BY <2>1, <2>3, <3>1, <1>1, <1>3 DEF CancelFits, Cancels, Works
    <3> QED BY <2>3, <3>2, <3>3, <3>4
  <2> QED BY <2>2, <2>3
<1>6. HandlesFit'
  <2>1. /\ active' = active \ {c}
        /\ Len(interruptedJobs') <= MaxRetained
        /\ \A i \in DOMAIN interruptedJobs' :
              \/ failed /\ c \in active /\ interruptedJobs'[i] = c
              \/ \E k \in DOMAIN interruptedJobs : interruptedJobs'[i] = interruptedJobs[k]
    BY <1>0, ReleaseShape
  <2>2. Handles' # {} => Handles # {}
    BY <2>1 DEF Handles
  <2>3. \A d \in active' : at'[d] \in {"result", "cancel"}
    BY <2>1, <1>0, <1>1 DEF HandlesFit, RemoteTypeOK
  <2>4. ASSUME NEW i \in DOMAIN interruptedJobs'
        PROVE  /\ at'[interruptedJobs'[i]] = "ended"
               /\ identity'[interruptedJobs'[i]] = "submitted"
               /\ verdict'[interruptedJobs'[i]] # "result"
    <3>1. CASE failed /\ c \in active /\ interruptedJobs'[i] = c
      <4>1. at[c] \in {"result", "cancel"} /\ IdentityFits(c)
        BY <3>1, <1>0 DEF HandlesFit, CallFits
      <4> QED BY <3>1, <4>1, <1>0, <1>1 DEF IdentityFits, RemoteTypeOK
    <3>2. CASE \E k \in DOMAIN interruptedJobs : interruptedJobs'[i] = interruptedJobs[k]
      <4>1. PICK k \in DOMAIN interruptedJobs : interruptedJobs'[i] = interruptedJobs[k]
        BY <3>2
      <4>2. interruptedJobs[k] \in Calls
        BY <1>0 DEF RemoteTypeOK
      <4>3. /\ at[interruptedJobs[k]] = "ended" /\ identity[interruptedJobs[k]] = "submitted"
            /\ verdict[interruptedJobs[k]] # "result"
        BY <1>0 DEF HandlesFit
      <4> QED BY <4>1, <4>2, <4>3, <1>0, <1>1 DEF RemoteTypeOK
    <3> QED BY <2>1, <3>1, <3>2
  <2> QED BY <2>1, <2>2, <2>3, <2>4, <1>0, <1>1 DEF HandlesFit
<1> QED BY <1>4, <1>5, <1>6 DEF RemoteInv

\* An await that begins: the caller queues the next piece of work.
LEMMA AwaitKeeps ==
    ASSUME RemoteInv, NEW c \in Calls,
           Start(c) \/ Submit(c) \/ Await(c) \/ (\E why \in {"interrupted", "timeout"} : Abandons(c, why))
    PROVE  RemoteInv'
<1>0. RemoteTypeOK /\ CallFits /\ HandlesFit
  BY DEF RemoteInv
<1>1. /\ \A d \in Calls \ {c} :
            /\ at'[d] = at[d] /\ work'[d] = work[d] /\ identity'[d] = identity[d]
            /\ verdict'[d] = verdict[d]
      /\ UNCHANGED <<executor, timed, told, accepted, requests, interruptedJobs>>
  BY <1>0 DEF RemoteTypeOK, Start, Submit, Await, Abandons, Queue
<1>2. RemoteTypeOK'
  <2> USE <1>0 DEF RemoteTypeOK, Stages, Statuses, Works, Progress, Queue
  <2>1. CASE Start(c)
    BY <2>1 DEF Start
  <2>2. CASE Submit(c)
    BY <2>2 DEF Submit, NextIdentity
  <2>3. CASE Await(c)
    BY <2>3 DEF Await
  <2>4. CASE \E why \in {"interrupted", "timeout"} : Abandons(c, why)
    BY <2>4 DEF Abandons
  <2> QED BY <2>1, <2>2, <2>3, <2>4
<1>3. StageFits(c)' /\ IdentityFits(c)' /\ CancelFits(c)'
  <2>1. StageFits(c) /\ IdentityFits(c) /\ CancelFits(c)
    BY <1>0 DEF CallFits
  <2> USE <2>1, <1>0 DEF RemoteTypeOK, StageFits, IdentityFits, CancelFits, Queue, Works
  <2>2. CASE Start(c)
    BY <2>2 DEF Start
  <2>3. CASE Submit(c)
    BY <2>3 DEF Submit, NextIdentity
  <2>4. CASE Await(c)
    BY <2>4 DEF Await
  <2>5. CASE \E why \in {"interrupted", "timeout"} : Abandons(c, why)
    BY <2>5 DEF Abandons, Cancels
  <2> QED BY <2>2, <2>3, <2>4, <2>5
<1>4. CallFits'
  BY <1>0, <1>1, <1>3, OtherCall DEF CallFits, RemoteTypeOK
<1>5. HandlesFit'
  <2> USE <1>0 DEF RemoteTypeOK, HandlesFit, Handles
  <2>1. \A i \in DOMAIN interruptedJobs : interruptedJobs[i] \in Calls
    OBVIOUS
  <2>2. CASE Start(c)
    BY <2>1, <2>2 DEF Start
  <2>3. CASE Submit(c)
    BY <2>1, <2>3 DEF Submit
  <2>4. CASE Await(c)
    BY <2>1, <2>4 DEF Await
  <2>5. CASE \E why \in {"interrupted", "timeout"} : Abandons(c, why)
    BY <2>1, <2>5 DEF Abandons
  <2> QED BY <2>2, <2>3, <2>4, <2>5
<1> QED BY <1>2, <1>4, <1>5 DEF RemoteInv

\* A step of a worker thread.
LEMMA ThreadKeeps ==
    ASSUME RemoteInv, NEW c \in Calls, Threads(c)
    PROVE  RemoteInv'
<1>0. RemoteTypeOK /\ CallFits /\ HandlesFit
  BY DEF RemoteInv
<1>1. StageFits(c) /\ IdentityFits(c) /\ CancelFits(c)
  BY <1>0 DEF CallFits
<1>2. /\ \A d \in Calls \ {c} :
            /\ work'[d] = work[d] /\ accepted'[d] = accepted[d] /\ requests'[d] = requests[d]
      /\ UNCHANGED <<executor, timed, at, identity, verdict, told, active, interruptedJobs>>
  BY <1>0 DEF RemoteTypeOK, Threads, Accepts, CancelArrives, ThreadTakes, ThreadEnds
<1>3. RemoteTypeOK' /\ StageFits(c)' /\ IdentityFits(c)' /\ CancelFits(c)'
  <2> USE <1>0, <1>1, <1>2
      DEF RemoteTypeOK, StageFits, IdentityFits, CancelFits, Cancels, Works, Progress
  <2>1. CASE Accepts(c)
    BY <2>1 DEF Accepts
  <2>2. CASE CancelArrives(c)
    BY <2>2 DEF CancelArrives
  <2>3. ASSUME NEW w \in Works, ThreadTakes(c, w)
        PROVE  RemoteTypeOK' /\ StageFits(c)' /\ IdentityFits(c)' /\ CancelFits(c)'
    BY <2>3 DEF ThreadTakes
  <2>4. ASSUME NEW w \in Works, NEW end \in {"returned", "raised", "timedOut"},
               ThreadEnds(c, w, end)
        PROVE  RemoteTypeOK' /\ StageFits(c)' /\ IdentityFits(c)' /\ CancelFits(c)'
    BY <2>4 DEF ThreadEnds
  <2> QED BY <2>1, <2>2, <2>3, <2>4 DEF Threads
<1>4. CallFits'
  BY <1>0, <1>2, <1>3, OtherCall DEF CallFits
<1>5. HandlesFit'
  BY <1>0, <1>2 DEF HandlesFit, Handles
<1> QED BY <1>3, <1>4, <1>5 DEF RemoteInv

\* The lookup after a result, and a request of the user's.
LEMMA LookUpKeeps ==
    ASSUME RemoteInv, NEW c \in Calls, LookUp(c)
    PROVE  RemoteInv'
<1>0. RemoteTypeOK /\ CallFits /\ HandlesFit
  BY DEF RemoteInv
<1>1. StageFits(c) /\ IdentityFits(c) /\ CancelFits(c)
  BY <1>0 DEF CallFits
<1>2. active' = active \ {c} /\ interruptedJobs' = interruptedJobs
  BY DEF LookUp, Release
<1>3. RemoteTypeOK'
  BY <1>0, <1>2 DEF RemoteTypeOK, LookUp, Queue, Stages, Works, Progress
<1>4. StageFits(c)' /\ IdentityFits(c)' /\ CancelFits(c)'
  BY <1>0, <1>1 DEF RemoteTypeOK, LookUp, Queue, StageFits, IdentityFits, CancelFits, Cancels, Works
<1>5. CallFits'
  <2>1. \A d \in Calls \ {c} : at'[d] = at[d] /\ work'[d] = work[d]
    BY <1>0 DEF RemoteTypeOK, LookUp, Queue
  <2> QED BY <1>0, <1>4, <2>1, OtherCall DEF CallFits, LookUp
<1>6. HandlesFit'
  <2>1. \A i \in DOMAIN interruptedJobs : interruptedJobs[i] \in Calls
    BY <1>0 DEF RemoteTypeOK
  <2>2. at[c] = "result" /\ at' = [at EXCEPT ![c] = "extra"] /\ at \in [Calls -> Stages]
        /\ UNCHANGED <<executor, identity, verdict>>
    BY <1>0 DEF LookUp, RemoteTypeOK
  <2> QED BY <1>0, <1>2, <2>1, <2>2 DEF HandlesFit, Handles
<1> QED BY <1>3, <1>5, <1>6 DEF RemoteInv

LEMMA UserKeeps ==
    ASSUME RemoteInv, NEW c \in Calls, CancelByUser(c)
    PROVE  RemoteInv'
<1>0. RemoteTypeOK /\ CallFits /\ HandlesFit
  BY DEF RemoteInv
<1>1. RemoteTypeOK'
  BY <1>0 DEF RemoteTypeOK, CancelByUser
<1>2. CallFits'
  BY <1>0 DEF RemoteTypeOK, CancelByUser, CallFits, StageFits, IdentityFits, CancelFits, Cancels
<1>3. HandlesFit'
  BY <1>0 DEF CancelByUser, HandlesFit, Handles
<1> QED BY <1>1, <1>2, <1>3 DEF RemoteInv

\* The steps that end a call.
LEMMA EndKeeps ==
    ASSUME RemoteInv, NEW c \in Calls,
           \/ Fails(c) \/ EndsCancelWait(c)
           \/ \E v \in {"result", "error"} : Answers(c, v)
           \/ \E why \in {"interrupted", "timeout"} : GivesUp(c, why)
    PROVE  RemoteInv'
<1>1. CASE Fails(c)
  BY <1>1, LeaveKeeps DEF Fails
<1>2. CASE EndsCancelWait(c)
  <2>1. CancelFits(c)
    BY DEF RemoteInv, CallFits
  <2> QED BY <1>2, <2>1, LeaveKeeps DEF EndsCancelWait, CancelFits
<1>3. ASSUME NEW v \in {"result", "error"}, Answers(c, v)
      PROVE  RemoteInv'
  BY <1>3, LeaveKeeps DEF Answers
<1>4. ASSUME NEW why \in {"interrupted", "timeout"}, GivesUp(c, why)
      PROVE  RemoteInv'
  <2>1. at[c] \notin {"idle", "ended", "cancel"}
    BY <1>4 DEF GivesUp, LosesPatience, Bounded
  <2> QED BY <1>4, <2>1, LeaveKeeps DEF GivesUp
<1> QED BY <1>1, <1>2, <1>3, <1>4

\* The invariant holds in every reachable state.
LEMMA RemoteInvariance == RemoteSpec => []RemoteInv
<1>1. RemoteInit => RemoteInv
  <2> SUFFICES ASSUME RemoteInit
               PROVE  RemoteInv
    OBVIOUS
  <2>1. RemoteTypeOK
    BY DEF RemoteInit, RemoteTypeOK, Stages, Works, Progress, Statuses
  <2>2. CallFits
    BY DEF RemoteInit, CallFits, StageFits, IdentityFits, CancelFits, Works
  <2>3. HandlesFit
    BY MaxRetainedAssumption DEF RemoteInit, HandlesFit, Handles
  <2> QED BY <2>1, <2>2, <2>3 DEF RemoteInv
<1>2. RemoteInv /\ [RemoteNext]_remote => RemoteInv'
  <2> SUFFICES ASSUME RemoteInv, [RemoteNext]_remote
               PROVE  RemoteInv'
    OBVIOUS
  <2>1. CASE UNCHANGED remote
    BY <2>1 DEF remote, RemoteInv, RemoteTypeOK, CallFits, StageFits, IdentityFits,
                CancelFits, Cancels, HandlesFit, Handles
  <2>2. ASSUME NEW c \in Calls,
               \/ Caller(c) \/ Interruption(c) \/ EndsCancelWait(c)
               \/ Threads(c) \/ CancelByUser(c)
        PROVE  RemoteInv'
    BY <2>2, AwaitKeeps, EndKeeps, LookUpKeeps, ThreadKeeps, UserKeeps
       DEF Caller, Interruption
  <2> QED BY <2>1, <2>2 DEF RemoteNext
<1> QED BY <1>1, <1>2, PTL DEF RemoteSpec

---------------------------------------------------------------------------
(* Theorems.                                                               *)

\* The variables keep their types.
THEOREM RemoteTypeCorrect == RemoteSpec => []RemoteTypeOK
<1>1. RemoteInv => RemoteTypeOK
  BY DEF RemoteInv
<1> QED BY <1>1, RemoteInvariance, PTL

\* An error of execute() never hides a job the vendor accepted or may still
\* accept, and never names one it does not have.
THEOREM ErrorsTellTheJob == RemoteSpec => []IdentityTold
<1>1. RemoteInv => IdentityTold
  <2> SUFFICES ASSUME RemoteInv, NEW c \in Calls, at[c] = "ended", verdict[c] # "result"
               PROVE  /\ accepted[c] \/ work[c]["submit"] = "running" =>
                            told[c] \in {"unknown", "submitted"}
                      /\ told[c] = "submitted" => accepted[c]
                      /\ c \in Handles => told[c] = "submitted"
    BY DEF IdentityTold
  <2>1. IdentityFits(c) /\ HandlesFit
    BY DEF RemoteInv, CallFits
  <2>2. c \in Handles => identity[c] = "submitted"
    BY <2>1 DEF HandlesFit, Handles, IdentityFits
  <2> QED BY <2>1, <2>2 DEF IdentityFits
<1> QED BY <1>1, RemoteInvariance, PTL

\* A queued cancellation never waits behind a vendor call that hangs.
THEOREM CleanupFindsAThread == RemoteSpec => []CleanupStarts
<1>1. RemoteInv => CleanupStarts
  <2> SUFFICES ASSUME RemoteInv, NEW c \in Calls, work[c]["cancel"] = "queued"
               PROVE  Cardinality(Busy(c)) < PoolSize
    BY DEF CleanupStarts
  <2>1. StageFits(c) /\ CancelFits(c)
    BY DEF RemoteInv, CallFits
  <2>2. at[c] = "cancel"
    BY <2>1 DEF StageFits, CancelFits, Works
  <2>3. Busy(c) \subseteq {"result"}
    BY <2>1, <2>2 DEF StageFits, Busy, Works
  <2>4. Busy(c) = {} \/ Busy(c) = {"result"}
    BY <2>3
  <2>5. Cardinality(Busy(c)) \in {0, 1}
    BY <2>4, FS_EmptySet, FS_Singleton
  <2> QED BY <2>5 DEF PoolSize
<1> QED BY <1>1, RemoteInvariance, PTL

\* wait() has the vendor cancel only a named job whose caller gave up, and
\* none of IBM's.
THEOREM OnlyAbandonedJobsCancelled == RemoteSpec => []CancelJustified
<1>1. RemoteInv => CancelJustified
  BY DEF RemoteInv, CallFits, CancelFits, CancelJustified, Cancels
<1> QED BY <1>1, RemoteInvariance, PTL

\* A Rigetti handle goes when its result has arrived, or as the oldest of a
\* full table of interruptedJobs jobs.
THEOREM HandlesStay == RemoteSpec => HandlesKept
<1>1. RemoteInv /\ [RemoteNext]_remote =>
         [\A c \in Handles \ Handles' :
             \/ at[c] = "result" /\ work[c]["result"] = "returned"
             \/ Len(interruptedJobs) = MaxRetained /\ c = Head(interruptedJobs)]_remote
  <2> SUFFICES ASSUME RemoteInv, RemoteNext, NEW c \in Handles \ Handles'
               PROVE  \/ at[c] = "result" /\ work[c]["result"] = "returned"
                      \/ Len(interruptedJobs) = MaxRetained /\ c = Head(interruptedJobs)
    OBVIOUS
  <2>0. RemoteTypeOK /\ CallFits /\ HandlesFit
    BY DEF RemoteInv
  <2>1. ~(active \subseteq active' /\ UNCHANGED interruptedJobs)
    BY DEF Handles
  <2>2. PICK d \in Calls, failed \in BOOLEAN :
           /\ Release(d, failed)
           /\ ~failed => Answers(d, "result") \/ Answers(d, "error") \/ LookUp(d)
    BY <2>1 DEF RemoteNext, Caller, Interruption, Threads, Start, Submit, Await, Fails,
                Answers, LookUp, GivesUp, Abandons, EndsCancelWait, Accepts, CancelArrives,
                ThreadTakes, ThreadEnds, CancelByUser
  <2>3. /\ active' = active \ {d}
        /\ failed /\ d \in active => d \in Handles'
        /\ \A k \in DOMAIN interruptedJobs :
              \/ interruptedJobs[k] \in Handles'
              \/ Len(interruptedJobs) = MaxRetained /\ interruptedJobs[k] = Head(interruptedJobs)
    BY <2>0, <2>2, ReleaseShape DEF Handles
  <2>4. CASE c \in active
    <3>1. c = d /\ ~failed
      BY <2>3, <2>4 DEF Handles
    <3>2. at[c] \in {"result", "cancel"} /\ executor = "rigetti"
      BY <2>0, <2>4 DEF HandlesFit, Handles
    <3> QED BY <2>2, <3>1, <3>2 DEF Answers, LookUp
  <2>5. CASE c \notin active
    BY <2>3, <2>5 DEF Handles
  <2> QED BY <2>4, <2>5
<1> QED BY <1>1, RemoteInvariance, PTL DEF RemoteSpec, HandlesKept

---------------------------------------------------------------------------
(* The family.                                                             *)

\* Where execute() has not begun its teardown.
Working == {"raising", "polling", "sleeping", "running", "gathering"}

\* Somebody will still drop the family.
DropToCome ==
    \/ step \in Working
    \/ qdrop \in {"queued", "running"}
    \/ qraise = "running" /\ abandoned
    \/ qraise = "late"

\* qraise runs only for a caller that waits for it or has left its flag, and a
\* job that is up will be dropped.
FamilyInv ==
    /\ abandoned \in BOOLEAN /\ spoiled \in BOOLEAN
    /\ step = "idle" => qraise = "none" /\ qdrop = "none" /\ slurm = "none" /\ ~abandoned
    /\ qraise = "queued" => step = "raising"
    /\ qraise = "running" => step = "raising" \/ abandoned
    /\ slurm = "up" => spoiled \/ qdrop = "dropped" \/ DropToCome

LEMMA FamilyStarts == FamilyInit => FamilyInv
BY DEF FamilyInit, FamilyInv

LEMMA FamilyKeeps == FamilyInv /\ [FamilyNext]_family => FamilyInv'
<1> SUFFICES ASSUME FamilyInv, [FamilyNext]_family PROVE FamilyInv'
  OBVIOUS
<1> USE DEF FamilyInv, DropToCome, Working
<1>1. CASE Takes
  BY <1>1 DEF Takes
<1>2. CASE SbatchLands
  BY <1>2 DEF SbatchLands
<1>3. ASSUME NEW end \in {"returned", "raised"}, RaiseEnds(end) \/ VendorEnds(end)
      PROVE  FamilyInv'
  BY <1>3 DEF RaiseEnds, VendorEnds
<1>4. ASSUME NEW ok \in BOOLEAN, LateDrop(ok) \/ DropEnds(ok)
      PROVE  FamilyInv'
  <2>1. CASE LateDrop(ok)
    BY <2>1 DEF LateDrop, Drops
  <2>2. CASE DropEnds(ok)
    <3>1. slurm' = "up" => spoiled'
      BY <2>2 DEF DropEnds, Drops
    <3>2. spoiled' \in BOOLEAN /\ UNCHANGED <<step, qraise, abandoned>> /\ step # "idle"
      BY <2>2 DEF DropEnds, Drops
    <3> QED BY <3>1, <3>2
  <2> QED BY <1>4, <2>1, <2>2
<1>5. CASE Tick
  BY <1>5 DEF Tick
<1>6. CASE Refuses \/ Raises
  BY <1>6 DEF Refuses, Raises
<1>7. CASE RaiseReturned \/ RaiseTimesOut
  BY <1>7 DEF RaiseReturned, RaiseTimesOut, TearDown, GiveUpRaise
<1>8. ASSUME NEW n \in NQpus..(NQpus + 1), PolledReady(n)
      PROVE  FamilyInv'
  BY <1>8 DEF PolledReady
<1>9. CASE PolledShort \/ PollTimesOut \/ Wakes
  BY <1>9 DEF PolledShort, PollTimesOut, Wakes, TearDown
<1>10. CASE Ran \/ VendorFailed
  BY <1>10 DEF Ran, VendorFailed, TearDown
<1>11. ASSUME NEW short \in BOOLEAN, Gathered(short)
       PROVE  FamilyInv'
  BY <1>11 DEF Gathered, TearDown
<1>12. CASE Dropped
  BY <1>12 DEF Dropped
<1>13. CASE Interrupted
  <2>1. CASE step \in Working
    BY <1>13, <2>1 DEF Interrupted, TearDown, GiveUpRaise
  <2>2. CASE step \in {"dropping", "droppingAgain"}
    BY <1>13, <2>2 DEF Interrupted
  <2> QED BY <1>13, <2>1, <2>2 DEF Interrupted
<1>14. CASE UNCHANGED family
  BY <1>14 DEF family
<1> QED
  BY <1>1, <1>2, <1>3, <1>4, <1>5, <1>6, <1>7, <1>8, <1>9, <1>10, <1>11, <1>12, <1>13, <1>14
     DEF FamilyNext, FamilyThreads, FamilyCaller

\* No family is left in the queue, for any numbers of vQPUs and shots, budget
\* and cancellations.
THEOREM NoFamilyStranded == FamilySpec => []NothingStranded
<1>1. FamilyInv => NothingStranded
  BY DEF FamilyInv, DropToCome, Working, NothingStranded, FamilyQuiet
<1> QED BY <1>1, FamilyStarts, FamilyKeeps, PTL DEF FamilySpec

---------------------------------------------------------------------------
(* The engines.                                                            *)

Places == {"idle", "blocked", "locked", "targeted", "prepared", "sampled", "failed", "over"}

\* Between the acquisition of the lock and its release.
Inside(j) == thread[j] \in {"locked", "targeted", "prepared", "sampled", "failed"}

EnginesShape ==
    /\ setting \in [Jobs -> Settings]
    /\ thread \in [Jobs -> Places]
    /\ DOMAIN saved = Jobs /\ DOMAIN saw = Jobs

\* What the thread that holds CUDA-Q's lock has made of the globals.
LockFits(j) ==
    engine = "cudaq" =>
        /\ Inside(j) <=> lock = j
        /\ Inside(j) =>
              /\ saved[j] = UserToken
              /\ token = IF Overrides(j) THEN setting[j].token ELSE UserToken
        /\ thread[j] \in {"targeted", "prepared"} => target = Resolved(j)
        /\ thread[j] = "prepared" /\ setting[j].seed # Nothing =>
              rng = <<setting[j].seed, 0>>

\* What a circuit ran with.
SawFits(j) ==
    saw[j] # Nothing =>
        /\ setting[j].seed # Nothing => saw[j].rng = <<setting[j].seed, 0>>
        /\ engine = "cudaq" =>
             /\ saw[j].target = Resolved(j)
             /\ saw[j].token = IF Overrides(j) THEN setting[j].token ELSE UserToken

\* Only CUDA-Q changes the token, under its lock.
TokenFits ==
    /\ lock = Nothing => token = UserToken
    /\ engine # "cudaq" => token = UserToken

EnginesInv ==
    /\ EnginesShape
    /\ TokenFits
    /\ \A j \in Jobs : LockFits(j) /\ SawFits(j)

LEMMA EnginesStart == EnginesInit => EnginesInv
BY NothingAssumption
   DEF EnginesInit, EnginesInv, EnginesShape, TokenFits, LockFits, SawFits, Inside, Places

LEMMA EnginesKeep == EnginesInv /\ [EnginesNext]_engines => EnginesInv'
<1> SUFFICES ASSUME EnginesInv, [EnginesNext]_engines PROVE EnginesInv'
  OBVIOUS
<1> USE NothingAssumption
        DEF EnginesInv, EnginesShape, TokenFits, LockFits, SawFits, Inside, Places, Goes, MayEnter
<1>1. ASSUME NEW j \in Jobs, StartJob(j) PROVE EnginesInv'
  BY <1>1 DEF StartJob, StartCudaq, StartLightning, StartQiliSDK, Starts, Resolved, Overrides
<1>2. ASSUME NEW j \in Jobs, CancelJob(j) \/ Answered(j) PROVE EnginesInv'
  BY <1>2 DEF CancelJob, Answered, Resolved, Overrides
<1>3. ASSUME NEW j \in Jobs, EnterCudaq(j) PROVE EnginesInv'
  BY <1>3 DEF EnterCudaq, Resolved, Overrides
<1>4. ASSUME NEW j \in Jobs, SelectTarget(j) PROVE EnginesInv'
  BY <1>4 DEF SelectTarget, Resolved, Overrides
<1>5. ASSUME NEW j \in Jobs, SetSeed(j) PROVE EnginesInv'
  BY <1>5 DEF SetSeed, Resolved, Overrides
<1>6. ASSUME NEW j \in Jobs, SampleCudaq(j) PROVE EnginesInv'
  BY <1>6 DEF SampleCudaq, Resolved, Overrides
<1>7. ASSUME NEW j \in Jobs, LeaveCudaq(j) PROVE EnginesInv'
  BY <1>7 DEF LeaveCudaq, Resolved, Overrides
<1>8. ASSUME NEW j \in Jobs, EnterProbe(j) PROVE EnginesInv'
  BY <1>8 DEF EnterProbe, Resolved, Overrides
<1>9. ASSUME NEW j \in Jobs, NEW result \in {"passed", "failed", "raised"}, Probe(j, result)
      PROVE  EnginesInv'
  BY <1>9 DEF Probe, Resolved, Overrides
<1>10. ASSUME NEW j \in Jobs, SampleAlone(j) PROVE EnginesInv'
  BY <1>10 DEF SampleAlone, OwnGenerator, Resolved, Overrides
<1>11. CASE UNCHANGED engines
  BY <1>11 DEF engines, Resolved, Overrides
<1> QED
  BY <1>1, <1>2, <1>3, <1>4, <1>5, <1>6, <1>7, <1>8, <1>9, <1>10, <1>11 DEF EnginesNext

\* Every circuit runs with the target, token and seed of its own config, for any
\* jobs and settings.
THEOREM EveryCircuitAsConfigured == EnginesSpec => []RunsAsConfigured
<1>1. EnginesInv => RunsAsConfigured
  BY DEF EnginesInv, TokenFits, SawFits, RunsAsConfigured
<1> QED BY <1>1, EnginesStart, EnginesKeep, PTL DEF EnginesSpec

---------------------------------------------------------------------------
\* What Lightning knows of a device, and who may run on it.
ProbeFits ==
    engine = "lightning" =>
        /\ qualified \in [Devices -> {"unknown", "passed", "failed"}]
        /\ probes \in [Devices -> Nat]
        /\ \A d \in Devices : probes[d] = (IF qualified[d] = "unknown" THEN 0 ELSE 1)
        /\ \A j \in Jobs : thread[j] = "prepared" \/ saw[j] # Nothing =>
              qualified[Device(j)] = "passed"

LEMMA ProbeStarts == EnginesInit => ProbeFits
BY DEF EnginesInit, ProbeFits

LEMMA ProbeKeeps == EnginesInv /\ ProbeFits /\ [EnginesNext]_engines => ProbeFits'
<1> SUFFICES ASSUME EnginesInv, ProbeFits, [EnginesNext]_engines, engine' = "lightning"
             PROVE  ProbeFits'
  BY DEF ProbeFits
<1> USE DEF EnginesInv, EnginesShape, ProbeFits, Goes, Device
<1>1. ASSUME NEW j \in Jobs, StartJob(j) PROVE ProbeFits'
  BY <1>1 DEF StartJob, StartCudaq, StartLightning, StartQiliSDK, Starts
<1>2. ASSUME NEW j \in Jobs, CancelJob(j) \/ Answered(j) PROVE ProbeFits'
  BY <1>2 DEF CancelJob, Answered
<1>3. ASSUME NEW j \in Jobs,
             EnterCudaq(j) \/ SelectTarget(j) \/ SetSeed(j) \/ SampleCudaq(j) \/ LeaveCudaq(j)
      PROVE  ProbeFits'
  BY <1>3 DEF EnterCudaq, SelectTarget, SetSeed, SampleCudaq, LeaveCudaq
<1>4. ASSUME NEW j \in Jobs, EnterProbe(j) PROVE ProbeFits'
  BY <1>4 DEF EnterProbe
<1>5. ASSUME NEW j \in Jobs, NEW result \in {"passed", "failed", "raised"}, Probe(j, result)
      PROVE  ProbeFits'
  <2>1. Device(j) \in Devices
    BY DEF Devices
  <2>2. engine = "lightning" /\ saw' = saw /\ setting' = setting
    BY <1>5 DEF Probe
  <2>3. CASE qualified[Device(j)] \in {"passed", "failed"}
    BY <1>5, <2>1, <2>2, <2>3 DEF Probe
  <2>4. CASE qualified[Device(j)] = "unknown" /\ result = "raised"
    BY <1>5, <2>1, <2>2, <2>4 DEF Probe
  <2>5. CASE qualified[Device(j)] = "unknown" /\ result # "raised"
    <3>1. /\ qualified' = [qualified EXCEPT ![Device(j)] = result]
          /\ probes' = [probes EXCEPT ![Device(j)] = @ + 1]
          /\ thread' = [thread EXCEPT ![j] = IF result = "passed" THEN "prepared" ELSE "over"]
      BY <1>5, <2>5 DEF Probe
    <3>2. \A d \in Devices : probes'[d] = (IF qualified'[d] = "unknown" THEN 0 ELSE 1)
      BY <2>1, <2>2, <2>5, <3>1
    <3>3. /\ qualified' \in [Devices -> {"unknown", "passed", "failed"}]
          /\ probes' \in [Devices -> Nat]
      BY <2>1, <2>2, <2>5, <3>1
    <3>4. ASSUME NEW i \in Jobs, thread'[i] = "prepared" \/ saw'[i] # Nothing
          PROVE  qualified'[Device(i)] = "passed"
      <4>1. Device(i) \in Devices
        BY DEF Devices
      <4> QED BY <2>1, <2>2, <2>5, <3>1, <3>4, <4>1
    <3> QED BY <2>2, <3>2, <3>3, <3>4
  <2> QED BY <2>1, <2>2, <2>3, <2>4, <2>5
<1>6. ASSUME NEW j \in Jobs, SampleAlone(j) PROVE ProbeFits'
  BY <1>6 DEF SampleAlone
<1>7. CASE UNCHANGED engines
  BY <1>7 DEF engines
<1> QED BY <1>1, <1>2, <1>3, <1>4, <1>5, <1>6, <1>7 DEF EnginesNext

\* A Lightning device is probed to one result, and only a passed one is used.
THEOREM OneProbePerDevice == EnginesSpec => []QualifiedOnce
<1>1. ProbeFits => QualifiedOnce
  BY DEF ProbeFits, QualifiedOnce
<1> QED BY <1>1, EnginesStart, EnginesKeep, ProbeStarts, ProbeKeeps, PTL DEF EnginesSpec

---------------------------------------------------------------------------
(* The composition.                                                        *)

\* A process that uses one of the executors behaves, as each component sees it,
\* as the component's own specification allows: the others leave it alone.
THEOREM ExecutorsAlone == Spec => RemoteSpec /\ FamilySpec /\ EnginesSpec
<1>1. Init => RemoteInit /\ FamilyInit /\ EnginesInit
  BY DEF Init
<1>2. [Next]_vars => [RemoteNext]_remote /\ [FamilyNext]_family /\ [EnginesNext]_engines
  <2> SUFFICES ASSUME [Next]_vars
               PROVE  [RemoteNext]_remote /\ [FamilyNext]_family /\ [EnginesNext]_engines
    OBVIOUS
  <2>1. CASE InRemote(RemoteNext)
    BY <2>1 DEF InRemote
  <2>2. CASE InFamily(FamilyNext)
    BY <2>2 DEF InFamily
  <2>3. CASE InEngines(EnginesNext)
    BY <2>3 DEF InEngines
  <2>4. CASE Over \/ UNCHANGED vars
    BY <2>4 DEF Over, vars
  <2> QED BY <2>1, <2>2, <2>3, <2>4 DEF Next
<1> QED BY <1>1, <1>2, PTL DEF Spec, RemoteSpec, FamilySpec, EnginesSpec

---------------------------------------------------------------------------
(* IonQ.  The three threads that may send a cancel request exclude each    *)
(* other: the worker cleans only after an interruption that came before it *)
(* knew the id, the second worker only after one that came later, and the  *)
(* putter only when the submission was not interrupted at all.             *)

\* Cancellation during the submission ends the caller.
SubmissionInv ==
    /\ interrupted => coroutine = "ended" /\ ending = "interrupted" /\ putter = "none"
    /\ coroutine = "submitting" => ~interrupted /\ putter = "none"
    /\ coroutine \notin {"submitting", "ended"} => fut = "job"
    /\ putter # "none" => fut = "job"
    /\ worker \in {"queued", "posting", "dropped", "failed"} <=> ~jobId
    /\ fut = "job" => worker = "done"

\* Who has claimed the cancellation, and who is to send it.
ClaimInv ==
    /\ cancelClaimed => interrupted
    /\ worker = "cleaning" => cancelClaimed /\ cleaner = "none" /\ puts = 0
    /\ cleaner # "none" => cancelClaimed /\ jobId /\ worker = "done"
    /\ cleaner \in {"queued", "unscheduled"} => puts = 0
    /\ interrupted /\ jobId => cancelClaimed

\* How often the request has been sent.
CountInv ==
    /\ puts \in {0, 1}
    /\ ~jobId => puts = 0
    /\ ~interrupted /\ putter # "done" => puts = 0

\* What the caller is told once it has stopped waiting.
VerdictInv ==
    /\ coroutine # "ended" <=> ending = "open"
    /\ putter # "none" =>
          /\ coroutine \in {"cancelling", "ended"}
          /\ cutBy \in {"interrupted", "timeout", "unknownStatus"}
          /\ ending \in {"open", "interrupted", "timeout", "unknownStatus"}
    /\ coroutine = "cancelling" => putter # "none"

IonQInv == IonQTypeOK /\ SubmissionInv /\ ClaimInv /\ CountInv /\ VerdictInv

\* A step of the submission keeps the invariant.
LEMMA SubmissionKeeps ==
    ASSUME IonQInv,
           Post \/ PostFails \/ PostReturns \/ WorkerCancels \/ Deliver \/ Submitted
              \/ InterruptSubmission \/ CleanerCancels
    PROVE  IonQInv'
<1> USE DEF IonQInv, IonQTypeOK, SubmissionInv, ClaimInv, CountInv, VerdictInv, subVars, runVars
<1>1. CASE Post
  BY <1>1 DEF Post
<1>2. CASE PostFails
  BY <1>2 DEF PostFails
<1>3. CASE PostReturns
  BY <1>3 DEF PostReturns, Accepted, WorkerCleans
<1>4. CASE WorkerCancels
  BY <1>4 DEF WorkerCancels, SendCancel
<1>5. CASE Deliver
  BY <1>5 DEF Deliver, Delivered
<1>6. CASE Submitted
  BY <1>6 DEF Submitted, End
<1>7. CASE InterruptSubmission
  BY <1>7 DEF InterruptSubmission, End, CallerCleans
<1>8. CASE CleanerCancels
  BY <1>8 DEF CleanerCancels, SendCancel
<1> QED BY <1>1, <1>2, <1>3, <1>4, <1>5, <1>6, <1>7, <1>8

\* So does a step of the wait for the result, and of its end.
LEMMA WaitKeeps ==
    ASSUME IonQInv,
           PollDone \/ PollFailed \/ PollUnknown \/ FetchReturns \/ RequestFails \/ TimesOut
              \/ InterruptWait \/ TakePut \/ Put \/ Cancelled \/ CancelledAgain
    PROVE  IonQInv'
<1> USE DEF IonQInv, IonQTypeOK, SubmissionInv, ClaimInv, CountInv, VerdictInv, subVars, runVars
<1>1. CASE PollDone
  BY <1>1 DEF PollDone, End
<1>2. CASE PollFailed
  BY <1>2 DEF PollFailed, End
<1>3. CASE PollUnknown
  BY <1>3 DEF PollUnknown, End, CutShort
<1>4. CASE FetchReturns
  BY <1>4 DEF FetchReturns, End
<1>5. CASE RequestFails
  BY <1>5 DEF RequestFails, End
<1>6. CASE TimesOut
  BY <1>6 DEF TimesOut, CutShort
<1>7. CASE InterruptWait
  BY <1>7 DEF InterruptWait, CutShort
<1>8. CASE TakePut
  BY <1>8 DEF TakePut
<1>9. CASE Put
  BY <1>9 DEF Put, SendCancel, AfterPut
<1>10. CASE Cancelled
  BY <1>10 DEF Cancelled, End, PutOver
<1>11. CASE CancelledAgain
  BY <1>11 DEF CancelledAgain, End, PutDropped
<1> QED BY <1>1, <1>2, <1>3, <1>4, <1>5, <1>6, <1>7, <1>8, <1>9, <1>10, <1>11

\* So does a step of the vendor.
LEMMA VendorKeeps ==
    ASSUME IonQInv,
           Land \/ JobMoves
    PROVE  IonQInv'
<1> USE DEF IonQInv, IonQTypeOK, SubmissionInv, ClaimInv, CountInv, VerdictInv, subVars, runVars
<1>1. CASE Land
  BY <1>1 DEF Land
<1>2. CASE JobMoves
  BY <1>2 DEF JobMoves
<1> QED BY <1>1, <1>2

\* The invariant holds in every reachable state.
LEMMA IonQInvariance == IonQSpec => []IonQInv
<1>1. ASSUME IonQInit PROVE IonQInv
  <2> USE <1>1 DEF IonQInit
  <2>1. IonQTypeOK
    BY DEF IonQTypeOK
  <2>2. SubmissionInv
    BY DEF SubmissionInv
  <2>3. ClaimInv
    BY DEF ClaimInv
  <2>4. CountInv
    BY DEF CountInv
  <2>5. VerdictInv
    BY DEF VerdictInv
  <2> QED BY <2>1, <2>2, <2>3, <2>4, <2>5 DEF IonQInv
<1>2. IonQInv /\ [IonQNext]_ionq => IonQInv'
  <2>1. CASE UNCHANGED ionq
    BY <2>1 DEF ionq, subVars, runVars, IonQInv, IonQTypeOK, SubmissionInv, ClaimInv,
                CountInv, VerdictInv
  <2> QED
    BY <2>1, SubmissionKeeps, WaitKeeps, VendorKeeps DEF IonQNext, Workers, Waiting, Cuts, IonQOver
<1> QED BY <1>1, <1>2, PTL DEF IonQSpec

\* The state of _submit_job and of execute() keeps its types, and the coroutine
\* never has a job whose id the worker did not publish.
THEOREM IonQTypeCorrect == IonQSpec => []IonQTypeOK
<1>1. IonQInv => IonQTypeOK
  BY DEF IonQInv
<1> QED BY <1>1, IonQInvariance, PTL

\* One cancel request at most is sent for a job, by whichever thread.
THEOREM OneCancelRequest == IonQSpec => []CancelledAtMostOnce
<1>1. IonQInv => CancelledAtMostOnce
  BY DEF IonQInv, CountInv, CancelledAtMostOnce
<1> QED BY <1>1, IonQInvariance, PTL

\* No job is cancelled while its caller waits for it or gets its result.
THEOREM OnlyAbandonedIonQJobs == IonQSpec => []CancelOnlyAbandoned
<1>1. IonQInv => CancelOnlyAbandoned
  BY DEF IonQInv, SubmissionInv, CountInv, VerdictInv, CancelOnlyAbandoned
<1> QED BY <1>1, IonQInvariance, PTL
=============================================================================

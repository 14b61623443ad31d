----------------------- MODULE OwnedSubmissionProofs -----------------------
(***************************************************************************)
(* Proofs about OwnedSubmission, for any number of executions: a caller    *)
(* told that nothing was sent is told the truth for ever, and a recorded   *)
(* reply is reported through exactly one channel.                          *)
(*                                                                         *)
(* The invariant is one conjunction about each execution, for they share   *)
(* nothing but last_job, which no property below depends on.               *)
(***************************************************************************)
EXTENDS OwnedSubmission, TLAPS

\* How far the thread is, by its flag, the wire, the list and the future.
ThreadInv(e) ==
    /\ post[e] \in {"none", "queued", "preparing", "dropped"} => ~sending[e]
    /\ post[e] \in {"sending", "answered", "late"} => sending[e]
    /\ ~sending[e] => wire[e] = "none"
    /\ replies[e] \in {e, None}
    /\ replies[e] # None => sending[e] /\ post[e] \in {"late", "finished"}
    /\ fut[e] \in {"value", "error"} => post[e] = "finished"
    /\ fut[e] = "value" => replies[e] # None
    /\ fut[e] = "error" => replies[e] = None

\* How the coroutine stands, by its verdict and the flags it sets.
CallerInv(e) ==
    /\ caller[e] = "idle" => post[e] = "none"
    /\ caller[e] = "ended" <=> verdict[e] # "open"
    /\ abandoned[e] <=> verdict[e] \in {"noted", "interruptedUnknown"}
    /\ verdict[e] = "cancelled" => interrupted[e] /\ ~sending[e]
    /\ verdict[e] = "failed" => post[e] = "finished" /\ ~sending[e]
    /\ verdict[e] = "acceptanceUnknown" => fut[e] = "error"
    /\ verdict[e] = "noted" => replies[e] # None

\* Which channel a recorded reply takes.
ReportInv(e) ==
    /\ post[e] = "late" \/ logged[e] => verdict[e] = "interruptedUnknown"
    /\ replies[e] # None /\ verdict[e] = "interruptedUnknown" => logged[e] \/ post[e] = "late"

ExecInv(e) == ThreadInv(e) /\ CallerInv(e) /\ ReportInv(e)

OwnedInv == TypeOK /\ \A e \in Exec : ExecInv(e)

\* Whatever one execution does leaves the invariant of the others alone.
LEMMA Elsewhere ==
    ASSUME OwnedInv, NEW e \in Exec, NEW d \in Exec, d # e,
           Thread(e) \/ Land(e) \/ Coroutine(e) \/ Interrupt(e)
    PROVE  ExecInv(d)'
<1>1. /\ caller'[d] = caller[d] /\ post'[d] = post[d] /\ fut'[d] = fut[d]
      /\ wire'[d] = wire[d] /\ interrupted'[d] = interrupted[d]
      /\ sending'[d] = sending[d] /\ abandoned'[d] = abandoned[d]
      /\ replies'[d] = replies[d] /\ verdict'[d] = verdict[d] /\ logged'[d] = logged[d]
  BY DEF OwnedInv, TypeOK, Thread, TakeUp, PreparationFails, Claim, ReadReply, LoseReply,
         Record, LogLate, Land, Coroutine, Start, Deliver, Resume, StopWaiting, PollEnds,
         Interrupt, End, flags
<1> QED
  BY <1>1 DEF OwnedInv, ExecInv, ThreadInv, CallerInv, ReportInv

\* A step of the thread, or of the request it sent.
LEMMA ThreadKeeps ==
    ASSUME OwnedInv, NEW e \in Exec, Thread(e) \/ Land(e)
    PROVE  TypeOK' /\ ExecInv(e)'
<1> USE DEF OwnedInv, flags
<1>1. CASE TakeUp(e)
  <2> USE <1>1 DEF TakeUp
  <2>1. TypeOK'
    BY DEF TypeOK, Posts, Verdicts
  <2>2. ThreadInv(e)'
    BY NoneAssumption DEF TypeOK, ExecInv, ThreadInv, CallerInv
  <2>3. CallerInv(e)'
    BY NoneAssumption DEF TypeOK, ExecInv, ThreadInv, CallerInv
  <2>4. ReportInv(e)'
    BY NoneAssumption DEF TypeOK, ExecInv, ThreadInv, CallerInv, ReportInv
  <2> QED BY <2>1, <2>2, <2>3, <2>4 DEF ExecInv
<1>2. CASE PreparationFails(e)
  <2> USE <1>2 DEF PreparationFails
  <2>1. TypeOK'
    BY DEF TypeOK, Posts, Verdicts
  <2>2. ThreadInv(e)'
    BY NoneAssumption DEF TypeOK, ExecInv, ThreadInv, CallerInv
  <2>3. CallerInv(e)'
    BY NoneAssumption DEF TypeOK, ExecInv, ThreadInv, CallerInv
  <2>4. ReportInv(e)'
    BY NoneAssumption DEF TypeOK, ExecInv, ThreadInv, CallerInv, ReportInv
  <2> QED BY <2>1, <2>2, <2>3, <2>4 DEF ExecInv
<1>3. CASE Claim(e)
  <2> USE <1>3 DEF Claim, Refused
  <2>1. TypeOK'
    BY DEF TypeOK, Posts, Verdicts
  <2>2. ThreadInv(e)'
    BY NoneAssumption DEF TypeOK, ExecInv, ThreadInv, CallerInv
  <2>3. CallerInv(e)'
    BY NoneAssumption DEF TypeOK, ExecInv, ThreadInv, CallerInv
  <2>4. ReportInv(e)'
    BY NoneAssumption DEF TypeOK, ExecInv, ThreadInv, CallerInv, ReportInv
  <2> QED BY <2>1, <2>2, <2>3, <2>4 DEF ExecInv
<1>4. CASE ReadReply(e)
  <2> USE <1>4 DEF ReadReply
  <2>1. TypeOK'
    BY DEF TypeOK, Posts, Verdicts
  <2>2. ThreadInv(e)'
    BY NoneAssumption DEF TypeOK, ExecInv, ThreadInv, CallerInv
  <2>3. CallerInv(e)'
    BY NoneAssumption DEF TypeOK, ExecInv, ThreadInv, CallerInv
  <2>4. ReportInv(e)'
    BY NoneAssumption DEF TypeOK, ExecInv, ThreadInv, CallerInv, ReportInv
  <2> QED BY <2>1, <2>2, <2>3, <2>4 DEF ExecInv
<1>5. CASE LoseReply(e)
  <2> USE <1>5 DEF LoseReply
  <2>1. TypeOK'
    BY DEF TypeOK, Posts, Verdicts
  <2>2. ThreadInv(e)'
    BY NoneAssumption DEF TypeOK, ExecInv, ThreadInv, CallerInv
  <2>3. CallerInv(e)'
    BY NoneAssumption DEF TypeOK, ExecInv, ThreadInv, CallerInv
  <2>4. ReportInv(e)'
    BY NoneAssumption DEF TypeOK, ExecInv, ThreadInv, CallerInv, ReportInv
  <2> QED BY <2>1, <2>2, <2>3, <2>4 DEF ExecInv
<1>6. CASE Record(e)
  <2> USE <1>6 DEF Record, Late
  <2>1. TypeOK'
    BY DEF TypeOK, Posts, Verdicts
  <2>2. ThreadInv(e)'
    BY NoneAssumption DEF TypeOK, ExecInv, ThreadInv, CallerInv
  <2>3. CallerInv(e)'
    BY NoneAssumption DEF TypeOK, ExecInv, ThreadInv, CallerInv
  <2>4. ReportInv(e)'
    BY NoneAssumption DEF TypeOK, ExecInv, ThreadInv, CallerInv, ReportInv
  <2> QED BY <2>1, <2>2, <2>3, <2>4 DEF ExecInv
<1>7. CASE LogLate(e)
  <2> USE <1>7 DEF LogLate
  <2>1. TypeOK'
    BY DEF TypeOK, Posts, Verdicts
  <2>2. ThreadInv(e)'
    BY NoneAssumption DEF TypeOK, ExecInv, ThreadInv, CallerInv
  <2>3. CallerInv(e)'
    BY NoneAssumption DEF TypeOK, ExecInv, ThreadInv, CallerInv
  <2>4. ReportInv(e)'
    BY NoneAssumption DEF TypeOK, ExecInv, ThreadInv, CallerInv, ReportInv
  <2> QED BY <2>1, <2>2, <2>3, <2>4 DEF ExecInv
<1>8. CASE Land(e)
  <2> USE <1>8 DEF Land
  <2>1. TypeOK'
    BY DEF TypeOK, Posts, Verdicts
  <2>2. ThreadInv(e)'
    BY NoneAssumption DEF TypeOK, ExecInv, ThreadInv, CallerInv
  <2>3. CallerInv(e)'
    BY NoneAssumption DEF TypeOK, ExecInv, ThreadInv, CallerInv
  <2>4. ReportInv(e)'
    BY NoneAssumption DEF TypeOK, ExecInv, ThreadInv, CallerInv, ReportInv
  <2> QED BY <2>1, <2>2, <2>3, <2>4 DEF ExecInv
<1> QED BY <1>1, <1>2, <1>3, <1>4, <1>5, <1>6, <1>7, <1>8 DEF Thread

\* A step of the coroutine, or its interruption.
LEMMA CallerKeeps ==
    ASSUME OwnedInv, NEW e \in Exec, Coroutine(e) \/ Interrupt(e)
    PROVE  TypeOK' /\ ExecInv(e)'
<1> USE DEF OwnedInv, flags
<1>1. CASE Start(e)
  <2> USE <1>1 DEF Start
  <2>1. TypeOK'
    BY DEF TypeOK, Posts, Verdicts
  <2>2. ThreadInv(e)'
    BY NoneAssumption DEF TypeOK, ExecInv, ThreadInv, CallerInv
  <2>3. CallerInv(e)'
    BY NoneAssumption DEF TypeOK, ExecInv, ThreadInv, CallerInv
  <2>4. ReportInv(e)'
    BY NoneAssumption DEF TypeOK, ExecInv, ThreadInv, CallerInv, ReportInv
  <2> QED BY <2>1, <2>2, <2>3, <2>4 DEF ExecInv
<1>2. CASE Deliver(e)
  <2> USE <1>2 DEF Deliver, Outcome
  <2>1. TypeOK'
    BY DEF TypeOK, ExecInv, ThreadInv
  <2>2. ThreadInv(e)'
    BY NoneAssumption DEF TypeOK, ExecInv, ThreadInv, CallerInv
  <2>3. CallerInv(e)'
    BY NoneAssumption DEF TypeOK, ExecInv, ThreadInv, CallerInv
  <2>4. ReportInv(e)'
    BY NoneAssumption DEF TypeOK, ExecInv, ThreadInv, CallerInv, ReportInv
  <2> QED BY <2>1, <2>2, <2>3, <2>4 DEF ExecInv
<1>3. CASE Resume(e)
  <2> USE <1>3 DEF Resume, End
  <2>1. TypeOK'
    BY DEF TypeOK, Posts, Verdicts
  <2>2. ThreadInv(e)'
    BY NoneAssumption DEF TypeOK, ExecInv, ThreadInv, CallerInv
  <2>3. CallerInv(e)'
    BY NoneAssumption DEF TypeOK, ExecInv, ThreadInv, CallerInv
  <2>4. ReportInv(e)'
    BY NoneAssumption DEF TypeOK, ExecInv, ThreadInv, CallerInv, ReportInv
  <2> QED BY <2>1, <2>2, <2>3, <2>4 DEF ExecInv
<1>4. CASE StopWaiting(e)
  <2> USE <1>4 DEF StopWaiting, End, WaitOver, Known
  <2>1. TypeOK'
    BY DEF TypeOK, Posts, Verdicts
  <2>2. ThreadInv(e)'
    BY NoneAssumption DEF TypeOK, ExecInv, ThreadInv, CallerInv
  <2>3. CallerInv(e)'
    BY NoneAssumption DEF TypeOK, ExecInv, ThreadInv, CallerInv
  <2>4. ReportInv(e)'
    BY NoneAssumption DEF TypeOK, ExecInv, ThreadInv, CallerInv, ReportInv
  <2> QED BY <2>1, <2>2, <2>3, <2>4 DEF ExecInv
<1>5. CASE PollEnds(e)
  <2> USE <1>5 DEF PollEnds, End
  <2>1. TypeOK'
    BY DEF TypeOK, Posts, Verdicts
  <2>2. ThreadInv(e)'
    BY NoneAssumption DEF TypeOK, ExecInv, ThreadInv, CallerInv
  <2>3. CallerInv(e)'
    BY NoneAssumption DEF TypeOK, ExecInv, ThreadInv, CallerInv
  <2>4. ReportInv(e)'
    BY NoneAssumption DEF TypeOK, ExecInv, ThreadInv, CallerInv, ReportInv
  <2> QED BY <2>1, <2>2, <2>3, <2>4 DEF ExecInv
<1>6. CASE Interrupt(e)
  <2> USE <1>6 DEF Interrupt, End
  <2>1. TypeOK'
    BY DEF TypeOK, Posts, Verdicts
  <2>2. ThreadInv(e)'
    BY NoneAssumption DEF TypeOK, ExecInv, ThreadInv, CallerInv
  <2>3. CallerInv(e)'
    BY NoneAssumption DEF TypeOK, ExecInv, ThreadInv, CallerInv
  <2>4. ReportInv(e)'
    BY NoneAssumption DEF TypeOK, ExecInv, ThreadInv, CallerInv, ReportInv
  <2> QED BY <2>1, <2>2, <2>3, <2>4 DEF ExecInv
<1> QED BY <1>1, <1>2, <1>3, <1>4, <1>5, <1>6 DEF Coroutine

\* The invariant holds in every reachable state.
LEMMA OwnedInvariance == Spec => []OwnedInv
<1>1. Init => OwnedInv
  BY DEF Init, OwnedInv, TypeOK, ExecInv, ThreadInv, CallerInv, ReportInv, Posts, Verdicts
<1>2. OwnedInv /\ [Next]_vars => OwnedInv'
  <2>1. CASE UNCHANGED vars
    BY <2>1 DEF vars, flags, OwnedInv, TypeOK, ExecInv, ThreadInv, CallerInv, ReportInv
  <2>2. ASSUME OwnedInv, NEW e \in Exec, Thread(e) \/ Land(e) \/ Coroutine(e) \/ Interrupt(e)
        PROVE  OwnedInv'
    BY <2>2, ThreadKeeps, CallerKeeps, Elsewhere DEF OwnedInv
  <2> QED BY <2>1, <2>2 DEF Next, Over
<1> QED BY <1>1, <1>2, PTL DEF Spec

---------------------------------------------------------------------------
\* submit_owned's flags, list and future keep their types.
THEOREM SubmissionTypeCorrect == Spec => []TypeOK
<1>1. OwnedInv => TypeOK
  BY DEF OwnedInv
<1> QED BY <1>1, OwnedInvariance, PTL

\* A caller told "cancelled" or "failed" may submit again: its request was not
\* sent and never will be, however its thread and the loop interleave.
THEOREM NothingSentBehindTheCaller == Spec => []UnsentStaysUnsent
<1>1. OwnedInv => UnsentStaysUnsent
  BY DEF OwnedInv, ExecInv, ThreadInv, CallerInv, UnsentStaysUnsent, ToldUnsent
<1> QED BY <1>1, OwnedInvariance, PTL

\* No accepted job is reported twice ...
THEOREM NeverReportedTwice == Spec => []ReportedOnce
<1>1. OwnedInv => ReportedOnce
  <2> SUFFICES ASSUME OwnedInv, NEW e \in Exec, NEW i \in 1..3, NEW j \in 1..3, i # j
               PROVE  ~(Reports(e)[i] /\ Reports(e)[j])
    BY DEF ReportedOnce
  <2>1. /\ ~(Returned(e) /\ verdict[e] = "noted")
        /\ ~(Returned(e) /\ (logged[e] \/ post[e] = "late"))
        /\ ~(verdict[e] = "noted" /\ (logged[e] \/ post[e] = "late"))
    BY DEF OwnedInv, ExecInv, CallerInv, ReportInv, Returned
  <2>2. ~(Reports(e)[1] /\ Reports(e)[2]) /\ ~(Reports(e)[1] /\ Reports(e)[3])
           /\ ~(Reports(e)[2] /\ Reports(e)[3])
    BY <2>1 DEF Reports
  <2>3. i \in {1, 2, 3} /\ j \in {1, 2, 3}
    OBVIOUS
  <2> QED BY <2>2, <2>3
<1> QED BY <1>1, OwnedInvariance, PTL

\* ... and none is forgotten once its caller and its thread are done.
THEOREM NeverForgotten == Spec => []ReplyNotLost
<1>1. OwnedInv => ReplyNotLost
  <2> SUFFICES ASSUME OwnedInv, NEW e \in Exec, caller[e] = "ended",
                      post[e] = "finished", replies[e] # None
               PROVE  Reports(e)[1] \/ Reports(e)[2] \/ Reports(e)[3]
    BY DEF ReplyNotLost
  <2>1. verdict[e] \in Verdicts \ {"open", "cancelled", "failed", "acceptanceUnknown"}
    BY DEF OwnedInv, TypeOK, ExecInv, ThreadInv, CallerInv
  <2>2. verdict[e] = "interruptedUnknown" => logged[e] \/ post[e] = "late"
    BY DEF OwnedInv, ExecInv, ReportInv
  <2> QED BY <2>1, <2>2 DEF Reports, Returned, Verdicts
<1> QED BY <1>1, OwnedInvariance, PTL
=============================================================================

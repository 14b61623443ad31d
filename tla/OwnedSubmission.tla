-------------------------- MODULE OwnedSubmission --------------------------
(***************************************************************************)
(* One-send submissions that survive the interruption of their caller.     *)
(*                                                                         *)
(* BlockingCalls.submit_owned (executors/_blocking.py) runs the vendor's   *)
(* submit function in a thread and waits for it in a coroutine.  The two   *)
(* share three flags and the list of replies, under one lock.  The vendor  *)
(* function calls claim() just before the request that cannot be taken     *)
(* back.  QBRemoteExecutor and SpeQtrumExecutor use it; each keeps the job *)
(* of its latest submission in last_job, which all executions of one       *)
(* executor share.                                                         *)
(*                                                                         *)
(* The executions here follow one another, but the thread of an            *)
(* interrupted one goes on while the next one runs.                        *)
(*                                                                         *)
(* Mistaken... operators are wrong versions of the definition after them;  *)
(* no action uses them.                                                    *)
(***************************************************************************)
EXTENDS Integers

CONSTANTS
    MaxExec,     \* number of executions of the one executor
    None         \* "no job"

Exec == 1..MaxExec       \* an execution, and the job its request creates

ASSUME MaxExecAssumption == MaxExec \in Nat
ASSUME NoneAssumption == None \notin Exec

VARIABLES
    vendor,       \* "qb" or "speqtrum"
    caller,       \* the coroutine of an execution
    post,         \* its submission thread
    fut,          \* the event loop's view of that thread
    wire,         \* what became of the request: external
    interrupted, sending, abandoned,   \* submit_owned's state, under the lock
    replies,      \* the list under the lock: the job, or None while empty
    verdict,      \* how execute() ended
    logged,       \* the thread has logged the job as accepted late
    lastJob       \* self.last_job

flags == <<interrupted, sending, abandoned>>
vars  == <<vendor, caller, post, fut, wire, flags, replies, verdict, logged, lastJob>>

Init ==
    /\ vendor \in {"qb", "speqtrum"}
    /\ caller = [e \in Exec |-> "idle"]
    /\ post = [e \in Exec |-> "none"]
    /\ fut = [e \in Exec |-> "pending"]
    /\ wire = [e \in Exec |-> "none"]
    /\ interrupted = [e \in Exec |-> FALSE]
    /\ sending = [e \in Exec |-> FALSE]
    /\ abandoned = [e \in Exec |-> FALSE]
    /\ replies = [e \in Exec |-> None]
    /\ verdict = [e \in Exec |-> "open"]
    /\ logged = [e \in Exec |-> FALSE]
    /\ lastJob = None

\* execute() hands the submission to the pool and waits, shielded.
Start(e) ==
    /\ caller[e] = "idle"
    /\ \A d \in 1..(e - 1) : caller[d] = "ended"
    /\ caller' = [caller EXCEPT ![e] = "awaiting"]
    /\ post' = [post EXCEPT ![e] = "queued"]
    /\ lastJob' = IF vendor = "qb" THEN None ELSE lastJob
    /\ UNCHANGED <<vendor, fut, wire, flags, replies, verdict, logged>>

End(e, how) ==
    /\ caller' = [caller EXCEPT ![e] = "ended"]
    /\ verdict' = [verdict EXCEPT ![e] = how]

---------------------------------------------------------------------------
(* The submission thread.                                                  *)

TakeUp(e) ==
    /\ post[e] = "queued"
    /\ post' = [post EXCEPT ![e] = "preparing"]
    /\ UNCHANGED <<vendor, caller, fut, wire, flags, replies, verdict, logged, lastJob>>

\* SpeQtrum serialises, logs in and checks the device before it claims.
PreparationFails(e) ==
    /\ vendor = "speqtrum"
    /\ post[e] = "preparing"
    /\ post' = [post EXCEPT ![e] = "finished"]
    /\ UNCHANGED <<vendor, caller, fut, wire, flags, replies, verdict, logged, lastJob>>

MistakenRefused(e) == abandoned[e]
Refused(e) == interrupted[e]

\* claim(), atomic under the lock; on success the request goes out.
Claim(e) ==
    /\ post[e] = "preparing"
    /\ \/ /\ Refused(e)
          /\ post' = [post EXCEPT ![e] = "finished"]
          /\ UNCHANGED <<wire, sending, lastJob>>
       \/ /\ ~Refused(e)
          /\ sending' = [sending EXCEPT ![e] = TRUE]
          /\ wire' = [wire EXCEPT ![e] = "flying"]
          /\ post' = [post EXCEPT ![e] = "sending"]
          /\ lastJob' = IF vendor = "speqtrum" THEN None ELSE lastJob
    /\ UNCHANGED <<vendor, caller, fut, interrupted, abandoned, replies, verdict, logged>>

\* The vendor accepts the request, or it is lost or rejected.  Also after the
\* thread gave up: QB's request runs in a thread of its own until it ends.
Land(e) ==
    /\ wire[e] = "flying"
    /\ \E fate \in {"accepted", "refused"} : wire' = [wire EXCEPT ![e] = fate]
    /\ UNCHANGED <<vendor, caller, post, fut, flags, replies, verdict, logged, lastJob>>

\* The reply names a job: self.last_job is set before owned() sees it.
ReadReply(e) ==
    /\ post[e] = "sending"
    /\ wire[e] = "accepted"
    /\ post' = [post EXCEPT ![e] = "answered"]
    /\ lastJob' = e
    /\ UNCHANGED <<vendor, caller, fut, wire, flags, replies, verdict, logged>>

\* Rejected, timed out, cut off or unreadable: the error says that acceptance
\* is unknown, whichever it was.
LoseReply(e) ==
    /\ post[e] = "sending"
    /\ post' = [post EXCEPT ![e] = "finished"]
    /\ UNCHANGED <<vendor, caller, fut, wire, flags, replies, verdict, logged, lastJob>>

Late(e) == abandoned[e]

\* owned(), under the lock: append the reply and see whether anybody waits.
Record(e) ==
    /\ post[e] = "answered"
    /\ replies' = [replies EXCEPT ![e] = e]
    /\ post' = [post EXCEPT ![e] = IF Late(e) THEN "late" ELSE "finished"]
    /\ UNCHANGED <<vendor, caller, fut, wire, flags, verdict, logged, lastJob>>

LogLate(e) ==
    /\ post[e] = "late"
    /\ logged' = [logged EXCEPT ![e] = TRUE]
    /\ post' = [post EXCEPT ![e] = "finished"]
    /\ UNCHANGED <<vendor, caller, fut, wire, flags, replies, verdict, lastJob>>

---------------------------------------------------------------------------
(* The coroutine, on the event loop.                                       *)

Outcome(e) == IF replies[e] # None THEN "value" ELSE "error"

\* The end of the thread reaches the loop later, by call_soon_threadsafe.
Deliver(e) ==
    /\ post[e] = "finished"
    /\ fut[e] = "pending"
    /\ fut' = [fut EXCEPT ![e] = Outcome(e)]
    /\ UNCHANGED <<vendor, caller, post, wire, flags, replies, verdict, logged, lastJob>>

Resume(e) ==
    /\ caller[e] = "awaiting"
    /\ \/ /\ fut[e] = "value"
          /\ caller' = [caller EXCEPT ![e] = "polling"]
          /\ UNCHANGED verdict
       \/ /\ fut[e] = "error"
          /\ End(e, IF sending[e] THEN "acceptanceUnknown" ELSE "failed")
    /\ UNCHANGED <<vendor, post, fut, wire, flags, replies, logged, lastJob>>

\* CancelledError at the shielded await; it also wins against a reply the
\* coroutine has not seen yet.  Before the claim post.cancel() drops a queued
\* submission and leaves a running one to its claim.
Interrupt(e) ==
    /\ caller[e] = "awaiting"
    /\ interrupted' = [interrupted EXCEPT ![e] = TRUE]
    /\ \/ /\ sending[e]
          /\ caller' = [caller EXCEPT ![e] = "waiting"]
          /\ UNCHANGED <<post, fut, verdict>>
       \/ /\ ~sending[e]
          /\ post' = [post EXCEPT ![e] = IF @ = "queued" THEN "dropped" ELSE @]
          /\ fut' = [fut EXCEPT ![e] = IF @ = "pending" THEN "cancelled" ELSE @]
          /\ End(e, "cancelled")
    /\ UNCHANGED <<vendor, wire, sending, abandoned, replies, logged, lastJob>>

MistakenKnown(e) == fut[e] = "value"
Known(e) == replies[e] # None

MistakenWaitOver(e) == caller[e] = "waiting" /\ fut[e] # "pending"
WaitOver(e) == caller[e] = "waiting"

\* The reply came, one second is over or the caller is cancelled again.  Under
\* the lock it stops waiting and takes the reply if there is one.
StopWaiting(e) ==
    /\ WaitOver(e)
    /\ abandoned' = [abandoned EXCEPT ![e] = TRUE]
    /\ fut' = [fut EXCEPT ![e] = IF @ = "pending" THEN "cancelled" ELSE @]
    /\ End(e, IF Known(e) THEN "noted" ELSE "interruptedUnknown")
    /\ UNCHANGED <<vendor, post, wire, interrupted, sending, replies, logged, lastJob>>

\* The result calls: GET only, the job is known whatever happens.
PollEnds(e) ==
    /\ caller[e] = "polling"
    /\ \E how \in {"result", "pollFailed", "pollInterrupted"} : End(e, how)
    /\ UNCHANGED <<vendor, post, fut, wire, flags, replies, logged, lastJob>>

---------------------------------------------------------------------------
Thread(e) ==
    \/ TakeUp(e) \/ PreparationFails(e) \/ Claim(e) \/ ReadReply(e)
    \/ LoseReply(e) \/ Record(e) \/ LogLate(e)
Coroutine(e) == Start(e) \/ Deliver(e) \/ Resume(e) \/ StopWaiting(e) \/ PollEnds(e)

Quiet == \A e \in Exec : caller[e] = "ended" /\ post[e] \in {"finished", "dropped"}
Over == Quiet /\ UNCHANGED vars

Next == (\E e \in Exec : Thread(e) \/ Land(e) \/ Coroutine(e) \/ Interrupt(e)) \/ Over

Spec == Init /\ [][Next]_vars

(***************************************************************************)
(* Fairness.  The event loop runs (its one-second timer too) and a thread  *)
(* gets on with its own instructions.  Nothing makes the vendor answer: a  *)
(* thread may hang in a request for ever.                                  *)
(***************************************************************************)
Fairness ==
    \A e \in Exec :
        /\ WF_vars(Coroutine(e))
        /\ WF_vars(TakeUp(e) \/ Claim(e) \/ Record(e) \/ LogLate(e))

FairSpec == Spec /\ Fairness
---------------------------------------------------------------------------
(* Properties.                                                             *)

Posts == {"none", "queued", "preparing", "sending", "answered", "late",
          "finished", "dropped"}
Verdicts == {"open", "failed", "acceptanceUnknown", "cancelled", "noted",
             "interruptedUnknown", "result", "pollFailed", "pollInterrupted"}

\* The shape of submit_owned's state; a future has a value exactly of the
\* reply the thread recorded.
TypeOK ==
    /\ vendor \in {"qb", "speqtrum"}
    /\ caller \in [Exec -> {"idle", "awaiting", "waiting", "polling", "ended"}]
    /\ post \in [Exec -> Posts]
    /\ fut \in [Exec -> {"pending", "value", "error", "cancelled"}]
    /\ wire \in [Exec -> {"none", "flying", "accepted", "refused"}]
    /\ interrupted \in [Exec -> BOOLEAN]
    /\ sending \in [Exec -> BOOLEAN]
    /\ abandoned \in [Exec -> BOOLEAN]
    /\ replies \in [Exec -> Exec \cup {None}]
    /\ verdict \in [Exec -> Verdicts]
    /\ logged \in [Exec -> BOOLEAN]
    /\ lastJob \in Exec \cup {None}
    /\ \A e \in Exec : fut[e] = "value" => replies[e] = e

\* "Cancellation before the claim sends nothing": whoever was told that its
\* submission was cancelled or failed, without a word about acceptance, may
\* submit again, because no request goes out, then or later.
ToldUnsent(e) == verdict[e] \in {"cancelled", "failed"}
UnsentStaysUnsent == \A e \in Exec : ToldUnsent(e) => wire[e] = "none"

\* A reply that arrived is reported through one channel, never two: the caller
\* has it, the note on its interruption names it, or the thread logs it.
Returned(e) == verdict[e] \in {"result", "pollFailed", "pollInterrupted"} \/ caller[e] = "polling"
Reports(e) == <<Returned(e), verdict[e] = "noted", logged[e] \/ post[e] = "late">>
ReportedOnce ==
    \A e \in Exec : \A i, j \in 1..3 : i # j => ~(Reports(e)[i] /\ Reports(e)[j])

\* ... and never none: once caller and thread are done, a recorded reply has
\* been reported.
ReplyNotLost ==
    \A e \in Exec :
        caller[e] = "ended" /\ post[e] = "finished" /\ replies[e] # None =>
            \E i \in 1..3 : Reports(e)[i]

\* The interruption is "bounded": an interrupted caller gets its exception even
\* if the vendor never answers.
InterruptionEnds == \A e \in Exec : interrupted[e] ~> (caller[e] = "ended")

\* The note of an interrupted caller: "it is retained in last_job".
NotedJobRetained ==
    [][\A e \in Exec : verdict[e] # "noted" /\ verdict'[e] = "noted" => lastJob' = e]_vars
=============================================================================

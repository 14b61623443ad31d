--------------------------- MODULE IonQExecution ---------------------------
(***************************************************************************)
(* One execution of a circuit by IonQExecutor (executors/ionq.py).         *)
(*                                                                         *)
(* A worker thread POSTs the job while the coroutine awaits it; the two    *)
(* share interrupted, job_id and cancel_claimed under a lock.  If the      *)
(* coroutine is interrupted meanwhile, whoever of the two comes second     *)
(* claims the cancellation of the job: the worker itself, or a second      *)
(* worker the coroutine schedules.  Later the coroutine polls the job and  *)
(* cancels it when it stops waiting.  The v0.3 and v0.4 routes share all   *)
(* this but treat a job status they do not know differently.               *)
(*                                                                         *)
(* Every request is a step of its own; what the vendor does with it is     *)
(* the environment's choice.  Mistaken... operators are wrong versions of  *)
(* the definition after them; no action uses them.                         *)
(***************************************************************************)
EXTENDS Integers

CONSTANT Routes      \* the routes a configuration may select

ASSUME RoutesAssumption == Routes \subseteq {"v0.3", "v0.4"}

VARIABLES
    route,
    coroutine,      \* the coroutine of execute()
    worker,         \* the thread that POSTs
    fut,            \* the coroutine's view of that thread
    interrupted, jobId, cancelClaimed,   \* _submit_job's shared state
    cleaner,        \* the second worker, scheduled by the coroutine
    putter,         \* the thread of the cancel request of a cut wait
    cutBy,          \* why the wait was cut short
    ending,         \* how execute() ended
    job,            \* the job at the vendor: external
    puts            \* cancel requests sent for this job

subVars == <<worker, fut, interrupted, jobId, cancelClaimed, cleaner>>
runVars == <<coroutine, putter, cutBy, ending>>
ionq    == <<route, subVars, runVars, job, puts>>

IonQInit ==
    /\ route \in Routes
    /\ coroutine = "submitting"
    /\ worker = "queued"
    /\ fut = "pending"
    /\ interrupted = FALSE
    /\ jobId = FALSE
    /\ cancelClaimed = FALSE
    /\ cleaner = "none"
    /\ putter = "none"
    /\ cutBy = "none"
    /\ ending = "open"
    /\ job = "none"
    /\ puts = 0

---------------------------------------------------------------------------
(* The vendor.                                                             *)

Accepted == job \notin {"none", "flying", "refused"}

\* The POST arrives, perhaps after its worker gave up reading the response.
Land ==
    /\ job = "flying"
    /\ job' \in {"running", "refused"}
    /\ UNCHANGED <<route, subVars, runVars, puts>>

\* A status the executor does not know may be final or not.
JobMoves ==
    /\ job \in {"running", "odd"}
    /\ job' \in {"completed", "failed", "odd"}
    /\ UNCHANGED <<route, subVars, runVars, puts>>

\* PUT .../status/cancel: honoured, refused or lost.
SendCancel ==
    /\ puts' = puts + 1
    /\ job' \in {job} \cup (IF job \in {"running", "odd"} THEN {"canceled"} ELSE {})

---------------------------------------------------------------------------
(* Submission: _submit_job.                                                *)

Post ==
    /\ worker = "queued"
    /\ worker' = "posting"
    /\ job' = "flying"
    /\ UNCHANGED <<route, fut, interrupted, jobId, cancelClaimed, cleaner, runVars, puts>>

\* The request fails or its response has no usable id.
PostFails ==
    /\ worker = "posting"
    /\ worker' = "failed"
    /\ UNCHANGED <<route, fut, interrupted, jobId, cancelClaimed, cleaner, runVars, job, puts>>

MistakenAlwaysCleans == TRUE
WorkerCleans == interrupted /\ ~cancelClaimed

\* The worker has the id: under the lock it publishes it and sees whether the
\* coroutine has gone.
PostReturns ==
    /\ worker = "posting"
    /\ Accepted
    /\ jobId' = TRUE
    /\ cancelClaimed' = (cancelClaimed \/ WorkerCleans)
    /\ worker' = IF WorkerCleans THEN "cleaning" ELSE "done"
    /\ UNCHANGED <<route, fut, interrupted, cleaner, runVars, job, puts>>

WorkerCancels ==
    /\ worker = "cleaning"
    /\ SendCancel
    /\ worker' = "done"
    /\ UNCHANGED <<route, fut, interrupted, jobId, cancelClaimed, cleaner, runVars>>

Delivered == worker = "done"

Deliver ==
    /\ fut = "pending"
    /\ \/ Delivered /\ fut' = "job"
       \/ worker = "failed" /\ fut' = "error"
    /\ UNCHANGED <<route, worker, interrupted, jobId, cancelClaimed, cleaner,
                   runVars, job, puts>>

End(how) == coroutine' = "ended" /\ ending' = how

Submitted ==
    /\ coroutine = "submitting"
    /\ \/ fut = "job" /\ coroutine' = "polling" /\ UNCHANGED ending
       \/ fut = "error" /\ End("error")
    /\ UNCHANGED <<route, subVars, putter, cutBy, job, puts>>

MistakenCallerCleans == jobId /\ fut = "pending"
CallerCleans == jobId /\ ~cancelClaimed

\* CancelledError while the worker has the POST, or after it returned and
\* before the coroutine went on.  A POST still queued is dropped.  The event
\* loop may be closing, and then no second worker can be scheduled.
InterruptSubmission ==
    /\ coroutine = "submitting"
    /\ interrupted' = TRUE
    /\ cancelClaimed' = (cancelClaimed \/ CallerCleans)
    /\ \/ CallerCleans /\ cleaner' \in {"queued", "unscheduled"}
       \/ ~CallerCleans /\ UNCHANGED cleaner
    /\ worker' = IF worker = "queued" THEN "dropped" ELSE worker
    /\ fut' = IF fut = "pending" THEN "cancelled" ELSE fut
    /\ End("interrupted")
    /\ UNCHANGED <<route, jobId, putter, cutBy, job, puts>>

CleanerCancels ==
    /\ cleaner = "queued"
    /\ SendCancel
    /\ cleaner' = "done"
    /\ UNCHANGED <<route, worker, fut, interrupted, jobId, cancelClaimed, runVars>>

---------------------------------------------------------------------------
(* Waiting for the job: _poll_until_done and the results request.          *)

CutShort(reason) ==
    /\ coroutine' = "cancelling"
    /\ putter' = "queued"
    /\ cutBy' = reason
    /\ UNCHANGED ending

PollDone ==
    /\ coroutine = "polling"
    /\ job = "completed"
    /\ \/ coroutine' = "fetching" /\ UNCHANGED ending
       \/ route = "v0.3" /\ End("result")          \* histogram inline
    /\ UNCHANGED <<route, subVars, putter, cutBy, job, puts>>

PollFailed ==
    /\ coroutine = "polling"
    /\ job \in {"failed", "canceled"}
    /\ End("failed")
    /\ UNCHANGED <<route, subVars, putter, cutBy, job, puts>>

\* _UnknownJobStatusError: v0.3 catches it together with the timeout, v0.4
\* together with all other errors.
PollUnknown ==
    /\ coroutine = "polling"
    /\ job = "odd"
    /\ \/ route = "v0.3" /\ CutShort("unknownStatus")
       \/ route = "v0.4" /\ End("unknownStatus") /\ UNCHANGED <<putter, cutBy>>
    /\ UNCHANGED <<route, subVars, job, puts>>

FetchReturns ==
    /\ coroutine = "fetching"
    /\ End("result")
    /\ UNCHANGED <<route, subVars, putter, cutBy, job, puts>>

\* Any other failure of a GET or of the payload; the job is left alone.
RequestFails ==
    /\ coroutine \in {"polling", "fetching"}
    /\ End("error")
    /\ UNCHANGED <<route, subVars, putter, cutBy, job, puts>>

\* timeout_seconds covers the polling, on v0.4 also the results request.
TimesOut ==
    /\ coroutine = "polling" \/ (coroutine = "fetching" /\ route = "v0.4")
    /\ CutShort("timeout")
    /\ UNCHANGED <<route, subVars, job, puts>>

InterruptWait ==
    /\ coroutine \in {"polling", "fetching"}
    /\ CutShort("interrupted")
    /\ UNCHANGED <<route, subVars, job, puts>>

---------------------------------------------------------------------------
(* _cancel_interrupted_job: one request, its failure suppressed.           *)

TakePut ==
    /\ putter = "queued"
    /\ putter' = "sending"
    /\ UNCHANGED <<route, subVars, coroutine, cutBy, ending, job, puts>>

\* cancel() sends once, whatever the answer.
AfterPut == "done"

Put ==
    /\ putter = "sending"
    /\ SendCancel
    /\ putter' = AfterPut
    /\ UNCHANGED <<route, subVars, coroutine, cutBy, ending>>

MistakenPutOver == job = "canceled"
PutOver == putter = "done"

Cancelled ==
    /\ coroutine = "cancelling"
    /\ PutOver
    /\ End(cutBy)
    /\ UNCHANGED <<route, subVars, putter, cutBy, job, puts>>

PutDropped == IF putter = "queued" THEN "dropped" ELSE putter

\* A further cancellation, suppressed too; it drops a request still queued.
CancelledAgain ==
    /\ coroutine = "cancelling"
    /\ putter' = PutDropped
    /\ End(cutBy)
    /\ UNCHANGED <<route, subVars, cutBy, job, puts>>

---------------------------------------------------------------------------
IonQOver ==
    /\ coroutine = "ended"
    /\ worker \in {"done", "failed", "dropped"}
    /\ cleaner # "queued"
    /\ putter \notin {"queued", "sending"}
    /\ UNCHANGED ionq

Workers == Post \/ PostFails \/ PostReturns \/ WorkerCancels \/ CleanerCancels \/ TakePut \/ Put
Waiting == PollDone \/ PollFailed \/ PollUnknown \/ FetchReturns \/ RequestFails
Cuts    == InterruptSubmission \/ TimesOut \/ InterruptWait \/ CancelledAgain

IonQNext ==
    Workers \/ Deliver \/ Submitted \/ Waiting \/ Cuts \/ Cancelled \/ Land \/ JobMoves \/ IonQOver

IonQSpec == IonQInit /\ [][IonQNext]_ionq

(***************************************************************************)
(* Fairness.  Scheduled workers run and their requests have a socket       *)
(* timeout; the event loop runs.  The vendor owes nothing, the job may run *)
(* for ever, and without a configured timeout so may the execution.        *)
(***************************************************************************)
IonQFairness ==
    /\ WF_ionq(WorkerCancels)
    /\ WF_ionq(CleanerCancels)
    /\ WF_ionq(TakePut)
    /\ WF_ionq(Put)
    /\ WF_ionq(Cancelled)

FairIonQ == IonQSpec /\ IonQFairness
---------------------------------------------------------------------------
(* Properties.                                                             *)

\* The shape of the state; the coroutine has a job exactly of the worker that
\* published its id.
IonQTypeOK ==
    /\ route \in Routes
    /\ coroutine \in {"submitting", "polling", "fetching", "cancelling", "ended"}
    /\ worker \in {"queued", "posting", "failed", "cleaning", "done", "dropped"}
    /\ fut \in {"pending", "job", "error", "cancelled"}
    /\ interrupted \in BOOLEAN /\ jobId \in BOOLEAN /\ cancelClaimed \in BOOLEAN
    /\ cleaner \in {"none", "queued", "unscheduled", "done"}
    /\ putter \in {"none", "queued", "sending", "done", "dropped"}
    /\ cutBy \in {"none", "unknownStatus", "timeout", "interrupted"}
    /\ ending \in {"open", "result", "failed", "error", "unknownStatus",
                    "timeout", "interrupted"}
    /\ job \in {"none", "flying", "refused", "running", "odd", "completed",
                "failed", "canceled"}
    /\ puts \in Nat
    /\ fut = "job" => jobId

\* "Attempts one cancellation": coroutine, worker and second worker never send
\* more than one cancel request between them.
CancelledAtMostOnce == puts <= 1

\* A job is only ever cancelled when its caller has stopped waiting for it, and
\* then the caller is told so, not handed a result or the vendor's failure.
CancelOnlyAbandoned ==
    puts > 0 =>
        /\ coroutine \in {"cancelling", "ended"}
        /\ ending \in {"open", "interrupted", "timeout", "unknownStatus"}

\* However worker and coroutine interleave, a job whose id arrived in spite of
\* the interruption of its submission is asked to stop, unless the closing loop
\* refused to schedule the request (which is logged).
InterruptedJobCancelled ==
    (interrupted /\ jobId) ~> (puts = 1 \/ cleaner = "unscheduled")

\* Neither a failed cancel request nor a job that goes on regardless keeps the
\* caller from the exception that cut its wait short.
CutWaitEnds == (coroutine = "cancelling") ~> (coroutine = "ended")

\* The docstring of execute(): "An unrecognized status sends the remote job a
\* best-effort cancel first."
UnknownStatusCancelled ==
    ending = "unknownStatus" => puts = 1 \/ putter \in {"sending", "dropped"}
=============================================================================

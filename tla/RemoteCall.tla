---------------------------- MODULE RemoteCall ----------------------------
(***************************************************************************)
(* Concurrent execute() calls of an executor that hands a vendor's         *)
(* blocking SDK to the worker threads of BlockingCalls                     *)
(* (executors/_blocking.py): Braket, Azure Quantum (Qiskit and Cirq), IBM  *)
(* and Rigetti (a QPU, or a QVM that only runs).  Each call has a pool of  *)
(* its own; the calls of a Rigetti executor share its job handles.         *)
(*                                                                         *)
(* A call is a caller, a coroutine that awaits one piece of work at a      *)
(* time, and the worker threads that do it.  A caller that is interrupted  *)
(* or times out leaves the thread behind: nothing stops a running thread,  *)
(* and none of them owes an answer.                                        *)
(*                                                                         *)
(* A component to be composed: RemoteInit, RemoteNext and remote are for   *)
(* the module that extends it.  Mistaken... operators are wrong versions   *)
(* of the definition after them; no action uses them.                      *)
(***************************************************************************)
EXTENDS Naturals, FiniteSets, Sequences

CONSTANTS
    Calls,          \* concurrent execute() calls
    Executors,      \* the executors the calls may be made on
    MaxRetained     \* handles kept after an interruption (32 in rigetti.py)

KnownExecutors == {"braket", "azureQiskit", "azureCirq", "ibm", "rigetti", "qvm"}

ASSUME ExecutorsAssumption == Executors \subseteq KnownExecutors
ASSUME MaxRetainedAssumption == MaxRetained \in Nat \ {0}

VARIABLES
    executor,   \* which executor it is
    timed,      \* whether its config has a timeout_seconds
    at,         \* where the caller is
    work,       \* what became of each piece of work given to a thread
    identity,   \* "absent", then the submission_status of remote_job
    verdict,    \* how execute() ended, or what cut it short
    told,       \* the identity attached to the error it raised
    accepted,   \* the vendor accepted the job
    requests,   \* who has asked the vendor to cancel the job
    active,     \* RigettiExecutor._active_jobs
    interruptedJobs \* RigettiExecutor._interrupted_jobs, oldest first

remote == <<executor, timed, at, work, identity, verdict, told, accepted,
            requests, active, interruptedJobs>>

Stages   == {"idle", "connect", "submit", "result", "cancel", "extra", "ended"}
Works    == {"connect", "submit", "result", "cancel", "extra"}
Progress == {"none", "queued", "running", "returned", "raised", "timedOut", "dropped"}
Statuses == {"absent", "not_submitted", "unknown", "submitted"}

---------------------------------------------------------------------------
(* What the executors differ in.                                           *)

\* Rigetti connects and compiles in the pool and under its timeout; the
\* others use the default executor of the event loop, before they have a pool.
Pyquil == executor \in {"rigetti", "qvm"}

\* calls.wait() asks for a cancellation; IBM awaits job.result() by itself.
MistakenCancels == executor # "qvm"
Cancels == executor \in {"braket", "azureQiskit", "azureCirq", "rigetti"}

\* An auxiliary lookup after the result: task.metadata, job.refresh.
LooksUp == executor \in {"braket", "azureQiskit"}

\* Which awaits config.timeout_seconds bounds.
Bounded(c) ==
    /\ timed
    /\ \/ at[c] = "result"
       \/ Pyquil /\ at[c] \in {"connect", "submit"}

---------------------------------------------------------------------------
(* The pool.                                                               *)

MistakenPoolSize == 1
PoolSize == 2

InPool(w) == w # "connect" \/ Pyquil
Busy(c) == {w \in Works : work[c][w] = "running" /\ InPool(w)}

Queue(c, w)  == work' = [work EXCEPT ![c][w] = "queued"]

\* An interrupted await cancels its future: queued work never runs, running
\* work runs on.  Shutting the pool down does the same to all of its queue.
Shut(c) ==
    work' = [work EXCEPT ![c] =
                [w \in Works |-> IF @[w] = "queued" THEN "dropped" ELSE @[w]]]

ThreadTakes(c, w) ==
    /\ work[c][w] = "queued"
    /\ InPool(w) => Cardinality(Busy(c)) < PoolSize
    /\ work' = [work EXCEPT ![c][w] = "running"]
    /\ UNCHANGED <<executor, timed, at, identity, verdict, told, accepted, requests,
                   active, interruptedJobs>>

\* The send of the submission reaches the vendor.
Accepts(c) ==
    /\ work[c]["submit"] = "running" /\ ~accepted[c]
    /\ accepted' = [accepted EXCEPT ![c] = TRUE]
    /\ UNCHANGED <<executor, timed, at, work, identity, verdict, told, requests,
                   active, interruptedJobs>>

\* The cancellation request of wait() reaches the vendor.
CancelArrives(c) ==
    /\ work[c]["cancel"] = "running" /\ "wait" \notin requests[c]
    /\ requests' = [requests EXCEPT ![c] = @ \cup {"wait"}]
    /\ UNCHANGED <<executor, timed, at, work, identity, verdict, told, accepted,
                   active, interruptedJobs>>

\* A submission answers only when it was accepted, and may lose its answer.
\* The vendor's own polling budget makes a result time out; the errors of the
\* other pieces of work are not told apart.
ThreadEnds(c, w, end) ==
    /\ work[c][w] = "running"
    /\ end = "returned" /\ w = "submit" => accepted[c]
    /\ end = "timedOut" => w = "result"
    /\ work' = [work EXCEPT ![c][w] = end]
    /\ UNCHANGED <<executor, timed, at, identity, verdict, told, accepted, requests,
                   active, interruptedJobs>>

---------------------------------------------------------------------------
(* The caller.                                                             *)

RemoteInit ==
    /\ executor \in Executors
    /\ timed \in BOOLEAN
    /\ at = [c \in Calls |-> "idle"]
    /\ work = [c \in Calls |-> [w \in Works |-> "none"]]
    /\ identity = [c \in Calls |-> "absent"]
    /\ verdict = [c \in Calls |-> "open"]
    /\ told = [c \in Calls |-> "absent"]
    /\ accepted = [c \in Calls |-> FALSE]
    /\ requests = [c \in Calls |-> {}]
    /\ active = {}
    /\ interruptedJobs = <<>>

Start(c) ==
    /\ at[c] = "idle"
    /\ at' = [at EXCEPT ![c] = "connect"]
    /\ Queue(c, "connect")
    /\ identity' = [identity EXCEPT ![c] = IF Pyquil THEN "not_submitted" ELSE "absent"]
    /\ UNCHANGED <<executor, timed, verdict, told, accepted, requests, active, interruptedJobs>>

\* From here on the job may exist: the status is set before the send.
MistakenNextIdentity(c) == identity[c]
NextIdentity(c) == "unknown"

Submit(c) ==
    /\ at[c] = "connect" /\ work[c]["connect"] = "returned"
    /\ at' = [at EXCEPT ![c] = "submit"]
    /\ Queue(c, "submit")
    /\ identity' = [identity EXCEPT ![c] = NextIdentity(c)]
    /\ UNCHANGED <<executor, timed, verdict, told, accepted, requests, active, interruptedJobs>>

\* The reply names the job; the result is awaited next.
Await(c) ==
    /\ at[c] = "submit" /\ work[c]["submit"] = "returned"
    /\ executor # "qvm"
    /\ at' = [at EXCEPT ![c] = "result"]
    /\ Queue(c, "result")
    /\ identity' = [identity EXCEPT ![c] = "submitted"]
    /\ active' = IF executor = "rigetti" THEN active \cup {c} ELSE active
    /\ UNCHANGED <<executor, timed, verdict, told, accepted, requests, interruptedJobs>>

\* The wait of a Rigetti job is over: the handle moves from one table to the
\* other when it failed, and the oldest of the others goes beyond the limit.
MistakenKeep(jobs, c) ==
    LET all == Append(jobs, c)
    IN  IF Len(all) > MaxRetained THEN SubSeq(all, 1, MaxRetained) ELSE all
Keep(jobs, c) ==
    LET all == Append(jobs, c)
    IN  IF Len(all) > MaxRetained THEN Tail(all) ELSE all

Release(c, failed) ==
    /\ active' = active \ {c}
    /\ interruptedJobs' = IF failed /\ c \in active THEN Keep(interruptedJobs, c) ELSE interruptedJobs

Leave(c, v) ==
    /\ at' = [at EXCEPT ![c] = "ended"]
    /\ verdict' = [verdict EXCEPT ![c] = v]
    /\ told' = [told EXCEPT ![c] = IF v = "result" THEN "absent" ELSE identity[c]]
    /\ Shut(c)
    /\ UNCHANGED <<executor, timed, identity, accepted, requests>>

\* The work the caller awaits raised.
Fails(c) ==
    /\ \/ at[c] \in {"connect", "submit"} /\ work[c][at[c]] = "raised"
       \/ at[c] = "result" /\ work[c]["result"] = "raised"
       \/ at[c] = "result" /\ work[c]["result"] = "timedOut" /\ ~Cancels
    /\ Leave(c, "error")
    /\ Release(c, TRUE)

\* The await ends because the caller is cancelled or its time is up, whatever
\* the thread has done meanwhile: an answer not yet delivered is lost.
LosesPatience(c, why) ==
    \/ why = "interrupted" /\ at[c] \notin {"idle", "cancel", "ended"}
    \/ why = "timeout" /\ Bounded(c)
    \/ why = "timeout" /\ at[c] = "result" /\ work[c]["result"] = "timedOut"

\* Without a cancellation request: IBM, and any call that is not in wait().
GivesUp(c, why) ==
    /\ LosesPatience(c, why)
    /\ ~(at[c] = "result" /\ Cancels)
    /\ Leave(c, IF why = "timeout" /\ executor = "ibm" THEN "error" ELSE why)
    /\ Release(c, TRUE)

\* wait() hands the cancellation to the second worker and gives it a second.
Abandons(c, why) ==
    /\ LosesPatience(c, why)
    /\ at[c] = "result" /\ Cancels
    /\ at' = [at EXCEPT ![c] = "cancel"]
    /\ verdict' = [verdict EXCEPT ![c] = why]
    /\ work' = [work EXCEPT ![c]["result"] = IF @ = "queued" THEN "dropped" ELSE @,
                            ![c]["cancel"] = "queued"]
    /\ UNCHANGED <<executor, timed, identity, told, accepted, requests, active, interruptedJobs>>

\* The request answered, failed, took more than its second or was cut short
\* by another interruption: the first exception goes on.
MistakenEndsCancelWait(c) ==
    /\ at[c] = "cancel" /\ work[c]["cancel"] \in {"returned", "raised"}
    /\ Leave(c, verdict[c])
    /\ Release(c, TRUE)
EndsCancelWait(c) ==
    /\ at[c] = "cancel"
    /\ Leave(c, verdict[c])
    /\ Release(c, TRUE)

\* The optional lookup is work of its own; its errors are ignored.
LookUp(c) ==
    /\ at[c] = "result" /\ work[c]["result"] = "returned" /\ LooksUp
    /\ at' = [at EXCEPT ![c] = "extra"]
    /\ Queue(c, "extra")
    /\ Release(c, FALSE)
    /\ UNCHANGED <<executor, timed, identity, verdict, told, accepted, requests>>

\* The result is decoded, in the same step, into counts or refused.
Answers(c, v) ==
    /\ \/ at[c] = "result" /\ work[c]["result"] = "returned" /\ ~LooksUp
       \/ at[c] = "submit" /\ work[c]["submit"] = "returned" /\ executor = "qvm"
       \/ at[c] = "extra" /\ work[c]["extra"] \in {"returned", "raised"}
    /\ v \in {"result", "error"}
    /\ Leave(c, v)
    /\ Release(c, FALSE)

\* The executor's cancel(job_id): Rigetti needs a handle it kept.
CancelByUser(c) ==
    /\ identity[c] = "submitted" /\ "user" \notin requests[c]
    /\ executor = "rigetti" => c \in active \/ \E i \in DOMAIN interruptedJobs : interruptedJobs[i] = c
    /\ requests' = [requests EXCEPT ![c] = @ \cup {"user"}]
    /\ UNCHANGED <<executor, timed, at, work, identity, verdict, told, accepted,
                   active, interruptedJobs>>

Caller(c) ==
    \/ Start(c) \/ Submit(c) \/ Await(c) \/ Fails(c) \/ LookUp(c)
    \/ \E v \in {"result", "error"} : Answers(c, v)

Interruption(c) ==
    \E why \in {"interrupted", "timeout"} : GivesUp(c, why) \/ Abandons(c, why)

Threads(c) ==
    \/ Accepts(c) \/ CancelArrives(c)
    \/ \E w \in Works :
          \/ ThreadTakes(c, w)
          \/ \E end \in {"returned", "raised", "timedOut"} : ThreadEnds(c, w, end)

RemoteNext ==
    \E c \in Calls :
        Caller(c) \/ Interruption(c) \/ EndsCancelWait(c) \/ Threads(c) \/ CancelByUser(c)

RemoteSpec == RemoteInit /\ [][RemoteNext]_remote
---------------------------------------------------------------------------
(* Properties.                                                             *)

Handles == active \cup {interruptedJobs[i] : i \in DOMAIN interruptedJobs}

\* The shape of the locals of execute() and of the pool behind it.
RemoteTypeOK ==
    /\ executor \in Executors
    /\ timed \in BOOLEAN
    /\ at \in [Calls -> Stages]
    /\ work \in [Calls -> [Works -> Progress]]
    /\ identity \in [Calls -> Statuses]
    /\ verdict \in [Calls -> {"open", "result", "error", "interrupted", "timeout"}]
    /\ told \in [Calls -> Statuses]
    /\ accepted \in [Calls -> BOOLEAN]
    /\ requests \in [Calls -> SUBSET {"wait", "user"}]
    /\ active \subseteq Calls
    /\ interruptedJobs \in Seq(Calls)

\* A call that ends without a result leaves no job the caller is told nothing
\* of: while the vendor has accepted one, or still may, the error carries an
\* identity that says so, with the id once a reply named it; and no error names
\* a job the vendor does not have.  "Do not replay automatically" rests on it.
IdentityTold ==
    \A c \in Calls : at[c] = "ended" /\ verdict[c] # "result" =>
        /\ accepted[c] \/ work[c]["submit"] = "running" => told[c] \in {"unknown", "submitted"}
        /\ told[c] = "submitted" => accepted[c]
        /\ c \in Handles => told[c] = "submitted"

\* "Two workers allow cleanup to start while a result call is still blocked":
\* a queued cancellation never waits for a thread that may hang.
CleanupStarts ==
    \A c \in Calls : work[c]["cancel"] = "queued" => Cardinality(Busy(c)) < PoolSize

\* wait() asks the vendor to cancel only a job its caller gave up on, never
\* one that answered or failed, and never a job of IBM's, whose executor
\* promises that "a timeout never cancels the job".
CancelJustified ==
    \A c \in Calls : "wait" \in requests[c] =>
        /\ verdict[c] \in {"interrupted", "timeout"}
        /\ identity[c] = "submitted"
        /\ executor # "ibm"

\* A Rigetti job stays cancellable from its reply until its result arrives, or
\* until MaxRetained later interruptions push the oldest handle out.
HandlesKept ==
    [][\A c \in Handles \ Handles' :
          \/ at[c] = "result" /\ work[c]["result"] = "returned"
          \/ Len(interruptedJobs) = MaxRetained /\ c = Head(interruptedJobs)]_remote

\* A caller that gives up is released, though every vendor call may hang.
AbandonedReturns ==
    \A c \in Calls : verdict[c] \in {"interrupted", "timeout"} ~> at[c] = "ended"
=============================================================================

---------------------------- MODULE JobPolling ----------------------------
(***************************************************************************)
(* Job.result (platform/job.py): poll the status of a job until it ends or *)
(* a deadline passes.  Every poll is one call of Transport.request that    *)
(* asks the service to hold its answer for a while (the "wait" parameter), *)
(* with a timeout that fits the time left.                                 *)
(*                                                                         *)
(* Times are ticks of half a second.  The timeout of a request is taken to *)
(* bound all of it, and a sleep to be exact.  Mistaken... operators are    *)
(* wrong versions of the definition after them; no action uses them.       *)
(***************************************************************************)
EXTENDS PlatformTransport

CONSTANTS
    Timeouts,           \* values for result(timeout=...)
    PollIntervals,      \* values for result(poll_interval=...)
    TransportTimeouts   \* per-request timeouts of the client

ASSUME TimeoutsAssumption == Timeouts \subseteq Nat \ {0}
ASSUME PollIntervalsAssumption == PollIntervals \subseteq Nat \ {0}
ASSUME TransportTimeoutsAssumption == TransportTimeouts \subseteq Nat \ {0}

VARIABLES
    perRequest,     \* transport.timeout
    deadline,
    backoff,
    at,             \* "loop", "polling" or "ended"
    verdict         \* how result() ended

polling == <<perRequest, deadline, backoff, at, verdict>>
vars    == <<transport, polling>>

ServerMaxWait == 22 * Second
WaitMargin == 5 * Second
MaxBackoff == 10 * Second

\* The statuses that end a job; "failed" is dispatch_failed too, and "active"
\* any other, known or not.
Terminal == {"completed", "failed", "cancelled"}

Init ==
    /\ TransportInit
    /\ perRequest \in TransportTimeouts
    /\ deadline \in Timeouts
    /\ backoff \in PollIntervals
    /\ at = "loop"
    /\ verdict = "open"

Ends(v) == at' = "ended" /\ verdict' = v
Remaining == deadline - now

---------------------------------------------------------------------------
RequestTimeout == Least(perRequest, Remaining)

\* Whole seconds, in ticks, and never negative.
Hold ==
    LET wanted == Least(ServerMaxWait, Least(Remaining, RequestTimeout - WaitMargin))
    IN  IF wanted <= 0 THEN 0 ELSE (wanted \div Second) * Second

Poll ==
    /\ at = "loop"
    /\ Remaining > 0
    /\ Begin(Read(RequestTimeout, deadline, Hold))
    /\ at' = "polling"
    /\ UNCHANGED <<perRequest, deadline, backoff, verdict>>

TimeIsUp ==
    /\ at = "loop"
    /\ Remaining <= 0
    /\ Ends("timeout")
    /\ UNCHANGED <<transport, perRequest, deadline, backoff>>

\* One step of the request.  The service answers with a status at the end of
\* the hold or before.
Attempting ==
    /\ at = "polling"
    /\ \/ Transmit \/ ConnectFails \/ Cut \/ Unreadable \/ Retry
       \/ \E status \in RetryableStatuses : TransientStatus(status)
       \/ \E status \in FinalStatuses : RefusedStatus(status)
       \/ \E status \in {"active"} \cup Terminal : Arrives(status)
    /\ UNCHANGED polling

\* The answer is a TransportError: no answer, an unreadable one or a bare error.
IsTransportError(a) ==
    \/ a.kind \in {"exhausted", "unreadable"}
    \/ a.kind = "status" /\ a.status \in {"bareTransient", "bareRefused"}

MistakenErrorVerdict(a) == IF IsTransportError(a) THEN "transportError" ELSE "error"
ErrorVerdict(a) ==
    IF ~IsTransportError(a) THEN "error"
    ELSE IF Remaining <= 0 THEN "timeout" ELSE "transportError"

PollFails ==
    /\ at = "polling" /\ phase = "over"
    /\ answer.kind # "body"
    /\ Ends(ErrorVerdict(answer))
    /\ Clear
    /\ UNCHANGED <<perRequest, deadline, backoff>>

JobOver ==
    /\ at = "polling" /\ phase = "over"
    /\ answer.kind = "body" /\ answer.body \in Terminal
    /\ Ends(answer.body)
    /\ Clear
    /\ UNCHANGED <<perRequest, deadline, backoff>>

\* Up to a quarter of the back-off is added at random.
MistakenHeldNap(jitter) ==
    IF call.wait > 0 THEN 0 ELSE Least(Least(backoff + jitter, MaxBackoff), Remaining)
Nap(jitter) == Least(Least(backoff + jitter, MaxBackoff), Remaining)

\* Not finished: sleep, and double the back-off.
JobActive ==
    /\ at = "polling" /\ phase = "over"
    /\ answer.kind = "body" /\ answer.body \notin Terminal
    /\ \/ /\ Remaining <= 0
          /\ Ends("timeout")
          /\ UNCHANGED <<now, backoff>>
       \/ /\ Remaining > 0
          /\ \E jitter \in 0..(backoff \div 4) : now' = now + Nap(jitter)
          /\ backoff' = Least(2 * backoff, MaxBackoff)
          /\ at' = "loop"
          /\ UNCHANGED verdict
    /\ Drop
    /\ UNCHANGED <<perRequest, deadline>>

Over == at = "ended" /\ UNCHANGED vars

Client == Poll \/ TimeIsUp \/ Attempting \/ PollFails \/ JobOver \/ JobActive
Next == Client \/ Over

Spec == Init /\ [][Next]_vars

\* The client runs; the service owes nothing, the job may run for ever.
FairSpec == Spec /\ WF_vars(Client)
---------------------------------------------------------------------------
(* Properties.                                                             *)

\* The shape of result()'s locals.
TypeOK ==
    /\ TransportTypeOK
    /\ perRequest \in TransportTimeouts
    /\ deadline \in Timeouts
    /\ backoff \in Nat \ {0}
    /\ at \in {"loop", "polling", "ended"}
    /\ verdict \in {"open", "timeout", "transportError", "error"} \cup Terminal

\* No request, retry, back-off or sleep runs on past the deadline.
DeadlineKept == now <= deadline

\* TimeoutError is raised when the timeout has elapsed and not before, and a
\* TransportError only before: "a poll cut short by the deadline is a timeout,
\* not a transport fault".
TimeoutHonest ==
    /\ verdict = "timeout" => now >= deadline
    /\ verdict = "transportError" => now < deadline

\* "The transport cannot time out before the server responds": the hold asked
\* for is shorter than the timeout of the attempt that asks for it.
HoldFits ==
    phase \in {"sending", "waiting"} /\ call.wait > 0 => call.wait < limit
=============================================================================

------------------------- MODULE PlatformTransport -------------------------
(***************************************************************************)
(* One call of Transport.request (platform/_transport.py): up to three     *)
(* attempts of one HTTP request, under one idempotency key.                *)
(*                                                                         *)
(* The operators say what request() does with the outcome of an attempt.   *)
(* Modules that EXTEND this one say where the outcome comes from:          *)
(* PlatformSubmission has a service that may hold a request whose answer   *)
(* was lost, JobPolling one that holds a request on purpose.               *)
(*                                                                         *)
(* Time is counted in ticks of half a second, the smallest back-off.  The  *)
(* code reads the clock only for a call with a deadline, and only then     *)
(* does it advance here.                                                   *)
(*                                                                         *)
(* Mistaken... operators are wrong versions of the definition after them;  *)
(* no action uses them.                                                    *)
(***************************************************************************)
EXTENDS Integers

CONSTANTS
    None,           \* no deadline, no answer, no wait asked for
    Durations,      \* ticks an attempt may take, beside its whole timeout
    RetryAfters     \* seconds a 429 may ask for

ASSUME DurationsAssumption == Durations \subseteq Nat
ASSUME RetryAfterAssumption == RetryAfters \subseteq Nat
ASSUME NoneAssumption == None \notin Int

VARIABLES
    now,            \* time.monotonic()
    call,           \* the arguments of request()
    phase,          \* where it stands
    attempt,        \* the loop variable
    limit,          \* attempt_timeout
    nextSleep,      \* next_sleep, in ticks
    last,           \* last_exc or last_resp: each resets the other
    answer          \* what request() returned or raised

transport == <<now, call, phase, attempt, limit, nextSleep, last, answer>>

MaxRetries == 3
Second == 2                                     \* ticks
Least(x, y) == IF x <= y THEN x ELSE y

\* A call: a write carries a key; idem is idempotent_write.
Read(timeout, deadline, wait) ==
    [write |-> FALSE, idem |-> FALSE, key |-> None, timeout |-> timeout,
     deadline |-> deadline, wait |-> wait]
IdempotentWrite(key, timeout) ==
    [write |-> TRUE, idem |-> TRUE, key |-> key, timeout |-> timeout,
     deadline |-> None, wait |-> 0]

TransportInit ==
    /\ now = 0
    /\ call = None
    /\ phase = "idle"
    /\ attempt = 0
    /\ limit = 0
    /\ nextSleep = None
    /\ last = "none"
    /\ answer = None

Timed == call.deadline # None
Elapse(t) == now' = IF Timed THEN now + t ELSE now

\* An attempt takes no longer than its timeout.
AttemptTakes == \E d \in Durations \cup {limit} : d <= limit /\ Elapse(d)

---------------------------------------------------------------------------
\* A caller may have taken the answer of an earlier call in the same step.
Begin(c) ==
    /\ phase \in {"idle", "over"}
    /\ call' = c
    /\ phase' = "sending"
    /\ attempt' = 0
    /\ limit' = c.timeout
    /\ nextSleep' = None
    /\ last' = "none"
    /\ answer' = None
    /\ UNCHANGED now

\* The request leaves the client.
Transmit ==
    /\ phase = "sending"
    /\ phase' = "waiting"
    /\ UNCHANGED <<now, call, attempt, limit, nextSleep, last, answer>>

Answer(a) == phase' = "over" /\ answer' = a /\ UNCHANGED <<nextSleep, last>>
Again(what, sleep) ==
    /\ phase' = "failed"
    /\ last' = what
    /\ nextSleep' = sleep
    /\ UNCHANGED answer
Attempted == AttemptTakes /\ UNCHANGED <<call, attempt, limit>>

\* Refused, no such name, connect timeout: the request never left the client,
\* and any call may try again.
ConnectFails ==
    /\ phase = "sending"
    /\ Again("exception", None)
    /\ Attempted

MistakenMayReplay == TRUE
MayReplay == ~call.idem

\* Timed out, cut off after sending, or any other failure: the service may
\* have the request.
Cut ==
    /\ phase = "waiting"
    /\ \/ MayReplay /\ Again("exception", None)
       \/ ~MayReplay /\ Answer([kind |-> "ambiguous", keyed |-> TRUE])
    /\ Attempted

Arrives(body) ==
    /\ phase = "waiting"
    /\ Answer([kind |-> "body", body |-> body, keyed |-> FALSE])
    /\ Attempted

\* A success status with a body that is not JSON.
Unreadable ==
    /\ phase = "waiting"
    /\ Answer([kind |-> "unreadable", keyed |-> call.write])
    /\ Attempted

\* "limited" is 429, "transient" is 502, 503 and 504, "refused" any other.  A
\* "bare" one comes without the platform's error body: a TransportError.
RetryableStatuses == {"limited", "transient", "bareTransient"}
FinalStatuses == {"refused", "bareRefused"}
Raised(status) == [kind |-> "status", status |-> status, keyed |-> FALSE]

\* The pause before attempt i, and what the remaining ones add up to.
BackOff(i) == IF i = 1 THEN 1 ELSE 2
Budget == CASE attempt = 0 -> BackOff(1) + BackOff(2)
            [] attempt = 1 -> BackOff(2)
            [] OTHER       -> 0
Honoured(wanted) == IF wanted = None \/ wanted * Second > Budget THEN None ELSE wanted * Second

\* GETs and idempotent writes are tried again on a transient status.
Replayable == (~call.write \/ call.idem) /\ attempt < MaxRetries - 1

TransientStatus(status) ==
    /\ phase = "waiting"
    /\ \/ /\ Replayable
          /\ \/ status = "limited" /\ \E w \in RetryAfters \cup {None} : Again(status, Honoured(w))
             \/ status # "limited" /\ Again(status, None)
       \/ ~Replayable /\ Answer(Raised(status))
    /\ Attempted

\* Any other status, mapped to its exception at once.
RefusedStatus(status) ==
    /\ phase = "waiting"
    /\ Answer(Raised(status))
    /\ Attempted

\* The attempts are used up, or the deadline has passed.
GiveUp ==
    /\ Answer(IF last = "exception" THEN [kind |-> "exhausted", keyed |-> FALSE] ELSE Raised(last))
    /\ UNCHANGED <<attempt, limit>>

Left(t) == call.deadline - t
PastDeadline(t) == Timed /\ Left(t) <= 0

Pause(wanted) == IF Timed THEN Least(wanted, Left(now)) ELSE wanted

MistakenNextLimit(t) == call.timeout
NextLimit(t) == IF Timed THEN Least(call.timeout, Left(t)) ELSE call.timeout

LastAttempt == attempt = MaxRetries - 1

MistakenCount == IF nextSleep # None THEN attempt ELSE attempt + 1
Count == attempt + 1

\* The top of the loop: back off and start the next attempt.
Retry ==
    /\ phase = "failed"
    /\ UNCHANGED call
    /\ \/ /\ LastAttempt \/ PastDeadline(now)
          /\ GiveUp
          /\ UNCHANGED now
       \/ /\ ~LastAttempt /\ ~PastDeadline(now)
          /\ Elapse(Pause(IF nextSleep # None THEN nextSleep ELSE BackOff(attempt + 1)))
          /\ \/ PastDeadline(now') /\ GiveUp
             \/ /\ ~PastDeadline(now')
                /\ attempt' = Count
                /\ limit' = NextLimit(now')
                /\ nextSleep' = None
                /\ phase' = "sending"
                /\ UNCHANGED <<last, answer>>

\* The caller takes the answer and calls no more for now.
Drop ==
    /\ call' = None
    /\ phase' = "idle"
    /\ attempt' = 0
    /\ limit' = 0
    /\ nextSleep' = None
    /\ last' = "none"
    /\ answer' = None
Clear == Drop /\ UNCHANGED now

---------------------------------------------------------------------------
Phases == {"idle", "sending", "waiting", "failed", "over"}

\* The shape of the loop's state.
TransportTypeOK ==
    /\ now \in Nat
    /\ phase \in Phases
    /\ attempt \in 0..(MaxRetries - 1)
    /\ limit \in Nat
    /\ nextSleep \in Nat \cup {None}
    /\ last \in {"none", "exception"} \cup RetryableStatuses
    /\ phase # "idle" => call.timeout \in Nat /\ call.deadline \in Nat \cup {None}
    /\ phase \notin {"idle", "over"} => answer = None
    /\ phase = "failed" => last # "none"
=============================================================================

------------------------ MODULE PlatformReadersProofs ------------------------
(***************************************************************************)
(* The two readers of the platform, for all values of the constants.       *)
(*                                                                         *)
(* Of result() (JobPolling): its types, its deadline, and that a timeout   *)
(* is told from a transport error.  The invariant says why: a call carries *)
(* the deadline of result(), and the timeout of the attempt under way fits *)
(* into the time left.                                                     *)
(*                                                                         *)
(* Of marqov watch (Watcher): its pace and what its frames say.  A refresh *)
(* may spend so many reads by each of its points, and the delay after it   *)
(* pays for all of them; a stale mark goes with the first failure since    *)
(* the last good capture.                                                  *)
(***************************************************************************)
EXTENDS PlatformReaders, TLAPS

---------------------------------------------------------------------------
(* result(): JobPolling.                                                   *)

Fits ==
    /\ at = "polling" <=> phase # "idle"
    /\ at = "polling" => call.deadline = deadline
    /\ phase \in {"sending", "waiting"} => limit <= deadline - now
    /\ at # "ended" <=> verdict = "open"

Inv == TypeOK /\ DeadlineKept /\ TimeoutHonest /\ Fits

USE DurationsAssumption, RetryAfterAssumption, NoneAssumption, TimeoutsAssumption,
    PollIntervalsAssumption, TransportTimeoutsAssumption

---------------------------------------------------------------------------
(* Arithmetic of the time left.                                            *)

\* The smaller of two numbers is one of them, and neither is less.
LEMMA LeastBounds ==
    ASSUME NEW x \in Int, NEW y \in Int
    PROVE  /\ Least(x, y) \in {x, y}
           /\ Least(x, y) <= x
           /\ Least(x, y) <= y
BY DEF Least

\* A request made while time is left has a timeout that fits into it.
LEMMA RequestFits ==
    ASSUME TypeOK, Remaining > 0
    PROVE  RequestTimeout \in Nat /\ RequestTimeout <= deadline - now
<1>1. perRequest \in Nat /\ deadline \in Nat /\ now \in Nat
  BY DEF TypeOK, TransportTypeOK
<1>2. Remaining \in Int /\ Remaining = deadline - now
  BY <1>1 DEF Remaining
<1> QED
  BY <1>1, <1>2, LeastBounds DEF RequestTimeout

\* An attempt ends before the deadline.
LEMMA AttemptInTime ==
    ASSUME Inv, at = "polling", phase \in {"sending", "waiting"}, AttemptTakes
    PROVE  now' \in Nat /\ now' <= deadline
<1>1. PICK d \in Durations \cup {limit} : d <= limit /\ Elapse(d)
  BY DEF AttemptTakes
<1>2. /\ now \in Nat /\ limit \in Nat /\ deadline \in Nat
      /\ limit <= deadline - now
      /\ call.deadline = deadline
  BY DEF Inv, TypeOK, TransportTypeOK, Fits
<1>3. d \in Nat
  BY <1>1, <1>2
<1>4. now' = now + d
  BY <1>1, <1>2 DEF Elapse, Timed
<1> QED
  BY <1>1, <1>2, <1>3, <1>4

\* Before the deadline, the timeout of a retry fits into what is left.
LEMMA RetryFits ==
    ASSUME Inv, at = "polling", NEW t \in Nat, ~PastDeadline(t)
    PROVE  /\ Left(t) = deadline - t
           /\ Left(t) > 0
           /\ NextLimit(t) \in Nat
           /\ NextLimit(t) <= deadline - t
<1>1. /\ deadline \in Nat
      /\ call.deadline = deadline
      /\ call.timeout \in Nat
  BY DEF Inv, TypeOK, TransportTypeOK, Fits
<1>2. Timed
  BY <1>1 DEF Timed
<1>3. Left(t) = deadline - t /\ Left(t) > 0
  BY <1>1, <1>2 DEF Left, PastDeadline
<1> QED
  BY <1>1, <1>2, <1>3, LeastBounds DEF NextLimit

\* A back-off ends at the deadline or before.
LEMMA BackOffInTime ==
    ASSUME Inv, at = "polling", ~PastDeadline(now), NEW wanted \in Nat, Elapse(Pause(wanted))
    PROVE  now' \in Nat /\ now' <= deadline
<1>1. /\ now \in Nat /\ deadline \in Nat
      /\ call.deadline = deadline
  BY DEF Inv, TypeOK, TransportTypeOK, Fits
<1>2. Timed
  BY <1>1 DEF Timed
<1>3. Left(now) = deadline - now /\ Left(now) > 0
  BY <1>1, RetryFits
<1>4. Pause(wanted) \in Nat /\ Pause(wanted) <= deadline - now
  BY <1>1, <1>2, <1>3, LeastBounds DEF Pause
<1>5. now' = now + Pause(wanted)
  BY <1>2 DEF Elapse
<1> QED
  BY <1>1, <1>4, <1>5

---------------------------------------------------------------------------
(* The steps of a request.                                                 *)

\* An attempt that ends leaves a well-formed loop and time on the clock.
LEMMA AttemptEndsWell ==
    ASSUME Inv, UNCHANGED polling, at = "polling", phase \in {"sending", "waiting"},
           Attempted,
           \/ \E a : Answer(a)
           \/ \E what \in {"exception"} \cup RetryableStatuses :
                 \E sleep \in Nat \cup {None} : Again(what, sleep)
    PROVE  Inv'
<1>1. now' \in Nat /\ now' <= deadline
  BY AttemptInTime DEF Attempted
<1>2. UNCHANGED <<call, attempt, limit, perRequest, deadline, backoff, at, verdict>>
  BY DEF Attempted, polling
<1>3. verdict = "open"
  BY DEF Inv, Fits
<1>4. CASE \E a : Answer(a)
  <2>1. phase' = "over" /\ UNCHANGED <<nextSleep, last>>
    BY <1>4 DEF Answer
  <2> QED
    BY <1>1, <1>2, <1>3, <2>1
    DEF Inv, TypeOK, TransportTypeOK, Phases, DeadlineKept, TimeoutHonest, Fits
<1>5. CASE \E what \in {"exception"} \cup RetryableStatuses :
              \E sleep \in Nat \cup {None} : Again(what, sleep)
  <2>1. /\ phase' = "failed"
        /\ last' \in {"exception"} \cup RetryableStatuses
        /\ nextSleep' \in Nat \cup {None}
        /\ answer' = answer
    BY <1>5 DEF Again
  <2>2. last' # "none"
    BY <2>1 DEF RetryableStatuses
  <2> QED
    BY <1>1, <1>2, <1>3, <2>1, <2>2
    DEF Inv, TypeOK, TransportTypeOK, Phases, DeadlineKept, TimeoutHonest, Fits
<1> QED
  BY <1>4, <1>5

\* A honoured Retry-After is a number of ticks.
LEMMA HonouredIsTicks ==
    ASSUME NEW w \in RetryAfters \cup {None}
    PROVE  Honoured(w) \in Nat \cup {None}
BY DEF Honoured, Second

\* Every way an attempt may end.
LEMMA TransientStatusKeeps ==
    ASSUME Inv, UNCHANGED polling, at = "polling",
           NEW status \in RetryableStatuses, TransientStatus(status)
    PROVE  Inv'
<1>1. phase \in {"sending", "waiting"} /\ Attempted
  BY DEF TransientStatus
<1>2. CASE Answer(Raised(status))
  BY <1>1, <1>2, AttemptEndsWell
<1>3. CASE \E w \in RetryAfters \cup {None} : Again(status, Honoured(w))
  BY <1>1, <1>3, HonouredIsTicks, AttemptEndsWell
<1>4. CASE Again(status, None)
  BY <1>1, <1>4, AttemptEndsWell
<1> QED
  BY <1>2, <1>3, <1>4 DEF TransientStatus

\* The top of the loop gives up, or starts an attempt that fits.
LEMMA RetryKeeps ==
    ASSUME Inv, UNCHANGED polling, at = "polling", Retry
    PROVE  Inv'
<1>1. /\ phase = "failed" /\ verdict = "open"
      /\ UNCHANGED <<call, perRequest, deadline, backoff, at, verdict>>
  BY DEF Retry, Inv, Fits, polling
<1>2. /\ attempt \in 0..2 /\ now \in Nat /\ now <= deadline /\ limit \in Nat
      /\ nextSleep \in Nat \cup {None}
  BY DEF Inv, TypeOK, TransportTypeOK, DeadlineKept, MaxRetries
<1>3. CASE GiveUp /\ UNCHANGED now
  BY <1>1, <1>2, <1>3
  DEF GiveUp, Answer, Inv, TypeOK, TransportTypeOK, Phases, DeadlineKept, TimeoutHonest, Fits
<1>4. CASE /\ ~LastAttempt /\ ~PastDeadline(now)
           /\ Elapse(Pause(IF nextSleep # None THEN nextSleep ELSE BackOff(attempt + 1)))
           /\ \/ PastDeadline(now') /\ GiveUp
              \/ /\ ~PastDeadline(now')
                 /\ attempt' = Count
                 /\ limit' = NextLimit(now')
                 /\ nextSleep' = None
                 /\ phase' = "sending"
                 /\ UNCHANGED <<last, answer>>
  <2>1. (IF nextSleep # None THEN nextSleep ELSE BackOff(attempt + 1)) \in Nat
    BY <1>2 DEF BackOff
  <2>2. now' \in Nat /\ now' <= deadline
    BY <1>4, <2>1, BackOffInTime
  <2>3. CASE GiveUp
    BY <1>1, <1>2, <2>2, <2>3
    DEF GiveUp, Answer, Inv, TypeOK, TransportTypeOK, Phases, DeadlineKept, TimeoutHonest, Fits
  <2>4. CASE /\ ~PastDeadline(now')
             /\ attempt' = Count
             /\ limit' = NextLimit(now')
             /\ nextSleep' = None
             /\ phase' = "sending"
             /\ UNCHANGED <<last, answer>>
    <3>1. limit' \in Nat /\ limit' <= deadline - now'
      BY <2>2, <2>4, RetryFits
    <3>2. attempt' \in 0..2
      BY <1>2, <1>4, <2>4 DEF LastAttempt, Count, MaxRetries
    <3> QED
      BY <1>1, <1>2, <2>2, <2>4, <3>1, <3>2
      DEF Inv, TypeOK, TransportTypeOK, Phases, MaxRetries, DeadlineKept, TimeoutHonest, Fits
  <2> QED
    BY <1>4, <2>3, <2>4
<1> QED
  BY <1>3, <1>4 DEF Retry

LEMMA AttemptingKeeps ==
    ASSUME Inv, Attempting
    PROVE  Inv'
<1> USE DEF Attempting
<1>1. at = "polling" /\ UNCHANGED polling
  OBVIOUS
<1>2. CASE Transmit
  BY <1>1, <1>2
  DEF Transmit, polling, Inv, TypeOK, TransportTypeOK, Phases, DeadlineKept, TimeoutHonest, Fits
<1>3. CASE ConnectFails
  BY <1>1, <1>3, AttemptEndsWell DEF ConnectFails
<1>4. CASE Cut
  BY <1>1, <1>4, AttemptEndsWell DEF Cut
<1>5. CASE Unreadable
  BY <1>1, <1>5, AttemptEndsWell DEF Unreadable
<1>6. CASE Retry
  BY <1>1, <1>6, RetryKeeps
<1>7. CASE \E status \in RetryableStatuses : TransientStatus(status)
  BY <1>1, <1>7, TransientStatusKeeps
<1>8. CASE \E status \in FinalStatuses : RefusedStatus(status)
  BY <1>1, <1>8, AttemptEndsWell DEF RefusedStatus
<1>9. CASE \E status \in {"active"} \cup Terminal : Arrives(status)
  BY <1>1, <1>9, AttemptEndsWell DEF Arrives
<1> QED
  BY <1>2, <1>3, <1>4, <1>5, <1>6, <1>7, <1>8, <1>9

---------------------------------------------------------------------------
(* The steps of result().                                                  *)

LEMMA PollKeeps ==
    ASSUME Inv, Poll
    PROVE  Inv'
<1> DEFINE c == Read(RequestTimeout, deadline, Hold)
<1>1. RequestTimeout \in Nat /\ RequestTimeout <= deadline - now
  BY RequestFits DEF Inv, Poll
<1>2. c.timeout = RequestTimeout /\ c.deadline = deadline
  BY DEF Read
<1>3. /\ call' = c /\ limit' = c.timeout /\ phase' = "sending" /\ attempt' = 0
      /\ nextSleep' = None /\ last' = "none" /\ answer' = None /\ now' = now
      /\ at = "loop" /\ at' = "polling"
      /\ UNCHANGED <<perRequest, deadline, backoff, verdict>>
  BY DEF Poll, Begin
<1> HIDE DEF c
<1> QED
  BY <1>1, <1>2, <1>3
  DEF Inv, TypeOK, TransportTypeOK, Phases, MaxRetries, DeadlineKept, TimeoutHonest, Fits

LEMMA TimeIsUpKeeps ==
    ASSUME Inv, TimeIsUp
    PROVE  Inv'
BY DEF TimeIsUp, Ends, Remaining, transport, Inv, TypeOK, TransportTypeOK, Phases,
       DeadlineKept, TimeoutHonest, Fits

\* The transport is reset and the clock is well placed.
LEMMA DropKeepsTypes ==
    ASSUME Drop, now' \in Nat
    PROVE  TransportTypeOK' /\ phase' = "idle"
BY DEF Drop, TransportTypeOK, Phases, MaxRetries

LEMMA PollFailsKeeps ==
    ASSUME Inv, PollFails
    PROVE  Inv'
<1>1. TransportTypeOK' /\ phase' = "idle" /\ now' = now /\ now \in Nat /\ deadline \in Nat
  BY DropKeepsTypes DEF PollFails, Clear, Inv, TypeOK, TransportTypeOK
<1>2. /\ at' = "ended" /\ verdict' = ErrorVerdict(answer)
      /\ UNCHANGED <<perRequest, deadline, backoff>>
  BY DEF PollFails, Ends
<1>3. /\ ErrorVerdict(answer) \in {"error", "timeout", "transportError"}
      /\ ErrorVerdict(answer) = "timeout" => Remaining <= 0
      /\ ErrorVerdict(answer) = "transportError" => ~(Remaining <= 0)
  BY DEF ErrorVerdict
<1>4. Remaining = deadline - now
  BY DEF Remaining
<1> QED
  BY <1>1, <1>2, <1>3, <1>4 DEF Inv, TypeOK, DeadlineKept, TimeoutHonest, Fits

LEMMA JobOverKeeps ==
    ASSUME Inv, JobOver
    PROVE  Inv'
<1>1. TransportTypeOK' /\ phase' = "idle" /\ now' = now
  BY DropKeepsTypes DEF JobOver, Clear, Inv, TypeOK, TransportTypeOK
<1>2. /\ at' = "ended" /\ verdict' \in Terminal
      /\ UNCHANGED <<perRequest, deadline, backoff>>
  BY DEF JobOver, Ends
<1> QED
  BY <1>1, <1>2 DEF Inv, TypeOK, DeadlineKept, TimeoutHonest, Fits, Terminal

LEMMA JobActiveKeeps ==
    ASSUME Inv, JobActive
    PROVE  Inv'
<1>1. /\ now \in Nat /\ deadline \in Nat /\ now <= deadline /\ backoff \in Nat \ {0}
      /\ Remaining = deadline - now
      /\ verdict = "open"
  BY DEF JobActive, Inv, TypeOK, TransportTypeOK, DeadlineKept, Remaining, Fits
<1>2. CASE /\ Remaining <= 0
           /\ Ends("timeout")
           /\ UNCHANGED <<now, backoff>>
  <2>1. TransportTypeOK' /\ phase' = "idle"
    BY <1>1, <1>2, DropKeepsTypes DEF JobActive
  <2> QED
    BY <1>1, <1>2, <2>1
    DEF JobActive, Ends, Inv, TypeOK, DeadlineKept, TimeoutHonest, Fits
<1>3. CASE /\ Remaining > 0
           /\ \E jitter \in 0..(backoff \div 4) : now' = now + Nap(jitter)
           /\ backoff' = Least(2 * backoff, MaxBackoff)
           /\ at' = "loop"
           /\ UNCHANGED verdict
  <2>1. PICK jitter \in 0..(backoff \div 4) : now' = now + Nap(jitter)
    BY <1>3
  <2>2. jitter \in Nat
    BY <1>1
  <2>3. Least(backoff + jitter, MaxBackoff) \in Nat
    BY <1>1, <2>2, LeastBounds DEF MaxBackoff, Second
  <2>4. Nap(jitter) \in Nat /\ Nap(jitter) <= deadline - now
    BY <1>1, <1>3, <2>3, LeastBounds DEF Nap
  <2>5. now' \in Nat /\ now' <= deadline
    BY <1>1, <2>1, <2>4
  <2>6. backoff' \in Nat \ {0}
    BY <1>1, <1>3, LeastBounds DEF MaxBackoff, Second
  <2>7. TransportTypeOK' /\ phase' = "idle"
    BY <2>5, DropKeepsTypes DEF JobActive
  <2> QED
    BY <1>1, <1>3, <2>5, <2>6, <2>7
    DEF JobActive, Inv, TypeOK, DeadlineKept, TimeoutHonest, Fits
<1> QED
  BY <1>2, <1>3 DEF JobActive

---------------------------------------------------------------------------
LEMMA InitInv ==
    ASSUME Init
    PROVE  Inv
BY DEF Init, TransportInit, Inv, TypeOK, TransportTypeOK, Phases, MaxRetries,
       DeadlineKept, TimeoutHonest, Fits

\* Every step, and every stutter, keeps the invariant.
LEMMA StepInv ==
    ASSUME Inv, [Next]_vars
    PROVE  Inv'
<1>1. CASE Poll
  BY <1>1, PollKeeps
<1>2. CASE TimeIsUp
  BY <1>2, TimeIsUpKeeps
<1>3. CASE Attempting
  BY <1>3, AttemptingKeeps
<1>4. CASE PollFails
  BY <1>4, PollFailsKeeps
<1>5. CASE JobOver
  BY <1>5, JobOverKeeps
<1>6. CASE JobActive
  BY <1>6, JobActiveKeeps
<1>7. CASE Over \/ UNCHANGED vars
  BY <1>7 DEF Over, vars, transport, polling, Inv, TypeOK, TransportTypeOK,
              DeadlineKept, TimeoutHonest, Fits
<1> QED
  BY <1>1, <1>2, <1>3, <1>4, <1>5, <1>6, <1>7 DEF Next, Client

\* The inductive invariant holds in every state.
THEOREM Invariance == Spec => []Inv
<1>1. Init => Inv
  BY InitInv
<1>2. Inv /\ [Next]_vars => Inv'
  BY StepInv
<1> QED
  BY <1>1, <1>2, PTL DEF Spec

\* result() keeps the shape of its locals, whatever the service does.
THEOREM TypeCorrect == Spec => []TypeOK
<1>1. Inv => TypeOK
  BY DEF Inv
<1> QED
  BY <1>1, Invariance, PTL

\* No request, retry, back-off or sleep of result() runs past its deadline.
THEOREM DeadlineIsKept == Spec => []DeadlineKept
<1>1. Inv => DeadlineKept
  BY DEF Inv
<1> QED
  BY <1>1, Invariance, PTL

\* TimeoutError means the timeout has elapsed, TransportError that it has not.
THEOREM TimeoutIsHonest == Spec => []TimeoutHonest
<1>1. Inv => TimeoutHonest
  BY DEF Inv
<1> QED
  BY <1>1, Invariance, PTL

---------------------------------------------------------------------------
(* marqov watch: Watcher.                                                  *)

\* What a project view may spend on one refresh.
Pace == 2 * (1 + MaxDocuments + JobLimit)

Reading == {"refresh", "team", "listing", "document", "status", "drawn", "ended"}
Stale == [since : Nat, retry : Nat \union {Absent}]

\* The shape of the watcher's state.
WatcherTypeOK ==
    /\ scope \in {"team", "project"} /\ reading \in Reading
    /\ interval \in Nat /\ clock \in Nat /\ reads \in Nat /\ frames \in Nat
    /\ documents \in Nat /\ linked \in Nat /\ statuses \in Nat
    /\ failures \in Nat /\ delay \in Nat /\ stopped \in BOOLEAN
    /\ snapshot \in {Absent} \union [captured : Nat, stale : {Absent} \union Stale]
    /\ shown \in [good : Nat \union {Absent}, broke : Nat \union {Absent}]

\* How many reads a refresh may have made by now, at each point.
Spent ==
    CASE reading \in {"refresh", "listing"} -> 0
      [] reading = "document" -> 1 + MaxDocuments - documents
      [] reading = "status" -> 1 + MaxDocuments + statuses
      [] OTHER -> 1 + MaxDocuments + JobLimit

\* Where the page counts stand at each point.
Paging ==
    /\ reading \in {"refresh", "listing", "team"} => documents = 0 /\ linked = 0 /\ statuses = 0
    /\ reading = "document" => documents > 0 /\ documents <= MaxDocuments /\ statuses = 0
    /\ reading = "status" => statuses < JobLimit /\ statuses < linked

\* The reads made so far are paid for, but those of the refresh under way.
Paces ==
    scope = "project" =>
        /\ interval >= Pace /\ delay >= Pace
        /\ reading # "team"
        /\ reading # "ended" => 2 * reads <= clock + 2 * Spent

\* A snapshot's stale mark, against what happened; only a final failure stops.
Frames ==
    /\ stopped => reading \in {"drawn", "ended"}
    /\ snapshot # Absent =>
        /\ snapshot.captured = shown.good
        /\ snapshot.stale = Absent <=> shown.broke = Absent
        /\ snapshot.stale # Absent =>
              /\ snapshot.stale.since = shown.broke
              /\ snapshot.stale.retry = Absent => stopped

WatcherInv == WatcherTypeOK /\ Paging /\ Paces /\ Frames

USE WatcherAssumption, AbsentAssumption, PaceAssumption

\* No back-off is shorter than the pace of a project view.
LEMMA PaceIsNatural == Pace \in Nat /\ Pace <= MaxRefreshBackoff
BY DEF Pace

\* A back-off is a number, and no shorter than the pace of a paced interval.
LEMMA BackOffIsLong ==
    ASSUME interval \in Nat, NEW n \in Nat, NEW w \in ServerRetryAfters \union {Absent}
    PROVE  /\ BackOffFor(n, w) \in Nat
           /\ interval >= Pace => BackOffFor(n, w) >= Pace
<1> DEFINE p == 2 ^ Shorter(n, 16)
<1>1. Shorter(n, 16) \in 0..16
  BY DEF Shorter
<1>2. p \in Nat /\ p >= 1
  BY <1>1, PowersAssumption
<1> HIDE DEF p
<1>3. interval * p \in Nat /\ interval * p >= interval
  BY <1>2
<1>4. Whole(w) \in Nat
  BY DEF Whole
<1>5. Shorter(MaxRetryAfter, Whole(w)) \in Nat
  BY <1>4 DEF Shorter
<1>6. /\ Shorter(MaxRefreshBackoff, interval * p) \in Nat
      /\ interval >= Pace => Shorter(MaxRefreshBackoff, interval * p) >= Pace
  BY <1>3, PaceIsNatural DEF Shorter
<1>7. BackOffFor(n, w) = Longer(Shorter(MaxRetryAfter, Whole(w)),
                                Shorter(MaxRefreshBackoff, interval * p))
  BY DEF BackOffFor, p
<1> QED BY <1>5, <1>6, <1>7, PaceIsNatural DEF Longer

\* A watcher starts with an interval that is paced.
LEMMA WatcherStarts == WatcherInit => WatcherInv
<1> SUFFICES ASSUME WatcherInit PROVE WatcherInv
  OBVIOUS
<1>1. PICK wanted \in Intervals : interval = Paced(scope, wanted)
  BY DEF WatcherInit
<1>2. Pace \in Nat /\ wanted \in Nat
  BY PaceIsNatural
<1>3. interval \in Nat /\ (scope = "project" => interval >= Pace)
  BY <1>1, <1>2 DEF Paced, Longer, Pace
<1>4. WatcherTypeOK
  BY <1>3 DEF WatcherInit, WatcherTypeOK, Reading
<1>5. Paging /\ Paces /\ Frames
  BY <1>3, <1>2 DEF WatcherInit, Paging, Paces, Frames, Spent
<1> QED BY <1>4, <1>5 DEF WatcherInv

\* The time a read takes.
LEMMA ReadElapses ==
    ASSUME WatcherTypeOK, Reads
    PROVE  clock' \in Nat /\ clock' >= clock /\ reads' = reads + 1
BY DEF WatcherTypeOK, Reads, Elapses

\* A refresh that ends, well or not.
LEMMA RefreshedKeeps ==
    ASSUME WatcherInv, Reads, Refreshed, ~stopped,
           documents' \in Nat, linked' \in Nat, statuses' \in Nat,
           UNCHANGED <<scope, interval, frames>>,
           scope = "project" => Spent < 1 + MaxDocuments + JobLimit /\ Spent \in Nat
    PROVE  WatcherInv'
<1>1. clock' \in Nat /\ clock' >= clock /\ reads' = reads + 1
  BY ReadElapses DEF WatcherInv
<1>2. reading' = "drawn" /\ delay' = interval /\ failures' = 0 /\ stopped' = stopped
  BY DEF Refreshed
<1>3. /\ snapshot' = [captured |-> clock', stale |-> Absent]
      /\ shown' = [good |-> clock', broke |-> Absent]
  BY DEF Refreshed
<1>4. WatcherTypeOK'
  BY <1>1, <1>2, <1>3 DEF WatcherInv, WatcherTypeOK, Reading
<1>5. Paging' /\ Frames'
  BY <1>2, <1>3 DEF Paging, Frames
<1>6. Paces'
  <2> SUFFICES ASSUME scope = "project" PROVE Paces'
    BY DEF Paces
  <2>1. Spent' = 1 + MaxDocuments + JobLimit
    BY <1>2 DEF Spent
  <2>2. reading # "ended"
    BY DEF Spent
  <2>3. 2 * reads <= clock + 2 * Spent
    BY <2>2 DEF WatcherInv, Paces
  <2>4. 2 * reads' <= clock' + 2 * Spent'
    BY <1>1, <2>1, <2>3 DEF WatcherInv, WatcherTypeOK
  <2> QED BY <1>2, <2>4 DEF WatcherInv, Paces
<1> QED BY <1>4, <1>5, <1>6 DEF WatcherInv

\* A read that fails, with a snapshot to keep or without.
LEMMA FailedKeeps ==
    ASSUME WatcherInv, ReadFails
    PROVE  WatcherInv'
<1>1. clock' \in Nat /\ clock' >= clock /\ reads' = reads + 1
  BY ReadElapses DEF ReadFails, WatcherInv
<1>2. PICK final \in BOOLEAN, w \in ServerRetryAfters \union {Absent} : RefreshFails(final, w)
  BY DEF ReadFails
<1>3. /\ reading \in {"team", "listing", "document", "status"}
      /\ UNCHANGED <<scope, interval, frames, paging>>
  BY <1>2 DEF ReadFails, RefreshFails
<1>4. CASE snapshot = Absent /\ reading' = "ended" /\ UNCHANGED <<state, shown>>
  <2>1. WatcherTypeOK'
    BY <1>1, <1>3, <1>4 DEF WatcherInv, WatcherTypeOK, Reading, state, paging
  <2>2. Paging' /\ Paces' /\ Frames'
    BY <1>3, <1>4 DEF WatcherInv, Paging, Paces, Frames, state, paging
  <2> QED BY <2>1, <2>2 DEF WatcherInv
<1>5. CASE snapshot # Absent
  <2>1. /\ reading' = "drawn" /\ failures' = failures + 1 /\ stopped' = final
        /\ delay' = BackOffFor(failures + 1, w)
        /\ snapshot' = [snapshot EXCEPT !.stale =
              [since |-> Since, retry |-> IF final THEN Absent ELSE delay']]
        /\ shown' = IF shown.broke = Absent THEN [shown EXCEPT !.broke = clock'] ELSE shown
    BY <1>2, <1>5 DEF RefreshFails
  <2>2. delay' \in Nat /\ (scope = "project" => delay' >= Pace)
    <3>1. failures + 1 \in Nat /\ interval \in Nat
      BY DEF WatcherInv, WatcherTypeOK
    <3>2. /\ BackOffFor(failures + 1, w) \in Nat
          /\ interval >= Pace => BackOffFor(failures + 1, w) >= Pace
      BY <3>1, BackOffIsLong
    <3> QED BY <2>1, <3>2 DEF WatcherInv, Paces
  <2>3. /\ snapshot \in [captured : Nat, stale : {Absent} \union Stale]
        /\ snapshot.captured \in Nat
        /\ shown \in [good : Nat \union {Absent}, broke : Nat \union {Absent}]
    BY <1>5 DEF WatcherInv, WatcherTypeOK
  <2>4. /\ snapshot.captured = shown.good
        /\ snapshot.stale = Absent <=> shown.broke = Absent
        /\ snapshot.stale # Absent => snapshot.stale.since = shown.broke
    BY <1>5 DEF WatcherInv, Frames
  <2>5. Since \in Nat /\ Since = shown'.broke /\ shown'.good = shown.good
    BY <1>1, <2>1, <2>3, <2>4 DEF Since, Stale
  <2>6. /\ snapshot'.captured = snapshot.captured
        /\ snapshot'.stale = [since |-> Since, retry |-> IF final THEN Absent ELSE delay']
        /\ snapshot'.stale \in Stale
    BY <2>1, <2>2, <2>3, <2>5 DEF Stale
  <2>7. snapshot'.stale # Absent /\ shown'.broke # Absent
    BY <2>5, <2>6 DEF Stale
  <2>8. WatcherTypeOK'
    <3>1. snapshot' \in [captured : Nat, stale : {Absent} \union Stale]
      BY <2>1, <2>3, <2>6
    <3>2. shown' \in [good : Nat \union {Absent}, broke : Nat \union {Absent}]
      BY <1>1, <2>1, <2>3
    <3> QED BY <1>1, <1>3, <2>1, <2>2, <3>1, <3>2 DEF WatcherInv, WatcherTypeOK, Reading, paging
  <2>9. Frames'
    <3>1. snapshot'.stale.since = shown'.broke
      BY <2>5, <2>6
    <3>2. snapshot'.stale.retry = Absent => stopped'
      BY <2>1, <2>2, <2>6
    <3> QED BY <2>1, <2>4, <2>5, <2>6, <2>7, <3>1, <3>2 DEF Frames
  <2>10. Paging'
    BY <2>1 DEF Paging
  <2>11. Paces'
    <3> SUFFICES ASSUME scope = "project" PROVE Paces'
      BY <1>3 DEF Paces
    <3>1. Spent' = 1 + MaxDocuments + JobLimit
      BY <2>1 DEF Spent
    <3>2. Spent \in Nat /\ Spent <= MaxDocuments + JobLimit
      BY <1>3 DEF WatcherInv, WatcherTypeOK, Paging, Paces, Spent
    <3>3. 2 * reads <= clock + 2 * Spent
      BY <1>3 DEF WatcherInv, Paces
    <3>4. 2 * reads' <= clock' + 2 * Spent'
      BY <1>1, <3>1, <3>2, <3>3 DEF WatcherInv, WatcherTypeOK
    <3> QED BY <1>3, <2>1, <2>2, <3>4 DEF WatcherInv, Paces
  <2> QED BY <2>8, <2>9, <2>10, <2>11 DEF WatcherInv
<1> QED BY <1>2, <1>4, <1>5 DEF RefreshFails

\* A number less than another leaves a number.
LEMMA DifferenceIsNatural ==
    ASSUME NEW m \in Nat, NEW n \in Nat, n <= m PROVE m - n \in Nat
OBVIOUS

\* A read after which the refresh goes on.
LEMMA ReadOnKeeps ==
    ASSUME WatcherInv, Reads, ~stopped, reading \notin {"drawn", "ended"},
           UNCHANGED <<scope, interval, frames, state, shown>>,
           documents' \in Nat, linked' \in Nat, statuses' \in Nat,
           reading' \in {"document", "status"}, Paging',
           scope = "project" => Spent \in Nat /\ Spent' \in Nat /\ Spent' >= Spent + 1
    PROVE  WatcherInv'
<1>1. clock' \in Nat /\ clock' >= clock /\ reads' = reads + 1
  BY ReadElapses DEF WatcherInv
<1>2. WatcherTypeOK'
  BY <1>1 DEF WatcherInv, WatcherTypeOK, Reading, state
<1>3. Frames'
  BY DEF WatcherInv, Frames, state
<1>4. Paces'
  <2> SUFFICES ASSUME scope = "project" PROVE Paces'
    BY DEF Paces
  <2>1. 2 * reads <= clock + 2 * Spent
    BY DEF WatcherInv, Paces
  <2>2. 2 * reads' <= clock' + 2 * Spent'
    BY <1>1, <2>1 DEF WatcherInv, WatcherTypeOK
  <2> QED BY <2>2 DEF WatcherInv, Paces, state
<1> QED BY <1>2, <1>3, <1>4 DEF WatcherInv

\* Every step of the watcher keeps the invariant.
LEMMA WatcherKeeps == WatcherInv /\ [WatcherNext]_watcher => WatcherInv'
<1> SUFFICES ASSUME WatcherInv, [WatcherNext]_watcher PROVE WatcherInv'
  OBVIOUS
<1> USE DEF WatcherInv
<1>0. /\ MaxDocuments \in Nat /\ MaxDocuments > 0 /\ JobLimit \in Nat /\ JobLimit > 0
      /\ documents \in Nat /\ linked \in Nat /\ statuses \in Nat
  BY DEF WatcherTypeOK
<1>1. CASE BeginRefresh
  <2>1. WatcherTypeOK'
    BY <1>1 DEF BeginRefresh, WatcherTypeOK, Reading, state, paging
  <2>2. Paging' /\ Frames'
    BY <1>1 DEF BeginRefresh, Paging, Frames, state, paging
  <2>3. Paces'
    BY <1>1 DEF BeginRefresh, Paces, Spent, state, paging, WatcherTypeOK
  <2> QED BY <2>1, <2>2, <2>3
<1>2. CASE ReadTeam
  <2>1. /\ reading = "team" /\ Reads /\ Refreshed
        /\ UNCHANGED <<scope, interval, frames, paging>> /\ ~stopped
    BY <1>2 DEF ReadTeam, Frames
  <2>2. documents' \in Nat /\ linked' \in Nat /\ statuses' \in Nat /\ scope # "project"
    BY <2>1 DEF WatcherTypeOK, paging, Paces
  <2> QED BY <2>1, <2>2, RefreshedKeeps
<1>3. CASE ReadListing
  <2>1. /\ reading = "listing" /\ Reads /\ ~stopped
        /\ UNCHANGED <<scope, interval, linked, statuses, frames>> /\ Onward
    BY <1>3 DEF ReadListing, Frames
  <2>2. /\ documents' \in Nat /\ documents' <= MaxDocuments /\ linked' = 0 /\ statuses' = 0
    BY <1>3 DEF ReadListing, Considered, Shorter, Paging
  <2>3. Spent = 0
    BY <2>1 DEF Spent
  <2>4. CASE Refreshed
    BY <2>1, <2>2, <2>3, <2>4, RefreshedKeeps
  <2>5. CASE ~Refreshed
    <3>1. /\ reading' = "document" /\ documents' > 0 /\ UNCHANGED <<state, shown>>
      BY <2>1, <2>2, <2>5 DEF Onward
    <3>2. Spent' = 1 + MaxDocuments - documents' /\ Paging'
      BY <2>2, <3>1 DEF Spent, Paging
    <3>3. Spent' \in Nat /\ Spent' >= Spent + 1
      <4>1. MaxDocuments - documents' \in Nat
        BY <1>0, <2>2, DifferenceIsNatural
      <4> QED BY <2>3, <3>2, <4>1
    <3>4. UNCHANGED <<scope, interval, frames, state, shown>> /\ reading \notin {"drawn", "ended"}
      BY <2>1, <3>1
    <3>5. documents' \in Nat /\ linked' \in Nat /\ statuses' \in Nat
      BY <2>2
    <3> QED BY <2>1, <2>3, <3>1, <3>2, <3>3, <3>4, <3>5, ReadOnKeeps
  <2> QED BY <2>4, <2>5
<1>4. CASE ReadDocument
  <2>1. /\ reading = "document" /\ Reads /\ ~stopped
        /\ UNCHANGED <<scope, interval, statuses, frames>> /\ Onward
    BY <1>4 DEF ReadDocument, Frames
  <2>2. /\ documents' = documents - 1 /\ documents' \in Nat /\ documents <= MaxDocuments
        /\ linked' \in Nat /\ statuses' = 0 /\ statuses' \in Nat
    BY <1>4 DEF ReadDocument, Paging, WatcherTypeOK
  <2>3. Spent = 1 + MaxDocuments - documents /\ Spent \in Nat /\ Spent <= MaxDocuments
    BY <2>1, <2>2 DEF Spent, Paging, WatcherTypeOK
  <2>4. CASE Refreshed
    BY <2>1, <2>2, <2>3, <2>4, RefreshedKeeps
  <2>5. CASE reading' = "document" /\ documents' > 0 /\ UNCHANGED <<state, shown>>
    <3>1. Paging'
      BY <1>0, <2>2, <2>5 DEF Paging
    <3>2. Spent' = 1 + MaxDocuments - documents'
      BY <2>5 DEF Spent
    <3>3. Spent' \in Nat /\ Spent' >= Spent + 1
      BY <1>0, <2>2, <2>3, <2>5, <3>2
    <3>4. UNCHANGED <<scope, interval, frames, state, shown>> /\ reading \notin {"drawn", "ended"}
      BY <2>1, <2>5
    <3> QED BY <2>1, <2>2, <2>3, <2>5, <3>1, <3>3, <3>4, ReadOnKeeps
  <2>6. CASE reading' = "status" /\ linked' > 0 /\ UNCHANGED <<state, shown>>
    <3>1. Spent' = 1 + MaxDocuments + statuses' /\ Paging'
      BY <2>2, <2>6 DEF Spent, Paging
    <3>2. Spent' \in Nat /\ Spent' >= Spent + 1
      BY <2>2, <2>3, <3>1
    <3>3. UNCHANGED <<scope, interval, frames, state, shown>> /\ reading \notin {"drawn", "ended"}
      BY <2>1, <2>6
    <3> QED BY <2>1, <2>2, <2>3, <2>6, <3>1, <3>2, <3>3, ReadOnKeeps
  <2> QED BY <2>1, <2>4, <2>5, <2>6 DEF Onward
<1>5. CASE ReadStatus
  <2>1. /\ reading = "status" /\ Reads /\ ~stopped /\ statuses' = statuses + 1
        /\ UNCHANGED <<scope, interval, documents, linked, frames>>
        /\ IF statuses' < Wanted THEN UNCHANGED <<reading, state, shown>> ELSE Refreshed
    BY <1>5 DEF ReadStatus, Frames
  <2>2. documents' \in Nat /\ linked' \in Nat /\ statuses' \in Nat
    BY <2>1 DEF WatcherTypeOK
  <2>3. Spent = 1 + MaxDocuments + statuses /\ Spent \in Nat /\ Spent < 1 + MaxDocuments + JobLimit
    BY <2>1 DEF Spent, Paging, WatcherTypeOK
  <2>4. CASE statuses' < Wanted
    <3>1. statuses' < JobLimit /\ statuses' < linked'
      BY <2>1, <2>2, <2>4 DEF Wanted, Shorter, WatcherTypeOK
    <3>2. Spent' = 1 + MaxDocuments + statuses' /\ Paging'
      BY <2>1, <2>4, <3>1 DEF Spent, Paging
    <3>3. Spent' \in Nat /\ Spent' >= Spent + 1
      BY <1>0, <2>1, <2>3, <3>2
    <3>4. UNCHANGED <<scope, interval, frames, state, shown>> /\ reading \notin {"drawn", "ended"}
      BY <2>1, <2>4
    <3>5. reading' \in {"document", "status"}
      BY <2>1, <2>4
    <3> QED BY <2>1, <2>2, <2>3, <3>2, <3>3, <3>4, <3>5, ReadOnKeeps
  <2>5. CASE ~(statuses' < Wanted)
    BY <2>1, <2>2, <2>3, <2>5, RefreshedKeeps
  <2> QED BY <2>4, <2>5
<1>6. CASE ReadFails
  BY <1>6, FailedKeeps
<1>7. CASE NextFrame
  <2>1. CASE reading' = "ended" /\ clock' = clock
    <3>1. WatcherTypeOK'
      BY <1>7, <2>1 DEF NextFrame, WatcherTypeOK, Reading, state
    <3>2. Paging' /\ Frames' /\ Paces'
      BY <1>7, <2>1 DEF NextFrame, Paging, Frames, Paces, state
    <3> QED BY <3>1, <3>2
  <2>2. CASE reading' = "refresh" /\ clock' = clock + delay /\ ~stopped
    <3>1. WatcherTypeOK'
      BY <1>7, <2>2 DEF NextFrame, WatcherTypeOK, Reading, state
    <3>2. Paging' /\ Frames'
      BY <1>7, <2>2 DEF NextFrame, Paging, Frames, state
    <3>3. Paces'
      <4> SUFFICES ASSUME scope = "project" PROVE Paces'
        BY <1>7 DEF NextFrame, Paces
      <4>1. Spent = 1 + MaxDocuments + JobLimit /\ Spent' = 0
        BY <1>7, <2>2 DEF NextFrame, Spent
      <4>2. 2 * reads <= clock + Pace /\ delay >= Pace
        BY <1>7, <4>1 DEF NextFrame, Paces, Pace, WatcherTypeOK
      <4>3. 2 * reads' <= clock' + 2 * Spent'
        BY <1>7, <2>2, <4>1, <4>2, PaceIsNatural DEF NextFrame, WatcherTypeOK
      <4> QED BY <1>7, <2>2, <4>3 DEF NextFrame, Paces, state
    <3> QED BY <3>1, <3>2, <3>3
  <2> QED BY <1>7, <2>1, <2>2 DEF NextFrame, Stops
<1>8. CASE Interrupt
  <2>1. WatcherTypeOK'
    BY <1>8 DEF Interrupt, WatcherTypeOK, Reading, state, paging
  <2>2. Paging' /\ Frames' /\ Paces'
    BY <1>8 DEF Interrupt, Paging, Frames, Paces, state, paging
  <2> QED BY <2>1, <2>2
<1>9. CASE UNCHANGED watcher
  BY <1>9 DEF watcher, state, paging, WatcherTypeOK, Paging, Frames, Paces, Spent
<1> QED
  BY <1>1, <1>2, <1>3, <1>4, <1>5, <1>6, <1>7, <1>8, <1>9 DEF WatcherNext, Watching

\* The invariant of the watcher.
LEMMA WatcherInvariance == WatcherSpec => []WatcherInv
BY WatcherStarts, WatcherKeeps, PTL DEF WatcherSpec

\* A project view about to refresh has made no more than one read every two
\* seconds, for every listing, every pattern of failures and every interval.
THEOREM PaceIsKept == WatcherSpec => []PaceKept
<1>1. WatcherInv => PaceKept
  BY DEF WatcherInv, WatcherTypeOK, Paces, Spent, PaceKept
<1> QED BY <1>1, WatcherInvariance, PTL

\* A frame says when its data was captured, since when refreshes have failed,
\* and whether another will follow, after any run of failures and recoveries.
THEOREM FramesAreHonest == WatcherSpec => []FrameHonest
<1>1. WatcherInv => FrameHonest
  BY DEF WatcherInv, Frames, FrameHonest
<1> QED BY <1>1, WatcherInvariance, PTL

---------------------------------------------------------------------------
(* Both, in one process.                                                   *)

\* A process that waits for a result, or watches a listing, steps as that
\* reader alone: what is proved of one is so of both.
THEOREM ReadersAlone == ReadersSpec => Spec /\ WatcherSpec
<1>1. ReadersInit => Init /\ WatcherInit
  BY DEF ReadersInit
<1>2. [ReadersNext]_readers => [Next]_vars /\ [WatcherNext]_watcher
  BY DEF ReadersNext, InResult, InWatch, Rest, readers, Next
<1> QED
  BY <1>1, <1>2, PTL DEF ReadersSpec, Spec, WatcherSpec
=============================================================================

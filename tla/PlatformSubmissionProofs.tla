---------------------- MODULE PlatformSubmissionProofs ----------------------
(***************************************************************************)
(* PlatformSubmission keeps its types, replays nothing ambiguous, tells    *)
(* every key that may have been used, and implements Admission, for any    *)
(* number of operations and calls.                                         *)
(*                                                                         *)
(* The invariant says why: all requests of an operation carry one key, the *)
(* one the user would pass next; and of the call under way every request   *)
(* before the last attempt was answered.                                   *)
(***************************************************************************)
EXTENDS PlatformSubmission, TLAPS

USE DurationsAssumption, RetryAfterAssumption, NoneAssumption, MaxCallsAssumption,
    NoOperationAssumption, NoKeyAssumption

Of(r) == r.message.key[1]

\* The one key under which an operation has been and will be submitted.
KeyOf(o) == IF chosen[o] = None THEN <<o, calls[o]>> ELSE chosen[o]

UserInv ==
    /\ current = None <=> phase = "idle"
    /\ current # None => calls[current] >= 1 /\ verdict[current].how = "open"
    /\ \A o \in Operation :
          /\ kind[o] = "none" => calls[o] = 0 /\ verdict[o].how = "open" /\ chosen[o] = None
          /\ kind[o] = "submit" => chosen[o] = None
          /\ chosen[o] # None => chosen[o][1] = o
          /\ verdict[o].how = "error" => verdict[o].key \in {None, KeyOf(o)}
          /\ verdict[o].how = "job" => verdict[o].job \in admitted /\ verdict[o].job[1] = o
          /\ verdict[o].how # "open" => current # o

CallInv ==
    current # None =>
        /\ call.deadline = None
        /\ call.write \in BOOLEAN
        /\ call.write => call.idem = TRUE /\ call.key = KeyOf(current)

\* What stands in "sent" of the call under way.
RoundInv(r) ==
    current # None /\ Of(r) = current /\ r.message.call = calls[current] =>
        /\ call.write
        /\ r.message.attempt <= attempt
        /\ r.message.attempt < attempt => r.seen = "answered"
        /\ r.message.attempt = attempt =>
              phase # "sending" /\ (phase = "failed" => r.seen = "answered")

SentInv ==
    \A r \in sent :
        /\ Of(r) \in Operation
        /\ r.message = [key |-> r.message.key, call |-> r.message.call,
                        attempt |-> r.message.attempt]
        /\ r.message.key = KeyOf(Of(r))
        /\ r.message.call \in 1..calls[Of(r)]
        /\ chosen[Of(r)] = None => r.message.call = calls[Of(r)]
        /\ r.message.attempt \in Nat
        /\ RoundInv(r)

\* An error without a key, where no other key is known, means nothing was sent.
NothingInv ==
    \A o \in Operation :
        kind[o] # "submit" /\ verdict[o].how = "error" /\ verdict[o].key = None
            /\ chosen[o] = None => \A r \in sent : Of(r) # o

AdmittedInv ==
    /\ \A k \in admitted : \E r \in sent : r.message.key = k
    /\ Posting /\ phase = "over" /\ answer.kind = "body" => call.key \in admitted

Inv ==
    /\ TypeOK /\ UserInv /\ CallInv /\ SentInv /\ NothingInv /\ AdmittedInv
    /\ AmbiguousNotReplayed /\ KeyTold

---------------------------------------------------------------------------
(* The loop of the transport.                                              *)

\* A honoured Retry-After is a number of ticks.
LEMMA HonouredIsTicks ==
    ASSUME NEW w \in RetryAfters \cup {None}
    PROVE  Honoured(w) \in Nat \cup {None}
BY DEF Honoured, Second

\* An attempt that ends leaves a well-formed loop.
LEMMA AttemptTypes ==
    ASSUME TransportTypeOK, phase \in {"sending", "waiting"}, call.deadline = None, Attempted,
           \/ \E a : Answer(a)
           \/ \E what \in {"exception"} \cup RetryableStatuses :
                 \E sleep \in Nat \cup {None} : Again(what, sleep)
    PROVE  /\ TransportTypeOK'
           /\ UNCHANGED <<call, attempt>>
           /\ phase' \in {"over", "failed"}
<1>1. now' = now /\ UNCHANGED <<call, attempt, limit>>
  BY DEF Attempted, AttemptTakes, Elapse, Timed
<1>2. CASE \E a : Answer(a)
  BY <1>1, <1>2 DEF Answer, TransportTypeOK, Phases
<1>3. CASE \E what \in {"exception"} \cup RetryableStatuses :
              \E sleep \in Nat \cup {None} : Again(what, sleep)
  <2>1. /\ phase' = "failed"
        /\ last' \in {"exception"} \cup RetryableStatuses
        /\ nextSleep' \in Nat \cup {None}
        /\ answer' = answer
    BY <1>3 DEF Again
  <2>2. last' # "none"
    BY <2>1 DEF RetryableStatuses
  <2> QED
    BY <1>1, <2>1, <2>2 DEF TransportTypeOK, Phases
<1> QED
  BY <1>2, <1>3

LEMMA TransientStatusTypes ==
    ASSUME TransportTypeOK, call.deadline = None,
           NEW status \in RetryableStatuses, TransientStatus(status)
    PROVE  /\ TransportTypeOK'
           /\ UNCHANGED <<call, attempt>>
           /\ phase = "waiting"
           /\ phase' \in {"over", "failed"}
           /\ phase' = "over" => answer'.kind = "status"
<1>1. phase = "waiting" /\ Attempted
  BY DEF TransientStatus
<1>2. CASE Answer(Raised(status))
  <2>1. answer'.kind = "status"
    BY <1>2 DEF Answer, Raised
  <2> QED
    BY <1>1, <1>2, <2>1, AttemptTypes
<1>3. CASE \E w \in RetryAfters \cup {None} : Again(status, Honoured(w))
  <2>1. phase' = "failed"
    BY <1>3 DEF Again
  <2> QED
    BY <1>1, <1>3, <2>1, HonouredIsTicks, AttemptTypes
<1>4. CASE Again(status, None)
  <2>1. phase' = "failed"
    BY <1>4 DEF Again
  <2> QED
    BY <1>1, <1>4, <2>1, AttemptTypes
<1> QED
  BY <1>2, <1>3, <1>4 DEF TransientStatus

\* The loop goes on with the next attempt, or ends without a body.
LEMMA RetryTypes ==
    ASSUME TransportTypeOK, call.deadline = None, Retry
    PROVE  /\ TransportTypeOK'
           /\ UNCHANGED call
           /\ phase = "failed"
           /\ \/ phase' = "over" /\ attempt' = attempt /\ answer'.kind # "body"
              \/ phase' = "sending" /\ attempt' = attempt + 1
<1>1. phase = "failed" /\ call' = call /\ now' = now /\ ~Timed
  BY DEF Retry, Elapse, Timed
<1>2. /\ attempt \in 0..2 /\ limit \in Nat /\ call.timeout \in Nat
  BY <1>1 DEF TransportTypeOK, MaxRetries
<1>3. CASE GiveUp
  <2>1. answer'.kind # "body"
    BY <1>3 DEF GiveUp, Answer, Raised
  <2> QED
    BY <1>1, <1>2, <1>3, <2>1 DEF GiveUp, Answer, TransportTypeOK, Phases
<1>4. CASE /\ ~LastAttempt
           /\ attempt' = Count
           /\ limit' = NextLimit(now')
           /\ nextSleep' = None
           /\ phase' = "sending"
           /\ UNCHANGED <<last, answer>>
  <2>1. limit' \in Nat
    BY <1>1, <1>2, <1>4 DEF NextLimit
  <2>2. attempt' = attempt + 1 /\ attempt' \in 0..2
    BY <1>2, <1>4 DEF LastAttempt, Count, MaxRetries
  <2> QED
    BY <1>1, <1>2, <1>4, <2>1, <2>2 DEF TransportTypeOK, Phases, MaxRetries
<1> QED
  BY <1>3, <1>4 DEF Retry

LEMMA BeginTypes ==
    ASSUME TransportTypeOK, NEW c, Begin(c), c.timeout \in Nat, c.deadline \in Nat \cup {None}
    PROVE  /\ TransportTypeOK'
           /\ call' = c
           /\ phase' = "sending"
           /\ attempt' = 0
BY DEF Begin, TransportTypeOK, Phases, MaxRetries

LEMMA ClearTypes ==
    ASSUME TransportTypeOK, Clear
    PROVE  TransportTypeOK' /\ phase' = "idle"
BY DEF Clear, Drop, TransportTypeOK, Phases, MaxRetries

---------------------------------------------------------------------------
(* The steps of a post.                                                    *)

\* What is known while a request is being posted.
LEMMA PostingFacts ==
    ASSUME Inv, Posting
    PROVE  /\ current \in Operation /\ call.key = KeyOf(current) /\ call.key[1] = current
           /\ call.key \in Key
           /\ call.idem = TRUE /\ call.deadline = None
           /\ calls[current] \in 1..MaxCalls /\ verdict[current].how = "open"
<1>1. /\ current \in Operation /\ call.key = KeyOf(current)
      /\ call.idem = TRUE /\ call.deadline = None
  BY DEF Posting, Inv, CallInv, TypeOK
<1>2. /\ calls[current] \in 1..MaxCalls /\ verdict[current].how = "open"
      /\ chosen[current] \in Key \cup {None}
      /\ chosen[current] # None => chosen[current][1] = current
  BY <1>1 DEF Posting, Inv, UserInv, TypeOK
<1>3. call.key \in Key /\ call.key[1] = current
  BY <1>1, <1>2 DEF KeyOf, Key
<1> QED
  BY <1>1, <1>2, <1>3

\* A request is recorded as sent, lost or answered: the attempt goes on only
\* if it was answered, and a body comes only from an admitted key.
LEMMA MarkKeeps ==
    ASSUME Inv, Posting, NEW seen \in Seen, Mark(Message, seen),
           UNCHANGED <<user, admitted, call, attempt>>, TransportTypeOK',
           phase' \in {"waiting", "failed", "over"},
           phase' = "failed" => seen = "answered",
           phase' = "over" /\ answer'.kind = "body" => call.key \in admitted
    PROVE  Inv'
<1> DEFINE new == [message |-> Message, seen |-> seen]
<1>0. attempt \in Nat
  BY DEF Inv, TypeOK, TransportTypeOK, MaxRetries
<1>1. /\ current \in Operation /\ call.key = KeyOf(current) /\ call.key[1] = current
      /\ call.key \in Key /\ calls[current] \in 1..MaxCalls /\ verdict[current].how = "open"
  BY PostingFacts
<1>2. /\ new.message.key = call.key /\ new.message.call = calls[current]
      /\ new.message.attempt = attempt /\ new.seen = seen
      /\ new.message = Message
      /\ Message = [key |-> call.key, call |-> calls[current], attempt |-> attempt]
  BY DEF Message, Header
<1>3. sent' = {r \in sent : r.message # Message} \cup {new}
  BY DEF Mark
<1> HIDE DEF new
<1>4. UNCHANGED <<current, kind, chosen, calls, verdict, admitted, call, attempt>>
  BY DEF user
<1>5. \A r \in sent' : (r \in sent /\ r.message # Message) \/ r = new
  BY <1>3
<1>6. TypeOK'
  BY <1>1, <1>2, <1>4, <1>5 DEF Inv, TypeOK
<1>7. UserInv' /\ CallInv'
  <2>1. phase # "idle" /\ phase' # "idle"
    BY DEF Inv, UserInv, Posting
  <2> QED
    BY <1>4, <2>1 DEF Inv, UserInv, CallInv, KeyOf
<1>8. SentInv'
  <2> SUFFICES ASSUME NEW r \in sent'
               PROVE  /\ Of(r) \in Operation
                      /\ r.message = [key |-> r.message.key, call |-> r.message.call,
                                      attempt |-> r.message.attempt]
                      /\ r.message.key = KeyOf(Of(r))
                      /\ r.message.call \in 1..calls[Of(r)]
                      /\ chosen[Of(r)] = None => r.message.call = calls[Of(r)]
                      /\ r.message.attempt \in Nat
                      /\ RoundInv(r)'
    BY <1>4 DEF SentInv, KeyOf, Of
  <2>1. CASE r \in sent /\ r.message # Message
    <3>1. /\ Of(r) \in Operation
          /\ r.message = [key |-> r.message.key, call |-> r.message.call,
                          attempt |-> r.message.attempt]
          /\ r.message.key = KeyOf(Of(r))
          /\ r.message.call \in 1..calls[Of(r)]
          /\ chosen[Of(r)] = None => r.message.call = calls[Of(r)]
          /\ r.message.attempt \in Nat
          /\ RoundInv(r)
      BY <2>1 DEF Inv, SentInv
    <3>2. ASSUME Of(r) = current, r.message.call = calls[current]
          PROVE  r.message.attempt # attempt
      <4>1. r.message.key = call.key
        BY <1>1, <3>1, <3>2
      <4> QED
        BY <1>2, <2>1, <3>1, <3>2, <4>1
    <3>3. RoundInv(r)'
      BY <1>4, <3>1, <3>2 DEF RoundInv, Of
    <3> QED
      BY <3>1, <3>3
  <2>2. CASE r = new
    <3>1. Of(r) = current /\ phase' # "sending"
      BY <1>1, <1>2, <2>2 DEF Of
    <3> QED
      BY <1>1, <1>0, <1>2, <1>4, <2>2, <3>1 DEF RoundInv, Of, Posting
  <2> QED
    BY <1>5, <2>1, <2>2
<1>9. NothingInv' /\ KeyTold'
  <2>1. \A o \in Operation : verdict[o].how = "error" => Of(new) # o
    BY <1>1, <1>2 DEF Of
  <2> QED
    BY <1>4, <1>5, <2>1 DEF Inv, NothingInv, KeyTold, Of
<1>10. AdmittedInv'
  <2>1. \A r \in sent : \E q \in sent' : q.message.key = r.message.key
    BY <1>2, <1>3
  <2> QED
    BY <1>4, <2>1 DEF Inv, AdmittedInv, Posting
<1>11. AmbiguousNotReplayed'
  <2> SUFFICES ASSUME NEW r \in sent', NEW q \in sent',
                      Of(r) = Of(q), r.message.call = q.message.call,
                      r.message.attempt < q.message.attempt
               PROVE  r.seen = "answered"
    BY DEF AmbiguousNotReplayed, Of
  <2>1. CASE r \in sent /\ q \in sent
    BY <2>1 DEF Inv, AmbiguousNotReplayed, Of
  <2>2. CASE q = new
    <3>1. r \in sent /\ Of(r) = current /\ r.message.call = calls[current]
          /\ r.message.attempt < attempt
      BY <1>1, <1>0, <1>2, <1>5, <2>2 DEF Of
    <3> QED
      BY <3>1 DEF Inv, SentInv, RoundInv, Posting
  <2>3. CASE r = new /\ q \in sent
    <3>1. Of(q) = current /\ q.message.call = calls[current] /\ attempt < q.message.attempt
      BY <1>1, <1>2, <2>3 DEF Of
    <3>2. q.message.attempt <= attempt /\ q.message.attempt \in Nat
      BY <2>3, <3>1 DEF Inv, SentInv, RoundInv, Posting
    <3> QED
      BY <1>0, <3>1, <3>2
  <2> QED
    BY <1>5, <2>1, <2>2, <2>3
<1> QED
  BY <1>6, <1>7, <1>8, <1>9, <1>10, <1>11 DEF Inv

\* A step of the loop that sends nothing.
LEMMA QuietKeeps ==
    ASSUME Inv, current # None, UNCHANGED <<user, service, call, attempt>>, TransportTypeOK',
           phase' # "idle",
           Posting => phase = "sending" /\ phase' = "failed"
    PROVE  Inv'
<1>1. UNCHANGED <<current, kind, chosen, calls, verdict, admitted, sent, call, attempt>>
  BY DEF user, service
<1>2. TypeOK' /\ UserInv' /\ CallInv' /\ NothingInv' /\ KeyTold' /\ AmbiguousNotReplayed'
  BY <1>1 DEF Inv, TypeOK, UserInv, CallInv, NothingInv, KeyTold, AmbiguousNotReplayed, KeyOf, Of
<1>3. \A r \in sent : RoundInv(r) => RoundInv(r)'
  BY <1>1 DEF RoundInv, Of, Posting
<1>4. SentInv'
  BY <1>1, <1>3 DEF Inv, SentInv, KeyOf, Of
<1>5. AdmittedInv'
  BY <1>1 DEF Inv, AdmittedInv, Posting
<1> QED
  BY <1>2, <1>4, <1>5 DEF Inv

LEMMA PostStepKeeps ==
    ASSUME Inv, PostStep
    PROVE  Inv'
<1>1. Posting
  BY DEF PostStep, SendPost, PostConnectFails, PostCut, PostUnreadable, PostTransient,
         PostRefused, PostAdmitted
<1>2. call.idem = TRUE /\ call.deadline = None /\ TransportTypeOK /\ current # None
  BY <1>1, PostingFacts DEF Inv, TypeOK, Posting
<1>3. CASE SendPost
  <2>1. /\ TransportTypeOK' /\ phase' = "waiting"
        /\ UNCHANGED <<user, admitted, call, attempt>>
        /\ Mark(Message, "nothing")
    BY <1>2, <1>3 DEF SendPost, Transmit, TransportTypeOK, Phases
  <2> QED
    BY <1>1, <2>1, MarkKeeps DEF Seen
<1>4. CASE PostConnectFails
  <2>1. /\ phase = "sending" /\ phase' = "failed" /\ Attempted
        /\ Again("exception", None)
        /\ UNCHANGED <<user, service>>
    BY <1>4 DEF PostConnectFails, ConnectFails, Again
  <2>2. TransportTypeOK' /\ UNCHANGED <<call, attempt>>
    BY <1>2, <2>1, AttemptTypes
  <2> QED
    BY <1>2, <2>1, <2>2, QuietKeeps
<1>5. CASE PostCut
  <2>1. /\ phase = "waiting" /\ Attempted
        /\ Answer([kind |-> "ambiguous", keyed |-> TRUE])
        /\ Mark(Message, "lost")
        /\ UNCHANGED <<user, admitted>>
    BY <1>2, <1>5 DEF PostCut, Cut, MayReplay
  <2>2. phase' = "over" /\ answer'.kind # "body"
    BY <2>1 DEF Answer
  <2>3. TransportTypeOK' /\ UNCHANGED <<call, attempt>>
    BY <1>2, <2>1, AttemptTypes
  <2> QED
    BY <1>1, <2>1, <2>2, <2>3, MarkKeeps DEF Seen
<1>6. CASE PostUnreadable
  <2>1. /\ phase = "waiting" /\ Attempted
        /\ Answer([kind |-> "unreadable", keyed |-> call.write])
        /\ Mark(Message, "answered")
        /\ UNCHANGED <<user, admitted>>
    BY <1>6 DEF PostUnreadable, Unreadable
  <2>2. phase' = "over" /\ answer'.kind # "body"
    BY <2>1 DEF Answer
  <2>3. TransportTypeOK' /\ UNCHANGED <<call, attempt>>
    BY <1>2, <2>1, AttemptTypes
  <2> QED
    BY <1>1, <2>1, <2>2, <2>3, MarkKeeps DEF Seen
<1>7. CASE PostTransient
  <2>1. PICK status \in RetryableStatuses : TransientStatus(status)
    BY <1>7 DEF PostTransient
  <2>2. Mark(Message, "answered") /\ UNCHANGED <<user, admitted>>
    BY <1>7 DEF PostTransient
  <2>3. /\ TransportTypeOK' /\ UNCHANGED <<call, attempt>>
        /\ phase' \in {"over", "failed"}
        /\ phase' = "over" => answer'.kind = "status"
    BY <1>2, <2>1, TransientStatusTypes
  <2> QED
    BY <1>1, <2>2, <2>3, MarkKeeps DEF Seen
<1>8. CASE PostRefused
  <2>1. PICK status \in FinalStatuses : RefusedStatus(status)
    BY <1>8 DEF PostRefused
  <2>2. Mark(Message, "answered") /\ UNCHANGED <<user, admitted>>
    BY <1>8 DEF PostRefused
  <2>3. phase = "waiting" /\ Attempted /\ Answer(Raised(status))
    BY <2>1 DEF RefusedStatus
  <2>4. phase' = "over" /\ answer'.kind # "body"
    BY <2>3 DEF Answer, Raised
  <2>5. TransportTypeOK' /\ UNCHANGED <<call, attempt>>
    BY <1>2, <2>3, AttemptTypes
  <2> QED
    BY <1>1, <2>2, <2>4, <2>5, MarkKeeps DEF Seen
<1>9. CASE PostAdmitted
  <2>1. PICK body \in {"receipt", "otherReceipt", "malformed"} : Arrives(body)
    BY <1>9 DEF PostAdmitted
  <2>2. Mark(Message, "answered") /\ UNCHANGED <<user, admitted>> /\ Message.key \in admitted
    BY <1>9 DEF PostAdmitted
  <2>3. phase = "waiting" /\ Attempted /\ \E a : Answer(a)
    BY <2>1 DEF Arrives
  <2>4. phase' = "over"
    BY <2>3 DEF Answer
  <2>5. TransportTypeOK' /\ UNCHANGED <<call, attempt>>
    BY <1>2, <2>3, AttemptTypes
  <2>6. call.key \in admitted
    BY <2>2 DEF Message, Header
  <2> QED
    BY <1>1, <2>2, <2>4, <2>5, <2>6, MarkKeeps DEF Seen
<1> QED
  BY <1>3, <1>4, <1>5, <1>6, <1>7, <1>8, <1>9 DEF PostStep

---------------------------------------------------------------------------
(* The other steps of the client.                                          *)

LEMMA ReadAttemptKeeps ==
    ASSUME Inv, ReadAttempt
    PROVE  Inv'
<1>1. /\ current # None /\ ~Posting /\ call.deadline = None /\ TransportTypeOK
      /\ UNCHANGED <<user, service>>
  BY DEF ReadAttempt, Reading, Posting, Inv, CallInv, TypeOK
<1>2. CASE Transmit
  <2>1. TransportTypeOK' /\ UNCHANGED <<call, attempt>> /\ phase' # "idle"
    BY <1>1, <1>2 DEF Transmit, TransportTypeOK, Phases
  <2> QED
    BY <1>1, <2>1, QuietKeeps
<1>3. CASE \/ ConnectFails \/ Cut \/ Unreadable
           \/ \E status \in FinalStatuses : RefusedStatus(status)
           \/ \E body \in {"enabled", "notEnabled"} : Arrives(body)
  <2>1. /\ phase \in {"sending", "waiting"} /\ Attempted
        /\ \/ \E a : Answer(a)
           \/ \E what \in {"exception"} \cup RetryableStatuses :
                 \E sleep \in Nat \cup {None} : Again(what, sleep)
    BY <1>3 DEF ConnectFails, Cut, Unreadable, RefusedStatus, Arrives
  <2>2. TransportTypeOK' /\ UNCHANGED <<call, attempt>> /\ phase' \in {"over", "failed"}
    BY <1>1, <2>1, AttemptTypes
  <2> QED
    BY <1>1, <2>2, QuietKeeps
<1>4. CASE \E status \in RetryableStatuses : TransientStatus(status)
  <2>1. TransportTypeOK' /\ UNCHANGED <<call, attempt>> /\ phase' \in {"over", "failed"}
    BY <1>1, <1>4, TransientStatusTypes
  <2> QED
    BY <1>1, <2>1, QuietKeeps
<1> QED
  BY <1>2, <1>3, <1>4 DEF ReadAttempt

LEMMA NextAttemptKeeps ==
    ASSUME Inv, NextAttempt
    PROVE  Inv'
<1>1. /\ current # None /\ call.deadline = None /\ TransportTypeOK
      /\ UNCHANGED <<current, kind, chosen, calls, verdict, admitted, sent>>
  BY DEF NextAttempt, Inv, CallInv, TypeOK, user, service
<1>2. /\ TransportTypeOK'
      /\ UNCHANGED call
      /\ phase = "failed"
      /\ \/ phase' = "over" /\ attempt' = attempt /\ answer'.kind # "body"
         \/ phase' = "sending" /\ attempt' = attempt + 1
  BY <1>1, RetryTypes DEF NextAttempt
<1>3. attempt \in Nat
  BY <1>1 DEF TransportTypeOK, MaxRetries
<1>4. TypeOK' /\ UserInv' /\ CallInv' /\ NothingInv' /\ KeyTold' /\ AmbiguousNotReplayed'
  BY <1>1, <1>2
  DEF Inv, TypeOK, UserInv, CallInv, NothingInv, KeyTold, AmbiguousNotReplayed, KeyOf, Of
<1>5. \A r \in sent : r.message.attempt \in Nat /\ RoundInv(r) => RoundInv(r)'
  BY <1>1, <1>2, <1>3 DEF RoundInv, Of
<1>6. SentInv'
  BY <1>1, <1>5 DEF Inv, SentInv, KeyOf, Of
<1>7. AdmittedInv'
  BY <1>1, <1>2 DEF Inv, AdmittedInv, Posting
<1> QED
  BY <1>4, <1>6, <1>7 DEF Inv

LEMMA DiscoveredKeeps ==
    ASSUME Inv, Discovered
    PROVE  Inv'
<1> DEFINE c == IdempotentWrite(PostKey(current), WriteTimeout)
<1>1. /\ current # None /\ ~call.write /\ phase = "over" /\ Begin(c) /\ TransportTypeOK
      /\ UNCHANGED <<current, kind, chosen, calls, verdict, admitted, sent>>
  BY DEF Discovered, Reading, Inv, TypeOK, service
<1>2. /\ c.write = TRUE /\ c.idem = TRUE /\ c.deadline = None /\ c.timeout \in Nat
      /\ c.key = KeyOf(current)
  BY <1>1 DEF IdempotentWrite, WriteTimeout, PostKey, KeyOf
<1> HIDE DEF c
<1>3. TransportTypeOK' /\ call' = c /\ phase' = "sending"
  BY <1>1, <1>2, BeginTypes
<1>4. TypeOK' /\ UserInv' /\ CallInv' /\ NothingInv' /\ KeyTold' /\ AmbiguousNotReplayed'
  BY <1>1, <1>2, <1>3
  DEF Inv, TypeOK, UserInv, CallInv, NothingInv, KeyTold, AmbiguousNotReplayed, KeyOf, Of
<1>5. \A r \in sent : RoundInv(r) => RoundInv(r)'
  BY <1>1, <1>2, <1>3 DEF RoundInv, Of
<1>6. SentInv'
  BY <1>1, <1>5 DEF Inv, SentInv, KeyOf, Of
<1>7. AdmittedInv'
  BY <1>1, <1>3 DEF Inv, AdmittedInv
<1> QED
  BY <1>4, <1>6, <1>7 DEF Inv

\* A call ends with an honest verdict.
LEMMA TellKeeps ==
    ASSUME Inv, current # None, NEW v, Tell(v), Clear, UNCHANGED service,
           v.how \in {"crashed", "error", "job"},
           v.how = "error" => v.key \in {None, KeyOf(current)},
           v.how = "job" => v.job \in admitted /\ v.job[1] = current,
           v.how = "error" /\ v.key = None /\ kind[current] # "submit" =>
               \A r \in sent : Of(r) = current => r.message.call # calls[current]
    PROVE  Inv'
<1>1. /\ current \in Operation /\ current' = None
      /\ verdict' = [verdict EXCEPT ![current] = v] /\ DOMAIN verdict = Operation
      /\ UNCHANGED <<kind, chosen, calls, sent, admitted>>
  BY DEF Tell, service, Inv, TypeOK
<1>2. TransportTypeOK' /\ phase' = "idle"
  BY ClearTypes DEF Inv, TypeOK
<1>3. /\ verdict'[current] = v
      /\ \A o \in Operation : o # current => verdict'[o] = verdict[o]
      /\ DOMAIN verdict' = Operation
  BY <1>1
<1>4. kind[current] # "none"
  BY <1>1 DEF Inv, UserInv, TypeOK
<1>5. TypeOK'
  BY <1>1, <1>2, <1>3 DEF Inv, TypeOK
<1>6. UserInv' /\ CallInv'
  BY <1>1, <1>2, <1>3, <1>4 DEF Inv, UserInv, CallInv, KeyOf
<1>7. SentInv' /\ AmbiguousNotReplayed'
  BY <1>1 DEF Inv, SentInv, RoundInv, AmbiguousNotReplayed, KeyOf, Of
<1>8. NothingInv' /\ KeyTold'
  <2>1. \A r \in sent : chosen[Of(r)] = None => r.message.call = calls[Of(r)]
    BY DEF Inv, SentInv
  <2> QED
    BY <1>1, <1>3, <2>1 DEF Inv, NothingInv, KeyTold, Of
<1>9. AdmittedInv'
  BY <1>1, <1>2 DEF Inv, AdmittedInv
<1> QED
  BY <1>5, <1>6, <1>7, <1>8, <1>9 DEF Inv

LEMMA CrashKeeps ==
    ASSUME Inv, Crash
    PROVE  Inv'
<1>1. Crashed.how = "crashed"
  BY DEF Crashed
<1> QED
  BY <1>1, TellKeeps DEF Crash

LEMMA NotDiscoveredKeeps ==
    ASSUME Inv, NotDiscovered
    PROVE  Inv'
<1>1. Fails(None).how = "error" /\ Fails(None).key = None
  BY DEF Fails
<1>2. current # None /\ ~call.write
  BY DEF NotDiscovered, Reading
<1>3. \A r \in sent : Of(r) = current => r.message.call # calls[current]
  BY <1>2 DEF Inv, SentInv, RoundInv
<1> QED
  BY <1>1, <1>2, <1>3, TellKeeps DEF NotDiscovered

LEMMA PostedKeeps ==
    ASSUME Inv, Posted
    PROVE  Inv'
<1> DEFINE key == IF Carries THEN call.key ELSE None
<1>1. /\ Posting /\ phase = "over" /\ current # None
      /\ Tell(IF Confirmed THEN Handle(call.key) ELSE Fails(key))
      /\ Clear /\ UNCHANGED service
  BY DEF Posted, Posting
<1>2. call.key = KeyOf(current) /\ call.key[1] = current /\ call.key # None
  BY <1>1, PostingFacts, NoKeyAssumption DEF Key
<1>3. CASE Confirmed
  <2>1. Handle(call.key).how = "job" /\ Handle(call.key).job = call.key
    BY DEF Handle
  <2>2. call.key \in admitted
    BY <1>1, <1>3 DEF Confirmed, Inv, AdmittedInv
  <2>3. Tell(Handle(call.key))
    BY <1>1, <1>3
  <2> QED
    BY <1>1, <1>2, <2>1, <2>2, <2>3, TellKeeps
<1>4. CASE ~Confirmed
  <2>1. Fails(key).how = "error" /\ Fails(key).key = key
    BY DEF Fails
  <2>2. key \in {None, KeyOf(current)}
    BY <1>2
  <2>3. kind[current] # "submit" => key # None
    BY <1>2 DEF Carries
  <2>4. Tell(Fails(key))
    BY <1>1, <1>4
  <2> QED
    BY <1>1, <2>1, <2>2, <2>3, <2>4, TellKeeps
<1> QED
  BY <1>3, <1>4

---------------------------------------------------------------------------
(* The user and the service.                                               *)

\* A call is made under the key of everything sent for the operation so far.
LEMMA CallKeeps ==
    ASSUME Inv, current = None, NEW o \in Operation, Call(o),
           kind' \in [Operation -> {"none", "submit", "native", "script"}],
           chosen' \in [Operation -> Key \cup {None}],
           \A p \in Operation \ {o} : kind'[p] = kind[p] /\ chosen'[p] = chosen[p],
           kind'[o] # "none",
           kind'[o] = "submit" => chosen'[o] = None,
           chosen'[o] # None => chosen'[o][1] = o,
           \A r \in sent : Of(r) = o => chosen'[o] # None /\ chosen'[o] = KeyOf(o)
    PROVE  Inv'
<1> DEFINE c == IF kind'[o] = "native" THEN Read(WriteTimeout, None, 0)
                                       ELSE IdempotentWrite(PostKey(o), WriteTimeout)
<1>1. /\ calls[o] < MaxCalls /\ current' = o /\ Begin(c) /\ TransportTypeOK
      /\ calls' = [calls EXCEPT ![o] = @ + 1] /\ calls \in [Operation -> 0..MaxCalls]
      /\ verdict' = [verdict EXCEPT ![o] = Open] /\ DOMAIN verdict = Operation
      /\ UNCHANGED <<sent, admitted>>
  BY DEF Call, Inv, TypeOK, service
<1>2. /\ calls'[o] = calls[o] + 1 /\ calls[o] \in Nat /\ calls' \in [Operation -> 0..MaxCalls]
      /\ \A p \in Operation \ {o} : calls'[p] = calls[p] /\ verdict'[p] = verdict[p]
      /\ DOMAIN verdict' = Operation /\ verdict'[o].how = "open"
  BY <1>1 DEF Open
<1>3. /\ c.deadline = None /\ c.timeout \in Nat /\ c.write \in BOOLEAN
      /\ c.write => c.idem = TRUE /\ c.key = PostKey(o)
  BY DEF Read, IdempotentWrite, WriteTimeout
<1> HIDE DEF c
<1>4. TransportTypeOK' /\ call' = c /\ phase' = "sending"
  BY <1>1, <1>3, BeginTypes
<1>5. /\ PostKey(o) = KeyOf(o)'
      /\ \A p \in Operation \ {o} : KeyOf(p)' = KeyOf(p)
      /\ \A r \in sent : Of(r) = o => KeyOf(o)' = KeyOf(o)
  BY <1>2 DEF PostKey, KeyOf
<1>6. TypeOK'
  BY <1>1, <1>2, <1>4 DEF Inv, TypeOK
<1>7. UserInv'
  <2>1. current' # None /\ phase' # "idle" /\ calls'[current'] >= 1
        /\ verdict'[current'].how = "open"
    BY <1>1, <1>2, <1>4
  <2> SUFFICES ASSUME NEW p \in Operation
               PROVE  /\ kind'[p] = "none" =>
                            calls'[p] = 0 /\ verdict'[p].how = "open" /\ chosen'[p] = None
                      /\ kind'[p] = "submit" => chosen'[p] = None
                      /\ chosen'[p] # None => chosen'[p][1] = p
                      /\ verdict'[p].how = "error" => verdict'[p].key \in {None, KeyOf(p)'}
                      /\ verdict'[p].how = "job" =>
                            verdict'[p].job \in admitted' /\ verdict'[p].job[1] = p
                      /\ verdict'[p].how # "open" => current' # p
    BY <2>1 DEF UserInv
  <2>2. CASE p = o
    BY <1>2, <2>2
  <2>3. CASE p # o
    BY <1>1, <1>2, <1>5, <2>3 DEF Inv, UserInv
  <2> QED
    BY <2>2, <2>3
<1>8. CallInv'
  BY <1>1, <1>3, <1>4, <1>5 DEF CallInv
<1>9. SentInv'
  <2> SUFFICES ASSUME NEW r \in sent
               PROVE  /\ Of(r) \in Operation
                      /\ r.message = [key |-> r.message.key, call |-> r.message.call,
                                      attempt |-> r.message.attempt]
                      /\ r.message.key = KeyOf(Of(r))'
                      /\ r.message.call \in 1..calls'[Of(r)]
                      /\ chosen'[Of(r)] = None => r.message.call = calls'[Of(r)]
                      /\ r.message.attempt \in Nat
                      /\ RoundInv(r)'
    BY <1>1 DEF SentInv, KeyOf, Of
  <2>1. /\ Of(r) \in Operation
        /\ r.message = [key |-> r.message.key, call |-> r.message.call,
                        attempt |-> r.message.attempt]
        /\ r.message.key = KeyOf(Of(r))
        /\ r.message.call \in 1..calls[Of(r)]
        /\ chosen[Of(r)] = None => r.message.call = calls[Of(r)]
        /\ r.message.attempt \in Nat
    BY DEF Inv, SentInv
  <2>2. CASE Of(r) = o
    <3>1. r.message.call \in 1..calls'[o] /\ r.message.call # calls'[o]
      BY <1>2, <2>1, <2>2
    <3> QED
      BY <1>1, <1>5, <2>1, <2>2, <3>1 DEF RoundInv, Of
  <2>3. CASE Of(r) # o
    BY <1>1, <1>2, <1>5, <2>1, <2>3 DEF RoundInv, Of
  <2> QED
    BY <2>2, <2>3
<1>10. NothingInv' /\ KeyTold'
  BY <1>1, <1>2 DEF Inv, NothingInv, KeyTold, Of
<1>11. AdmittedInv' /\ AmbiguousNotReplayed'
  BY <1>1, <1>4 DEF Inv, AdmittedInv, AmbiguousNotReplayed
<1> QED
  BY <1>6, <1>7, <1>8, <1>9, <1>10, <1>11 DEF Inv

LEMMA SubmitKeeps ==
    ASSUME Inv, NEW o \in Operation, Submit(o)
    PROVE  Inv'
<1>1. /\ current = None /\ kind[o] = "none" /\ Call(o)
      /\ kind \in [Operation -> {"none", "submit", "native", "script"}]
      /\ chosen \in [Operation -> Key \cup {None}]
  BY DEF Submit, Inv, TypeOK
<1>2. PICK k \in {"submit", "native", "script"} : kind' = [kind EXCEPT ![o] = k]
  BY DEF Submit
<1>3. PICK c \in {<<o, 0>>, None} :
          /\ kind'[o] = "submit" => c = None
          /\ chosen' = [chosen EXCEPT ![o] = c]
  BY DEF Submit
<1>4. <<o, 0>> \in Key
  BY DEF Key
<1>5. /\ kind' \in [Operation -> {"none", "submit", "native", "script"}]
      /\ chosen' \in [Operation -> Key \cup {None}]
      /\ \A p \in Operation \ {o} : kind'[p] = kind[p] /\ chosen'[p] = chosen[p]
      /\ kind'[o] = k /\ chosen'[o] = c
  BY <1>1, <1>2, <1>3, <1>4
<1>6. \A r \in sent : Of(r) # o
  <2>1. calls[o] = 0
    BY <1>1 DEF Inv, UserInv
  <2>2. \A r \in sent : r.message.call \in 1..calls[Of(r)]
    BY DEF Inv, SentInv
  <2> QED
    BY <2>1, <2>2
<1> QED
  BY <1>1, <1>3, <1>5, <1>6, CallKeeps

LEMMA SubmitAgainKeeps ==
    ASSUME Inv, NEW o \in Operation, SubmitAgain(o)
    PROVE  Inv'
<1>1. /\ current = None /\ kind[o] \in {"native", "script"} /\ Call(o) /\ kind' = kind
      /\ kind \in [Operation -> {"none", "submit", "native", "script"}]
      /\ chosen \in [Operation -> Key \cup {None}]
      /\ calls \in [Operation -> 0..MaxCalls]
  BY DEF SubmitAgain, Inv, TypeOK
<1>2. KeyOf(o) \in Key /\ KeyOf(o)[1] = o
  BY <1>1 DEF KeyOf, Key, Inv, UserInv
<1>3. KeyOf(o) # None
  BY <1>2 DEF Key
<1>4. CASE /\ verdict[o].how = "error"
           /\ chosen' = [chosen EXCEPT ![o] = IF verdict[o].key # None THEN verdict[o].key ELSE @]
  <2>1. verdict[o].key \in {None, KeyOf(o)}
    BY <1>4 DEF Inv, UserInv
  <2>2. /\ chosen' \in [Operation -> Key \cup {None}]
        /\ \A p \in Operation \ {o} : chosen'[p] = chosen[p]
        /\ chosen'[o] = IF verdict[o].key # None THEN KeyOf(o) ELSE chosen[o]
    BY <1>1, <1>2, <1>4, <2>1
  <2>3. chosen'[o] # None => chosen'[o] = KeyOf(o)
    BY <2>2 DEF KeyOf
  <2>4. chosen'[o] = None => \A r \in sent : Of(r) # o
    BY <1>1, <1>3, <1>4, <2>2 DEF Inv, NothingInv
  <2> QED
    BY <1>1, <1>2, <2>2, <2>3, <2>4, CallKeeps
<1>5. CASE chosen[o] # None /\ UNCHANGED chosen
  <2>1. chosen'[o] = KeyOf(o)
    BY <1>5 DEF KeyOf
  <2> QED
    BY <1>1, <1>2, <1>3, <1>5, <2>1, CallKeeps
<1> QED
  BY <1>4, <1>5 DEF SubmitAgain

LEMMA AdmitKeeps ==
    ASSUME Inv, NEW r \in sent, Admit(r)
    PROVE  Inv'
<1>1. /\ UNCHANGED <<now, call, phase, attempt, limit, nextSleep, last, answer>>
      /\ UNCHANGED <<current, kind, chosen, calls, verdict, sent>>
      /\ admitted' = admitted \cup {r.message.key}
  BY DEF Admit, transport, user
<1>2. TypeOK'
  BY <1>1 DEF Inv, TypeOK, TransportTypeOK
<1>3. UserInv' /\ CallInv'
  BY <1>1 DEF Inv, UserInv, CallInv, KeyOf
<1>4. SentInv' /\ AmbiguousNotReplayed'
  BY <1>1 DEF Inv, SentInv, RoundInv, AmbiguousNotReplayed, KeyOf, Of
<1>5. NothingInv' /\ KeyTold' /\ AdmittedInv'
  BY <1>1 DEF Inv, NothingInv, KeyTold, AdmittedInv, Posting, Of
<1> QED
  BY <1>2, <1>3, <1>4, <1>5 DEF Inv

---------------------------------------------------------------------------
LEMMA InitInv ==
    ASSUME Init
    PROVE  Inv
<1>1. TypeOK
  BY DEF Init, TransportInit, TypeOK, TransportTypeOK, Phases, MaxRetries, Open
<1>2. UserInv /\ CallInv
  BY DEF Init, TransportInit, UserInv, CallInv, Open
<1>3. SentInv /\ NothingInv /\ AdmittedInv /\ AmbiguousNotReplayed /\ KeyTold
  BY DEF Init, TransportInit, SentInv, NothingInv, AdmittedInv, AmbiguousNotReplayed, KeyTold,
         Posting, Open
<1> QED
  BY <1>1, <1>2, <1>3 DEF Inv

LEMMA StutterKeeps ==
    ASSUME Inv, UNCHANGED vars
    PROVE  Inv'
<1>1. /\ UNCHANGED <<now, call, phase, attempt, limit, nextSleep, last, answer>>
      /\ UNCHANGED <<current, kind, chosen, calls, verdict, sent, admitted>>
  BY DEF vars, transport, user, service
<1>2. TypeOK' /\ UserInv' /\ CallInv'
  BY <1>1 DEF Inv, TypeOK, TransportTypeOK, UserInv, CallInv, KeyOf
<1>3. SentInv' /\ NothingInv' /\ AdmittedInv' /\ AmbiguousNotReplayed' /\ KeyTold'
  BY <1>1 DEF Inv, SentInv, RoundInv, NothingInv, AdmittedInv, AmbiguousNotReplayed, KeyTold,
              Posting, KeyOf, Of
<1> QED
  BY <1>2, <1>3 DEF Inv

\* Every step, and every stutter, keeps the invariant.
LEMMA StepInv ==
    ASSUME Inv, [Next]_vars
    PROVE  Inv'
<1>1. CASE \E o \in Operation : Submit(o) \/ SubmitAgain(o)
  BY <1>1, SubmitKeeps, SubmitAgainKeeps
<1>2. CASE ClientStep
  BY <1>2, PostStepKeeps, ReadAttemptKeeps, NextAttemptKeeps, DiscoveredKeeps,
     NotDiscoveredKeeps, PostedKeeps DEF ClientStep
<1>3. CASE Crash
  BY <1>3, CrashKeeps
<1>4. CASE \E r \in sent : Admit(r)
  BY <1>4, AdmitKeeps
<1>5. CASE Idle \/ UNCHANGED vars
  BY <1>5, StutterKeeps DEF Idle
<1> QED
  BY <1>1, <1>2, <1>3, <1>4, <1>5 DEF Next

\* The inductive invariant holds in every state.
THEOREM Invariance == Spec => []Inv
<1>1. Init => Inv
  BY InitInv
<1>2. Inv /\ [Next]_vars => Inv'
  BY StepInv
<1> QED
  BY <1>1, <1>2, PTL DEF Spec

\* Client, user and service keep the shape of their state.
THEOREM TypeCorrect == Spec => []TypeOK
<1>1. Inv => TypeOK
  BY DEF Inv
<1> QED
  BY <1>1, Invariance, PTL

\* Within one call nothing is sent again after a request without an answer.
THEOREM NoAmbiguousReplay == Spec => []AmbiguousNotReplayed
<1>1. Inv => AmbiguousNotReplayed
  BY DEF Inv
<1> QED
  BY <1>1, Invariance, PTL

\* An error of submit_native or submit_script without a key: nothing was sent.
THEOREM KeysAreTold == Spec => []KeyTold
<1>1. Inv => KeyTold
  BY DEF Inv
<1> QED
  BY <1>1, Invariance, PTL

---------------------------------------------------------------------------
(* The refinement of Admission.                                            *)

Jobs == [o \in Operation |-> {k \in admitted : k[1] = o}]
ToldAll == [o \in Operation |-> Told(o)]

\* What Admission is told of an operation.
LEMMA ToldMeans ==
    ASSUME NEW o \in Operation
    PROVE  /\ Told(o).how \in {"open", "nothing", "unknown", "job"}
           /\ Told(o).how = "nothing" =>
                 /\ kind[o] # "submit" /\ verdict[o].how = "error"
                 /\ verdict[o].key = None /\ chosen[o] = None
           /\ Told(o).how = "job" => verdict[o].how = "job" /\ Told(o).job = verdict[o].job
<1>1. CASE verdict[o].how = "job"
  BY <1>1 DEF Told
<1>2. CASE verdict[o].how = "open"
  BY <1>2 DEF Told
<1>3. CASE verdict[o].how \notin {"job", "open"}
  BY <1>3 DEF Told
<1> QED
  BY <1>1, <1>2, <1>3

\* The service has no job under another key than the operation's one.
LEMMA OneKey ==
    ASSUME Inv, NEW k \in admitted
    PROVE  k = KeyOf(k[1]) /\ \E r \in sent : r.message.key = k
<1>1. PICK r \in sent : r.message.key = k
  BY DEF Inv, AdmittedInv
<1> QED
  BY <1>1 DEF Inv, SentInv, Of

\* A step that only changes what the user knows of one operation.
LEMMA TellRefines ==
    ASSUME Inv, Inv', NEW o \in Operation, verdict[o].how # "job", admitted' = admitted,
           \A p \in Operation \ {o} :
               verdict'[p] = verdict[p] /\ chosen'[p] = chosen[p] /\ kind'[p] = kind[p]
    PROVE  Abstract!Next
<1>1. Told(o).how # "job"
  BY ToldMeans
<1>2. \A p \in Operation \ {o} : Told(p)' = Told(p)
  BY DEF Told
<1>3. Jobs' = Jobs
  BY DEF Jobs
<1>4. ToldAll' = [ToldAll EXCEPT ![o] = ToldAll'[o]]
  BY <1>2 DEF ToldAll
<1>5. /\ Told(o)'.how \in {"open", "nothing", "unknown", "job"}
      /\ Told(o)'.how = "nothing" =>
            /\ kind'[o] # "submit" /\ verdict'[o].how = "error"
            /\ verdict'[o].key = None /\ chosen'[o] = None
      /\ Told(o)'.how = "job" => verdict'[o].how = "job" /\ Told(o)'.job = verdict'[o].job
  <2>1. CASE verdict'[o].how = "job"
    BY <2>1 DEF Told
  <2>2. CASE verdict'[o].how = "open"
    BY <2>2 DEF Told
  <2>3. CASE verdict'[o].how \notin {"job", "open"}
    BY <2>3 DEF Told
  <2> QED
    BY <2>1, <2>2, <2>3
<1>6. Told(o)'.how = "nothing" => Jobs[o] = {}
  <2> SUFFICES ASSUME Told(o)'.how = "nothing", NEW k \in admitted, k[1] = o
               PROVE  FALSE
    BY DEF Jobs
  <2>1. \A r \in sent' : Of(r) # o
    BY <1>5 DEF Inv, NothingInv, Of
  <2>2. \E r \in sent' : r.message.key = k
    BY DEF Inv, AdmittedInv
  <2> QED
    BY <2>1, <2>2 DEF Of
<1>7. Told(o)'.how = "job" => Told(o)'.job \in Jobs[o]
  BY <1>5 DEF Inv, UserInv, Jobs
<1>8. Abstract!Honest(ToldAll'[o], Jobs[o])
  BY <1>5, <1>6, <1>7 DEF Abstract!Honest, ToldAll
<1>9. ToldAll[o].how # "job"
  BY <1>1 DEF ToldAll
<1>10. Abstract!Tell(o)
  BY <1>3, <1>4, <1>8, <1>9 DEF Abstract!Tell, Jobs, ToldAll
<1> QED
  BY <1>10 DEF Abstract!Next

\* The service admits an operation at most once, and none known to be unsent.
LEMMA AdmitRefines ==
    ASSUME Inv, NEW r \in sent, Admit(r)
    PROVE  [Abstract!Next]_(Abstract!vars)
<1> DEFINE o == Of(r)
           key == r.message.key
<1>1. /\ admitted' = admitted \cup {key}
      /\ UNCHANGED <<current, kind, chosen, calls, verdict, sent>>
  BY DEF Admit, user
<1>2. o \in Operation /\ key = KeyOf(o) /\ key[1] = o
  BY DEF Inv, SentInv, Of
<1>3. ToldAll' = ToldAll
  BY <1>1 DEF ToldAll, Told
<1>4. CASE key \in admitted
  <2>1. Jobs' = Jobs
    BY <1>1, <1>4 DEF Jobs
  <2> QED
    BY <1>3, <2>1 DEF Abstract!vars, Jobs, ToldAll
<1>5. CASE key \notin admitted
  <2>1. Jobs[o] = {}
    BY <1>2, <1>5, OneKey DEF Jobs
  <2>2. Jobs' = [Jobs EXCEPT ![o] = {key}]
    <3>1. \A p \in Operation : Jobs'[p] = IF p = o THEN {key} ELSE Jobs[p]
      BY <1>1, <1>2, <2>1 DEF Jobs
    <3> QED
      BY <1>2, <3>1 DEF Jobs
  <2>3. key \in Jobs'[o]
    BY <1>1, <1>2 DEF Jobs
  <2>4. ToldAll[o].how # "nothing"
    BY <1>2, ToldMeans DEF ToldAll, Inv, NothingInv
  <2>5. Abstract!Admit(o)
    BY <1>3, <2>1, <2>2, <2>3, <2>4 DEF Abstract!Admit, Jobs, ToldAll
  <2> QED
    BY <1>2, <2>5 DEF Abstract!Next
<1> QED
  BY <1>4, <1>5

\* A step that leaves verdicts and jobs alone is invisible to Admission.
LEMMA Invisible ==
    ASSUME UNCHANGED <<kind, chosen, verdict, admitted>>
    PROVE  UNCHANGED Abstract!vars
BY DEF Abstract!vars, Told

LEMMA StepRefines ==
    ASSUME Inv, Inv', [Next]_vars
    PROVE  [Abstract!Next]_(Abstract!vars)
<1>1. CASE \E o \in Operation : Submit(o) \/ SubmitAgain(o)
  <2>1. PICK o \in Operation : Submit(o) \/ SubmitAgain(o)
    BY <1>1
  <2>2. /\ Call(o) /\ verdict[o].how # "job"
        /\ kind \in [Operation -> {"none", "submit", "native", "script"}]
        /\ chosen \in [Operation -> Key \cup {None}]
    BY <2>1 DEF Submit, SubmitAgain, Inv, TypeOK, UserInv
  <2>3. /\ verdict' = [verdict EXCEPT ![o] = Open] /\ DOMAIN verdict = Operation
        /\ admitted' = admitted
    BY <2>2 DEF Call, service, Inv, TypeOK
  <2>4. \A p \in Operation \ {o} : chosen'[p] = chosen[p] /\ kind'[p] = kind[p]
    BY <2>1, <2>2 DEF Submit, SubmitAgain
  <2> QED
    BY <2>2, <2>3, <2>4, TellRefines
<1>2. CASE Crash \/ NotDiscovered \/ Posted
  <2>1. /\ current \in Operation /\ verdict[current].how # "job"
        /\ DOMAIN verdict = Operation
        /\ UNCHANGED <<kind, chosen, admitted>>
    BY <1>2 DEF Crash, NotDiscovered, Reading, Posted, Posting, Tell, service, Inv, TypeOK, UserInv
  <2>2. \E v : verdict' = [verdict EXCEPT ![current] = v]
    BY <1>2 DEF Crash, NotDiscovered, Posted, Tell
  <2>3. \A p \in Operation \ {current} : verdict'[p] = verdict[p]
    BY <2>1, <2>2
  <2> QED
    BY <2>1, <2>3, TellRefines
<1>3. CASE PostStep \/ ReadAttempt \/ NextAttempt \/ Discovered
  <2>1. UNCHANGED <<kind, chosen, verdict, admitted>>
    BY <1>3
    DEF PostStep, SendPost, PostConnectFails, PostCut, PostUnreadable, PostTransient, PostRefused,
        PostAdmitted, ReadAttempt, NextAttempt, Discovered, user, service
  <2> QED
    BY <2>1, Invisible
<1>4. CASE \E r \in sent : Admit(r)
  BY <1>4, AdmitRefines
<1>5. CASE Idle \/ UNCHANGED vars
  BY <1>5, Invisible DEF Idle, vars, user, service
<1> QED
  BY <1>1, <1>2, <1>3, <1>4, <1>5 DEF Next, ClientStep

\* Every behaviour is one of Admission: at most one job per operation, the
\* right handle, and an honest "nothing was sent".
THEOREM SubmissionImplementsAdmission == Spec => ImplementsAdmission
<1>1. Init => Abstract!Init
  <2> SUFFICES ASSUME Init
               PROVE  Abstract!Init
    OBVIOUS
  <2>1. \A o \in Operation : Told(o) = [how |-> "open"]
    BY DEF Init, Told, Open
  <2>2. admitted = {}
    BY DEF Init
  <2> QED
    BY <2>1, <2>2 DEF Abstract!Init
<1>2. Inv /\ Inv' /\ [Next]_vars => [Abstract!Next]_(Abstract!vars)
  BY StepRefines
<1> QED
  BY <1>1, <1>2, Invariance, PTL DEF Spec, Abstract!Spec, ImplementsAdmission
=============================================================================

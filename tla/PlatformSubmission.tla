------------------------ MODULE PlatformSubmission ------------------------
(***************************************************************************)
(* Submitting jobs to the platform (platform/client.py): submit,           *)
(* submit_native and submit_script over Transport.request, a service that  *)
(* admits one job per idempotency key, and a user who follows the          *)
(* documentation: he submits again with the key an error carries, with a   *)
(* fresh one after an error that carries none, and after a crash only with *)
(* a key he chose himself.                                                 *)
(*                                                                         *)
(* One process and one client at a time; a request it has sent outlives    *)
(* it.  Mistaken... operators are wrong versions of the definition after   *)
(* them; no action uses them.                                              *)
(***************************************************************************)
EXTENDS PlatformTransport

CONSTANTS
    Operation,      \* what the user wants to have run, once each
    MaxCalls        \* how often a method is called for one operation

ASSUME MaxCallsAssumption == MaxCalls \in Nat
ASSUME NoOperationAssumption == None \notin Operation
ASSUME NoKeyAssumption == None \notin Operation \X (0..MaxCalls)

VARIABLES
    current,        \* the operation being submitted, or None
    kind,           \* operation -> the method it is submitted by
    chosen,         \* operation -> the key the user passes, or None
    calls,          \* operation -> calls of the method so far
    verdict,        \* operation -> how the latest call ended
    sent,           \* the requests that left the client: external
    admitted        \* the keys the service has a job for: external

user    == <<current, kind, chosen, calls, verdict>>
service == <<sent, admitted>>
vars    == <<transport, user, service>>

\* A key remembers the operation and the call it was made for.
Key == Operation \X (0..MaxCalls)
WriteTimeout == 1

Open       == [how |-> "open"]
Crashed    == [how |-> "crashed"]
Fails(key) == [how |-> "error", key |-> key]
Handle(j)  == [how |-> "job", job |-> j]

Init ==
    /\ TransportInit
    /\ current = None
    /\ kind = [o \in Operation |-> "none"]
    /\ chosen = [o \in Operation |-> None]
    /\ calls = [o \in Operation |-> 0]
    /\ verdict = [o \in Operation |-> Open]
    /\ sent = {}
    /\ admitted = {}

---------------------------------------------------------------------------
(* The user.                                                               *)

MistakenPostKey(o) == <<o, calls'[o]>>
PostKey(o) == IF chosen'[o] = None THEN <<o, calls'[o]>> ELSE chosen'[o]

\* submit_native first reads the team's runtimes.
Call(o) ==
    /\ calls[o] < MaxCalls
    /\ current' = o
    /\ calls' = [calls EXCEPT ![o] = @ + 1]
    /\ verdict' = [verdict EXCEPT ![o] = Open]
    /\ Begin(IF kind'[o] = "native" THEN Read(WriteTimeout, None, 0)
                                    ELSE IdempotentWrite(PostKey(o), WriteTimeout))
    /\ UNCHANGED service

\* submit() takes no key; the other two may be given a durable one.
Submit(o) ==
    /\ current = None
    /\ kind[o] = "none"
    /\ \E k \in {"submit", "native", "script"} : kind' = [kind EXCEPT ![o] = k]
    /\ \E c \in {<<o, 0>>, None} :
          /\ kind'[o] = "submit" => c = None
          /\ chosen' = [chosen EXCEPT ![o] = c]
    /\ Call(o)

\* "Resubmit with idempotency_key=<this value> and the same arguments."
SubmitAgain(o) ==
    /\ current = None
    /\ kind[o] \in {"native", "script"}
    /\ \/ /\ verdict[o].how = "error"
          /\ chosen' = [chosen EXCEPT ![o] = IF verdict[o].key # None THEN verdict[o].key ELSE @]
       \/ /\ verdict[o].how = "crashed"
          /\ chosen[o] # None
          /\ UNCHANGED chosen
    /\ UNCHANGED kind
    /\ Call(o)

Tell(v) ==
    /\ verdict' = [verdict EXCEPT ![current] = v]
    /\ current' = None
    /\ UNCHANGED <<kind, chosen, calls>>

\* The process dies during a call and takes the transport with it.
Crash ==
    /\ current # None
    /\ Tell(Crashed)
    /\ Clear
    /\ UNCHANGED service

---------------------------------------------------------------------------
(* The requests and the service.                                           *)

\* The key goes into the header once, before the loop.
Header == call

Message == [key |-> Header.key, call |-> calls[current], attempt |-> attempt]
Posting == current # None /\ call.write
Reading == current # None /\ ~call.write

\* A request stands in "sent" with what the client has seen of it.
Mark(m, seen) == sent' = {r \in sent : r.message # m} \cup {[message |-> m, seen |-> seen]}

SendPost == Posting /\ Transmit /\ Mark(Message, "nothing") /\ UNCHANGED <<user, admitted>>

\* The service takes a request it got, now or much later, and admits it unless
\* it has the key already; a request may also be lost or turned down.
Admit(r) ==
    /\ admitted' = admitted \cup {r.message.key}
    /\ UNCHANGED <<transport, user, sent>>

PostConnectFails == Posting /\ ConnectFails /\ UNCHANGED <<user, service>>
PostCut          == Posting /\ Cut /\ Mark(Message, "lost") /\ UNCHANGED <<user, admitted>>
PostUnreadable   == Posting /\ Unreadable /\ Mark(Message, "answered") /\ UNCHANGED <<user, admitted>>
PostTransient ==
    /\ Posting
    /\ \E status \in RetryableStatuses : TransientStatus(status)
    /\ Mark(Message, "answered")
    /\ UNCHANGED <<user, admitted>>
PostRefused ==
    /\ Posting
    /\ \E status \in FinalStatuses : RefusedStatus(status)
    /\ Mark(Message, "answered")
    /\ UNCHANGED <<user, admitted>>

\* An admission receipt, for the request or the one its key was first used for.
PostAdmitted ==
    /\ Posting
    /\ Message.key \in admitted
    /\ \E body \in {"receipt", "otherReceipt", "malformed"} : Arrives(body)
    /\ Mark(Message, "answered")
    /\ UNCHANGED <<user, admitted>>

\* The runtimes of the team, by a request that changes nothing.
ReadAttempt ==
    /\ Reading
    /\ \/ Transmit \/ ConnectFails \/ Cut \/ Unreadable
       \/ \E status \in RetryableStatuses : TransientStatus(status)
       \/ \E status \in FinalStatuses : RefusedStatus(status)
       \/ \E body \in {"enabled", "notEnabled"} : Arrives(body)
    /\ UNCHANGED <<user, service>>

NextAttempt == current # None /\ Retry /\ UNCHANGED <<user, service>>

---------------------------------------------------------------------------
(* What the three methods make of the answer.                              *)

\* A runtime matches and the cap is inside its range: post the submission.
Discovered ==
    /\ Reading
    /\ phase = "over"
    /\ answer.kind = "body" /\ answer.body = "enabled"
    /\ UNCHANGED chosen /\ UNCHANGED calls
    /\ Begin(IdempotentWrite(PostKey(current), WriteTimeout))
    /\ UNCHANGED <<current, kind, verdict, service>>

\* No answer, no such runtime, or a cap outside its range.
NotDiscovered ==
    /\ Reading
    /\ phase = "over"
    /\ answer.kind = "body" => answer.body = "notEnabled"
    /\ Tell(Fails(None))
    /\ Clear
    /\ UNCHANGED service

\* submit() passes the transport's error on, and a KeyError of its own; the
\* others see to it that every error carries the key.
Carries == kind[current] # "submit" \/ answer.keyed

\* Only submit_native checks more than the presence of a job id.
Confirmed ==
    /\ answer.kind = "body"
    /\ answer.body = "receipt" \/ (answer.body = "otherReceipt" /\ kind[current] # "native")

Posted ==
    /\ Posting
    /\ phase = "over"
    /\ Tell(IF Confirmed THEN Handle(call.key)
            ELSE Fails(IF Carries THEN call.key ELSE None))
    /\ Clear
    /\ UNCHANGED service

---------------------------------------------------------------------------
PostStep == \/ SendPost \/ PostConnectFails \/ PostCut \/ PostUnreadable
            \/ PostTransient \/ PostRefused \/ PostAdmitted
ClientStep == PostStep \/ ReadAttempt \/ NextAttempt \/ Discovered \/ NotDiscovered \/ Posted

\* The user has nothing left to try.
Idle == current = None /\ UNCHANGED vars

Next ==
    \/ \E o \in Operation : Submit(o) \/ SubmitAgain(o)
    \/ ClientStep
    \/ Crash
    \/ \E r \in sent : Admit(r)
    \/ Idle

Spec == Init /\ [][Next]_vars

(***************************************************************************)
(* Fairness.  The client runs, and no attempt outlives its timeout.  The   *)
(* service owes nothing, and the user need not submit again.               *)
(***************************************************************************)
FairSpec == Spec /\ WF_vars(ClientStep)
---------------------------------------------------------------------------
(* Properties.                                                             *)

Seen == {"nothing", "lost", "answered"}

\* The shape of client, user and service.
TypeOK ==
    /\ TransportTypeOK
    /\ current \in Operation \cup {None}
    /\ kind \in [Operation -> {"none", "submit", "native", "script"}]
    /\ chosen \in [Operation -> Key \cup {None}]
    /\ calls \in [Operation -> 0..MaxCalls]
    /\ DOMAIN verdict = Operation
    /\ \A o \in Operation : verdict[o].how \in {"open", "crashed", "error", "job"}
    /\ \A r \in sent : r.message.key \in Key /\ r.seen \in Seen
    /\ admitted \subseteq Key

\* "What the client guarantees is ... that it never replays a write after an
\* ambiguous failure": within one call, a request goes out again only when the
\* service answered every one before it.
AmbiguousNotReplayed ==
    \A r, q \in sent :
        /\ r.message.key[1] = q.message.key[1]
        /\ r.message.call = q.message.call
        /\ r.message.attempt < q.message.attempt
        => r.seen = "answered"

\* submit_native and submit_script: an error without a key means that this
\* call sent nothing ("refused before anything was sent").
KeyTold ==
    \A o \in Operation :
        kind[o] # "submit" /\ verdict[o].how = "error" /\ verdict[o].key = None =>
            \A r \in sent : r.message.key[1] = o => r.message.call # calls[o]

\* A call ends, even if the service never answers.
CallEnds == (current # None) ~> (current = None)

\* Admission promises one job per operation, the right handle, and an honest
\* "nothing was sent" for whoever kept no key of an earlier call.
Told(o) ==
    CASE verdict[o].how = "job" -> [how |-> "job", job |-> verdict[o].job]
      [] verdict[o].how = "open" -> [how |-> "open"]
      [] verdict[o].how = "error" /\ verdict[o].key = None /\ chosen[o] = None
            /\ kind[o] # "submit" -> [how |-> "nothing"]
      [] OTHER -> [how |-> "unknown"]

Abstract == INSTANCE Admission WITH
    jobs <- [o \in Operation |-> {k \in admitted : k[1] = o}],
    told <- [o \in Operation |-> Told(o)]
ImplementsAdmission == Abstract!Spec
=============================================================================

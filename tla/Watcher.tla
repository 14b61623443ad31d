------------------------------ MODULE Watcher ------------------------------
(***************************************************************************)
(* marqov watch (platform/watch.py): refresh a listing of jobs, draw it,   *)
(* sleep, until interrupted, told to stop or out of frames.  run_plain and *)
(* run_rich take the same steps.                                           *)
(*                                                                         *)
(* A refresh is one read of the team's recent jobs, or the reads of        *)
(* project_jobs (platform/client.py): the document list, documents until   *)
(* enough jobs are linked, the status of each job.  A read is one call of  *)
(* Transport.request (PlatformTransport), here a single step that takes    *)
(* some time and answers or fails.                                         *)
(*                                                                         *)
(* Times are seconds.  Mistaken... operators are wrong versions of the     *)
(* definition after them; no action uses them.                             *)
(***************************************************************************)
EXTENDS Integers

CONSTANTS
    Absent,             \* no snapshot, not stale, no retry, no Retry-After
    NewJobs,            \* how many jobs a document may link that no other did
    Intervals,          \* values for --refresh
    JobLimit,           \* --limit
    MaxDocuments,
    MaxRefreshBackoff,
    MaxRetryAfter,
    ServerRetryAfters,  \* Retry-After of a 429 that ends a read
    ReadTimes,          \* how long a read may take, its retries included
    Listed,             \* how many documents the server may list
    MaxFrames           \* run_plain's refreshes: bounds a behaviour

ASSUME WatcherAssumption ==
    /\ Intervals \subseteq Nat \ {0}
    /\ JobLimit \in Nat \ {0} /\ MaxDocuments \in Nat \ {0}
    /\ MaxRefreshBackoff \in Nat /\ MaxRetryAfter \in Nat
    /\ ServerRetryAfters \subseteq Nat /\ ReadTimes \subseteq Nat
    /\ Listed \subseteq Nat /\ NewJobs \subseteq Nat
ASSUME AbsentAssumption ==
    Absent \notin Nat /\ Absent \notin [since : Nat, retry : Nat \union {Absent}]
\* A project view needs two seconds for each request of a refresh: 62 at most,
\* with 10 documents and a --limit of 20.  The longest back-off is 300.
ASSUME PaceAssumption == 2 * (1 + MaxDocuments + JobLimit) <= MaxRefreshBackoff
\* The prover knows nothing of powers; TLC evaluates these.
ASSUME PowersAssumption == \A n \in 0..16 : 2 ^ n \in Nat /\ 2 ^ n >= 1

VARIABLES
    scope,      \* "team" or "project"
    interval,   \* self.interval
    clock,      \* the time
    reading,    \* where the loop stands
    documents,  \* how many documents are still to be read
    linked,     \* how many jobs project_jobs has found
    statuses,   \* how many statuses have been read
    failures, delay, stopped,   \* of the Watcher
    snapshot,   \* None, or when it was captured and its "stale"
    frames,     \* run_plain's count
    reads,      \* reads so far
    shown       \* what the snapshot should say: last good capture, first failure after it

paging  == <<documents, linked, statuses>>
state   == <<failures, delay, stopped, snapshot>>
watcher == <<scope, interval, clock, reading, paging, state, frames, reads, shown>>

Longer(x, y) == IF x >= y THEN x ELSE y
Shorter(x, y) == IF x <= y THEN x ELSE y

\* Two seconds for each request of a project's worst case.
Paced(s, wanted) ==
    IF s = "project" THEN Longer(wanted, 2 * (1 + MaxDocuments + JobLimit)) ELSE wanted

WatcherInit ==
    /\ scope \in {"team", "project"}
    /\ \E wanted \in Intervals : interval = Paced(scope, wanted)
    /\ clock = 0 /\ reads = 0 /\ frames = 0
    /\ reading = "refresh"
    /\ documents = 0 /\ linked = 0 /\ statuses = 0
    /\ failures = 0 /\ delay = interval /\ stopped = FALSE /\ snapshot = Absent
    /\ shown = [good |-> Absent, broke |-> Absent]

-----------------------------------------------------------------------------
Elapses == \E d \in ReadTimes : clock' = clock + d
Reads == Elapses /\ reads' = reads + 1

\* All reads have answered: a fresh snapshot.
Refreshed ==
    /\ reading' = "drawn"
    /\ failures' = 0 /\ delay' = interval
    /\ snapshot' = [captured |-> clock', stale |-> Absent]
    /\ shown' = [good |-> clock', broke |-> Absent]
    /\ UNCHANGED stopped

Whole(retryAfter) == IF retryAfter = Absent THEN 0 ELSE retryAfter
BackOffFor(n, retryAfter) ==
    Longer(Shorter(MaxRetryAfter, Whole(retryAfter)),
           Shorter(MaxRefreshBackoff, interval * 2 ^ Shorter(n, 16)))

MistakenSince == clock'
Since == IF snapshot.stale = Absent THEN clock' ELSE snapshot.stale.since

\* A read fails: the last good snapshot stays, marked; without one it is raised.
RefreshFails(final, retryAfter) ==
    /\ \/ snapshot = Absent
          /\ reading' = "ended"
          /\ UNCHANGED <<state, shown>>
       \/ snapshot # Absent
          /\ reading' = "drawn"
          /\ failures' = failures + 1
          /\ stopped' = final
          /\ delay' = BackOffFor(failures + 1, retryAfter)
          /\ snapshot' = [snapshot EXCEPT !.stale =
                [since |-> Since, retry |-> IF final THEN Absent ELSE delay']]
          /\ shown' = IF shown.broke = Absent THEN [shown EXCEPT !.broke = clock'] ELSE shown
    /\ UNCHANGED paging

\* Authentication and permission errors are final; a 429 may name a wait.  An
\* answer of an unexpected shape, a document of another project or the status
\* of another job fails like any other error.
ReadFails ==
    /\ reading \in {"team", "listing", "document", "status"}
    /\ Reads
    /\ \/ RefreshFails(TRUE, Absent)
       \/ \E w \in ServerRetryAfters \union {Absent} : RefreshFails(FALSE, w)
    /\ UNCHANGED <<scope, interval, frames>>

BeginRefresh ==
    /\ reading = "refresh"
    /\ reading' = IF scope = "team" THEN "team" ELSE "listing"
    /\ UNCHANGED <<scope, interval, clock, paging, state, frames, reads, shown>>

ReadTeam ==
    /\ reading = "team"
    /\ Reads
    /\ Refreshed
    /\ UNCHANGED <<scope, interval, paging, frames>>

\* After a document or the list: read on, or go on to the statuses.
Onward ==
    IF documents' > 0 /\ linked' < JobLimit THEN reading' = "document" /\ UNCHANGED <<state, shown>>
    ELSE IF linked' > 0 THEN reading' = "status" /\ UNCHANGED <<state, shown>>
    ELSE Refreshed

\* Sliced as well as requested: the server may list more.
MistakenConsidered(n) == n
Considered(n) == Shorter(n, MaxDocuments)

ReadListing ==
    /\ reading = "listing"
    /\ Reads
    /\ \E n \in Listed : documents' = Considered(n)
    /\ UNCHANGED <<scope, interval, linked, statuses, frames>>
    /\ Onward

\* The jobs of a document's result blocks, without those another one linked.
ReadDocument ==
    /\ reading = "document"
    /\ Reads
    /\ documents' = documents - 1
    /\ \E n \in NewJobs : linked' = linked + n
    /\ UNCHANGED <<scope, interval, statuses, frames>>
    /\ Onward

Wanted == Shorter(linked, JobLimit)

ReadStatus ==
    /\ reading = "status"
    /\ Reads
    /\ statuses' = statuses + 1
    /\ IF statuses' < Wanted THEN UNCHANGED <<reading, state, shown>> ELSE Refreshed
    /\ UNCHANGED <<scope, interval, documents, linked, frames>>

\* A frame is on screen: stop, end, or sleep.  What project_jobs gathered is gone.
Stops == stopped

NextFrame ==
    /\ reading = "drawn"
    /\ frames' = frames + 1
    /\ documents' = 0 /\ linked' = 0 /\ statuses' = 0
    /\ IF Stops \/ frames' = MaxFrames
       THEN reading' = "ended" /\ UNCHANGED clock
       ELSE reading' = "refresh" /\ clock' = clock + delay
    /\ UNCHANGED <<scope, interval, state, reads, shown>>

\* Ctrl-C, at any time.
Interrupt ==
    /\ reading # "ended" /\ reading' = "ended"
    /\ UNCHANGED <<scope, interval, clock, paging, state, frames, reads, shown>>

Watching ==
    \/ BeginRefresh \/ ReadTeam \/ ReadListing \/ ReadDocument \/ ReadStatus
    \/ ReadFails \/ NextFrame

WatcherNext == Watching \/ Interrupt

WatcherSpec == WatcherInit /\ [][WatcherNext]_watcher

-----------------------------------------------------------------------------
(* Properties.                                                             *)

\* "That keeps it at or under 30 requests a minute": whatever the server lists,
\* and through failures and recoveries, a project view that is about to refresh
\* has made no more reads than one in two seconds.  (The retries inside a read
\* are not counted, neither here nor in the pacing of the code.)
PaceKept == scope = "project" /\ reading = "refresh" => 2 * reads <= clock

\* What a frame claims is so, after any run of failures and recoveries: the
\* data's capture time, whether a refresh has failed since and when the first
\* one did; and a frame that announces no retry is followed by none.
FrameHonest ==
    reading \in {"drawn", "refresh"} /\ snapshot # Absent =>
        /\ snapshot.captured = shown.good
        /\ snapshot.stale = Absent <=> shown.broke = Absent
        /\ snapshot.stale # Absent =>
              /\ snapshot.stale.since = shown.broke
              /\ snapshot.stale.retry = Absent => reading = "drawn"
=============================================================================

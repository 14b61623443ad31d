---------------------------- MODULE VqpuFamily ----------------------------
(***************************************************************************)
(* CUNQAExecutor.execute (executors/cunqa.py): raise a family of vQPUs as  *)
(* a Slurm job, wait for them to register, run a share of the shots on     *)
(* each, and drop the family whatever happened.                            *)
(*                                                                         *)
(* qraise() may block for ever and cannot be stopped, so it may submit its *)
(* Slurm job long after the caller gave it up; the caller may be cancelled *)
(* at any await, the ones of the teardown included.  Time is what is left  *)
(* of the startup budget, in ticks; the walltime of the allocation is left *)
(* out.  A component to be composed, as RemoteCall; Mistaken... operators  *)
(* are wrong versions of the definition after them.                        *)
(***************************************************************************)
EXTENDS Naturals, FiniteSets

CONSTANTS
    NQpus,          \* config.n_qpus
    Shots,          \* values for shots
    StartupTimeout, \* config.startup_timeout_s
    PollInterval,   \* config.poll_interval_s
    Interruptions   \* how often the caller may be cancelled

ASSUME FamilyAssumption ==
    /\ NQpus \in Nat \ {0} /\ StartupTimeout \in Nat \ {0} /\ PollInterval \in Nat \ {0}
    /\ Shots \subseteq Nat \ {0} /\ Interruptions \in Nat

VARIABLES
    shots,
    step,       \* where the caller is
    left,       \* what is left of the startup budget
    wakeAt,     \* what will be left when the sleep between polls ends
    qraise,     \* the thread that raises the family
    abandoned,  \* the flag the caller leaves for it
    vendor,     \* the thread of get_QPUs, run or gather
    qdrop,      \* the thread of the teardown
    slurm,      \* the Slurm job
    spoiled,    \* a qdrop failed
    qpus,       \* vQPUs in use
    gathered,   \* shots in the results
    outcome,    \* how execute() is to end, or ended
    cuts        \* cancellations so far

family == <<shots, step, left, wakeAt, qraise, abandoned, vendor, qdrop, slurm, spoiled,
            qpus, gathered, outcome, cuts>>

Least2(m, n) == IF m < n THEN m ELSE n

FamilyInit ==
    /\ shots \in Shots
    /\ step = "idle" /\ outcome = "open"
    /\ left = StartupTimeout /\ wakeAt = 0
    /\ qraise = "none" /\ vendor = "none" /\ qdrop = "none"
    /\ abandoned = FALSE /\ spoiled = FALSE
    /\ slurm = "none"
    /\ qpus = 0 /\ gathered = 0 /\ cuts = 0

---------------------------------------------------------------------------
(* Threads and time.                                                       *)

Busy2 == {t \in {<<"qraise", qraise>>, <<"vendor", vendor>>, <<"qdrop", qdrop>>} :
            t[2] \in {"running", "late"}}

Takes ==
    /\ Cardinality(Busy2) < 2
    /\ \/ /\ qraise = "queued" /\ qraise' = "running"
          /\ UNCHANGED <<vendor, qdrop>>
       \/ /\ vendor = "queued" /\ vendor' = "running"
          /\ UNCHANGED <<qraise, qdrop>>
       \/ /\ qdrop = "queued" /\ qdrop' = "running"
          /\ UNCHANGED <<qraise, vendor>>
    /\ UNCHANGED <<shots, step, left, wakeAt, abandoned, slurm, spoiled, qpus, gathered,
                   outcome, cuts>>

SbatchLands ==
    /\ qraise = "running" /\ slurm = "none"
    /\ slurm' = "up"
    /\ UNCHANGED <<shots, step, left, wakeAt, qraise, abandoned, vendor, qdrop, spoiled,
                   qpus, gathered, outcome, cuts>>

\* qraise() returns once its job runs, or raises at any time; if it was given
\* up by then the thread drops the family once more.
MistakenRaiseEnds(end) ==
    /\ qraise = "running"
    /\ end = "returned" => slurm = "up"
    /\ qraise' = end
    /\ UNCHANGED <<shots, step, left, wakeAt, abandoned, vendor, qdrop, slurm, spoiled,
                   qpus, gathered, outcome, cuts>>
RaiseEnds(end) ==
    /\ qraise = "running"
    /\ end = "returned" => slurm = "up"
    /\ qraise' = IF abandoned THEN "late" ELSE end
    /\ UNCHANGED <<shots, step, left, wakeAt, abandoned, vendor, qdrop, slurm, spoiled,
                   qpus, gathered, outcome, cuts>>

\* A qdrop removes the job if there is one by now, and does nothing otherwise.
Drops(ok) ==
    /\ slurm' = IF ok /\ slurm = "up" THEN "down" ELSE slurm
    /\ spoiled' = (spoiled \/ ~ok)

LateDrop(ok) ==
    /\ qraise = "late" /\ qraise' = "dropped"
    /\ Drops(ok)
    /\ UNCHANGED <<shots, step, left, wakeAt, abandoned, vendor, qdrop, qpus, gathered,
                   outcome, cuts>>

DropEnds(ok) ==
    /\ qdrop = "running" /\ qdrop' = (IF ok THEN "returned" ELSE "raised")
    /\ Drops(ok)
    /\ UNCHANGED <<shots, step, left, wakeAt, qraise, abandoned, vendor, qpus, gathered,
                   outcome, cuts>>

VendorEnds(end) ==
    /\ vendor = "running" /\ vendor' = end
    /\ UNCHANGED <<shots, step, left, wakeAt, qraise, abandoned, qdrop, slurm, spoiled,
                   qpus, gathered, outcome, cuts>>

Tick ==
    /\ left > 0 /\ step \in {"raising", "polling", "sleeping"}
    /\ left' = left - 1
    /\ UNCHANGED <<shots, step, wakeAt, qraise, abandoned, vendor, qdrop, slurm, spoiled,
                   qpus, gathered, outcome, cuts>>

---------------------------------------------------------------------------
(* The caller.                                                             *)

\* Shots that do not split evenly are refused before anything is raised.
Refuses ==
    /\ step = "idle" /\ shots % NQpus # 0
    /\ step' = "ended" /\ outcome' = "refused"
    /\ UNCHANGED <<shots, left, wakeAt, qraise, abandoned, vendor, qdrop, slurm, spoiled,
                   qpus, gathered, cuts>>

Raises ==
    /\ step = "idle" /\ shots % NQpus = 0
    /\ step' = "raising" /\ qraise' = "queued"
    /\ UNCHANGED <<shots, left, wakeAt, abandoned, vendor, qdrop, slurm, spoiled, qpus,
                   gathered, outcome, cuts>>

\* The finally of execute(): the family is dropped before the outcome goes on.
TearDown(why) ==
    /\ step' = "dropping" /\ outcome' = why
    /\ qdrop' = "queued"

RaiseReturned ==
    /\ step = "raising"
    /\ \/ /\ qraise = "returned"
          /\ step' = "polling" /\ vendor' = "queued"
          /\ UNCHANGED <<qdrop, outcome>>
       \/ /\ qraise = "raised"
          /\ TearDown("error")
          /\ UNCHANGED vendor
    /\ UNCHANGED <<shots, left, wakeAt, qraise, abandoned, slurm, spoiled, qpus, gathered,
                   cuts>>

\* The call is given up: the flag is left, and work still queued is taken back.
GiveUpRaise ==
    /\ abandoned' = TRUE
    /\ qraise' = IF qraise = "queued" THEN "dropped" ELSE qraise

RaiseTimesOut ==
    /\ step = "raising" /\ left = 0
    /\ GiveUpRaise
    /\ TearDown("startupTimeout")
    /\ UNCHANGED <<shots, left, wakeAt, vendor, slurm, spoiled, qpus, gathered, cuts>>

\* A poll found n vQPUs.  Extra ones would add shots, so exactly NQpus are used.
Used(n) == Least2(n, NQpus)

PolledReady(n) ==
    /\ step = "polling" /\ vendor = "returned" /\ n >= NQpus
    /\ step' = "running" /\ vendor' = "queued"
    /\ qpus' = Used(n)
    /\ UNCHANGED <<shots, left, wakeAt, qraise, abandoned, qdrop, slurm, spoiled, gathered,
                   outcome, cuts>>

PolledShort ==
    /\ step = "polling" /\ vendor = "returned" /\ left > 0
    /\ step' = "sleeping" /\ vendor' = "none"
    /\ wakeAt' = left - Least2(PollInterval, left)
    /\ UNCHANGED <<shots, left, qraise, abandoned, qdrop, slurm, spoiled, qpus, gathered,
                   outcome, cuts>>

PollTimesOut ==
    /\ step = "polling" /\ vendor = "returned" /\ left = 0
    /\ TearDown("startupTimeout") /\ vendor' = "none"
    /\ UNCHANGED <<shots, left, wakeAt, qraise, abandoned, slurm, spoiled, qpus, gathered,
                   cuts>>

Wakes ==
    /\ step = "sleeping" /\ left <= wakeAt
    /\ step' = "polling" /\ vendor' = "queued"
    /\ UNCHANGED <<shots, left, wakeAt, qraise, abandoned, qdrop, slurm, spoiled, qpus,
                   gathered, outcome, cuts>>

\* run() returned its jobs; gather() is next.
Ran ==
    /\ step = "running" /\ vendor = "returned"
    /\ step' = "gathering" /\ vendor' = "queued"
    /\ UNCHANGED <<shots, left, wakeAt, qraise, abandoned, qdrop, slurm, spoiled, qpus,
                   gathered, outcome, cuts>>

\* Every vQPU ran shots // n_qpus, unless one lost some.
Gathered(short) ==
    /\ step = "gathering" /\ vendor = "returned"
    /\ gathered' = qpus * (shots \div NQpus) - (IF short THEN 1 ELSE 0)
    /\ vendor' = "none"
    /\ TearDown("gathered")
    /\ UNCHANGED <<shots, left, wakeAt, qraise, abandoned, slurm, spoiled, qpus, cuts>>

VendorFailed ==
    /\ step \in {"polling", "running", "gathering"} /\ vendor = "raised"
    /\ TearDown("error") /\ vendor' = "none"
    /\ UNCHANGED <<shots, left, wakeAt, qraise, abandoned, slurm, spoiled, qpus, gathered,
                   cuts>>

\* The merged counts must add up to the shots asked for.
Conclusion ==
    IF outcome # "gathered" THEN outcome
    ELSE IF gathered = shots THEN "counts" ELSE "shotError"

\* A failed qdrop is logged, and hides no outcome.
Dropped ==
    /\ step \in {"dropping", "droppingAgain"} /\ qdrop \in {"returned", "raised"}
    /\ step' = "ended" /\ outcome' = Conclusion
    /\ UNCHANGED <<shots, left, wakeAt, qraise, abandoned, vendor, qdrop, slurm, spoiled,
                   qpus, gathered, cuts>>

\* A cancellation of the caller: while it works, in the teardown's first wait
\* for the qdrop, which is shielded and waited for again, or in the second,
\* which ends execute() and shuts the pool, taking a queued qdrop back.
Interrupted ==
    /\ cuts < Interruptions /\ cuts' = cuts + 1
    /\ \/ /\ step \in {"raising", "polling", "sleeping", "running", "gathering"}
          /\ IF step = "raising" THEN GiveUpRaise ELSE UNCHANGED <<qraise, abandoned>>
          /\ vendor' = IF vendor = "queued" THEN "dropped" ELSE vendor
          /\ TearDown("interrupted")
       \/ /\ step = "dropping"
          /\ step' = "droppingAgain" /\ outcome' = "interrupted"
          /\ UNCHANGED <<qraise, abandoned, vendor, qdrop>>
       \/ /\ step = "droppingAgain"
          /\ step' = "ended"
          /\ qdrop' = IF qdrop = "queued" THEN "dropped" ELSE qdrop
          /\ UNCHANGED <<qraise, abandoned, vendor, outcome>>
    /\ UNCHANGED <<shots, left, wakeAt, slurm, spoiled, qpus, gathered>>

FamilyThreads ==
    \/ Takes \/ SbatchLands
    \/ \E end \in {"returned", "raised"} : RaiseEnds(end) \/ VendorEnds(end)
    \/ \E ok \in BOOLEAN : LateDrop(ok) \/ DropEnds(ok)

FamilyCaller ==
    \/ Refuses \/ Raises \/ RaiseReturned \/ RaiseTimesOut
    \/ \E n \in NQpus..(NQpus + 1) : PolledReady(n)
    \/ PolledShort \/ PollTimesOut \/ Wakes \/ Ran
    \/ \E short \in BOOLEAN : Gathered(short)
    \/ VendorFailed \/ Dropped

FamilyNext == FamilyThreads \/ Tick \/ FamilyCaller \/ Interrupted

FamilySpec == FamilyInit /\ [][FamilyNext]_family
---------------------------------------------------------------------------
(* Properties.                                                             *)

\* The caller is gone and so is every thread that could still touch the job.
FamilyQuiet ==
    /\ step = "ended"
    /\ qraise \notin {"queued", "running", "late"}
    /\ qdrop \notin {"queued", "running"}

\* "A crashed or timed-out run doesn't strand Slurm allocations": once all is
\* quiet no job is left in the queue, however late qraise() submitted it,
\* unless a qdrop failed or the teardown itself was cancelled twice.
NothingStranded ==
    FamilyQuiet /\ slurm = "up" => spoiled \/ qdrop = "dropped"
=============================================================================

----------------------------- MODULE Admission -----------------------------
(***************************************************************************)
(* What submitting an operation to the platform promises, without keys,    *)
(* attempts, statuses or processes: an operation becomes at most one job;  *)
(* whoever is handed a job has that one; and whoever is told that nothing  *)
(* was sent can count on it, until he submits again.                       *)
(***************************************************************************)
CONSTANT Operation

VARIABLES
    jobs,       \* operation -> the jobs it became
    told        \* operation -> [how |-> "open", "nothing", "unknown" or "job"]

vars == <<jobs, told>>

Init ==
    /\ jobs = [o \in Operation |-> {}]
    /\ told = [o \in Operation |-> [how |-> "open"]]

\* The operation becomes a job, also while nobody waits for the answer.
Admit(o) ==
    /\ told[o].how # "nothing"
    /\ jobs[o] = {}
    /\ \E j \in jobs'[o] : jobs' = [jobs EXCEPT ![o] = {j}]
    /\ UNCHANGED told

Honest(t, became) ==
    /\ t.how \in {"open", "nothing", "unknown", "job"}
    /\ t.how = "nothing" => became = {}
    /\ t.how = "job" => t.job \in became

Tell(o) ==
    /\ told[o].how # "job"
    /\ told' = [told EXCEPT ![o] = told'[o]]
    /\ Honest(told'[o], jobs[o])
    /\ UNCHANGED jobs

Next == \E o \in Operation : Admit(o) \/ Tell(o)

Spec == Init /\ [][Next]_vars
=============================================================================

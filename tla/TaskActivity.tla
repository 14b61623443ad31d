---------------------------- MODULE TaskActivity ----------------------------
(***************************************************************************)
(* One attempt of the execute_task activity (workflows/activity.py), which *)
(* JobWorkflow takes as a single step.                                     *)
(*                                                                         *)
(* execute_task runs the task body in a child process with a session and a *)
(* workdir of its own.  When the child has exited it kills what is left of *)
(* the process group, waits for the end of stderr, reads the child's       *)
(* output files, and has a thread remove the workdir.  A cancellation      *)
(* (worker shutdown, server timeout) may arrive at every await, more than  *)
(* once.  A heartbeat loop runs beside all this.                           *)
(*                                                                         *)
(* What the output files hold and how they are judged is Classify in       *)
(* JobWorkflow.  Mistaken... operators are wrong versions of the           *)
(* definition after them; no action uses them.                             *)
(***************************************************************************)
VARIABLES
    keep,           \* MARQOV_KEEP_TASK_WORKDIR
    pc,             \* the await execute_task stands at
    child,          \* the child process
    group,          \* a process the task body left in the child's group
    stray,          \* a process it left in a session of its own
    removal,        \* the thread that runs rmtree
    held,           \* _remove_task_workdir's local "cancelled"
    cancelled,      \* a cancellation has been requested
    outcome,        \* what execute_task ends with
    beat            \* the heartbeat loop

proc  == <<child, group, stray>>
clean == <<removal, held>>
vars  == <<keep, pc, proc, clean, cancelled, outcome, beat>>

Init ==
    /\ keep \in BOOLEAN
    /\ pc = "spawning"
    /\ child = "none"
    /\ group = "none"
    /\ stray = "none"
    /\ removal = "none"
    /\ held = FALSE
    /\ cancelled = FALSE
    /\ outcome = "open"
    /\ beat = "on"

---------------------------------------------------------------------------
(* The processes of the task.                                              *)

\* In its parent's process group, or with setsid in one of its own, where the
\* child's stderr stays open as long as it lives.
ChildForks ==
    /\ child = "alive"
    /\ \/ group = "none" /\ group' = "alive" /\ UNCHANGED stray
       \/ stray = "none" /\ stray' = "alive" /\ UNCHANGED group
    /\ UNCHANGED <<keep, pc, child, clean, cancelled, outcome, beat>>

ChildExits ==
    /\ child = "alive"
    /\ child' = "dead"
    /\ UNCHANGED <<keep, pc, group, stray, clean, cancelled, outcome, beat>>

\* _kill_process_group: SIGKILL to the group, or to the child alone when there
\* is no such group.
Killed(p) == IF p = "alive" THEN "dead" ELSE p
MistakenKillGroup == child' = Killed(child) /\ UNCHANGED group
KillGroup == child' = Killed(child) /\ group' = Killed(group)

---------------------------------------------------------------------------
(* execute_task.                                                           *)

MistakenBeatOnLeaving == "off"
BeatOnLeaving == beat

\* The inner finally: keep the workdir or have it removed.
Leave ==
    /\ pc' = IF keep THEN "stopping" ELSE "removing"
    /\ removal' = IF keep THEN "none" ELSE "running"
    /\ beat' = BeatOnLeaving

Spawned ==
    /\ pc = "spawning"
    /\ pc' = "running"
    /\ child' = "alive"
    /\ UNCHANGED <<keep, group, stray, clean, cancelled, outcome, beat>>

SpawnFails ==
    /\ pc = "spawning"
    /\ outcome' = "failed"
    /\ Leave
    /\ UNCHANGED <<keep, proc, held, cancelled>>

\* The event loop learns that the child has exited.
ChildReaped ==
    /\ pc = "running"
    /\ child = "dead"
    /\ KillGroup
    /\ pc' = "draining"
    /\ UNCHANGED <<keep, stray, clean, cancelled, outcome, beat>>

\* End of stderr, or two seconds later: a stray may hold the pipe open.
MistakenDrainOver == group # "alive" /\ stray # "alive"
DrainOver == TRUE

Drained ==
    /\ pc = "draining"
    /\ DrainOver
    /\ outcome' = "answered"
    /\ Leave
    /\ UNCHANGED <<keep, proc, held, cancelled>>

\* The killed child is reaped, or five seconds are over.
KillWaitOver ==
    /\ pc = "killing"
    /\ outcome' = "cancelled"
    /\ Leave
    /\ UNCHANGED <<keep, proc, held, cancelled>>

\* rmtree in its thread.  It ignores errors, so something may be left behind.
RemovalEnds ==
    /\ removal = "running"
    /\ removal' = "done"
    /\ UNCHANGED <<keep, pc, proc, held, cancelled, outcome, beat>>

MistakenHeldBack == outcome
HeldBack == IF held THEN "cancelled" ELSE outcome

\* _remove_task_workdir returns, or raises the cancellation it held back.
Removed ==
    /\ pc = "removing"
    /\ removal = "done"
    /\ outcome' = HeldBack
    /\ pc' = "stopping"
    /\ UNCHANGED <<keep, proc, clean, cancelled, beat>>

\* The heartbeat task has been cancelled, or had failed: execute_task ends.
Stopped ==
    /\ pc = "stopping"
    /\ beat' = "off"
    /\ pc' = "ended"
    /\ UNCHANGED <<keep, proc, clean, cancelled, outcome>>

HeartbeatFails ==
    /\ beat = "on" /\ pc # "ended"
    /\ beat' = "failed"
    /\ UNCHANGED <<keep, pc, proc, clean, cancelled, outcome>>

---------------------------------------------------------------------------
(* A cancellation, at each await.                                          *)

Request == cancelled' = TRUE

\* asyncio disposes of a child it is just starting.
CancelSpawn ==
    /\ pc = "spawning"
    /\ Request
    /\ outcome' = "cancelled"
    /\ Leave
    /\ UNCHANGED <<keep, proc, held>>

CancelRun ==
    /\ pc \in {"running", "draining"}
    /\ Request
    /\ KillGroup
    /\ pc' = "killing"
    /\ UNCHANGED <<keep, stray, clean, outcome, beat>>

\* Ends the wait for the killed child; the first cancellation is raised.
CancelKill ==
    /\ pc = "killing"
    /\ Request
    /\ outcome' = "cancelled"
    /\ Leave
    /\ UNCHANGED <<keep, proc, held>>

Hold == held' = TRUE /\ UNCHANGED <<pc, outcome>>

\* The removal is shielded: the cancellation waits for its end.
CancelRemoval ==
    /\ pc = "removing"
    /\ Request
    /\ Hold
    /\ UNCHANGED <<keep, proc, removal, beat>>

\* asyncio.wait lets a cancellation of execute_task through.
CancelStop ==
    /\ pc = "stopping"
    /\ Request
    /\ outcome' = "cancelled"
    /\ beat' = "off"
    /\ pc' = "ended"
    /\ UNCHANGED <<keep, proc, clean>>

---------------------------------------------------------------------------
Task    == ChildForks \/ ChildExits
Execute == \/ Spawned \/ SpawnFails \/ ChildReaped \/ Drained \/ KillWaitOver
           \/ Removed \/ Stopped
Cancel  == CancelSpawn \/ CancelRun \/ CancelKill \/ CancelRemoval \/ CancelStop

Over == pc = "ended" /\ removal # "running" /\ UNCHANGED vars

Next == Task \/ Execute \/ RemovalEnds \/ HeartbeatFails \/ Cancel \/ Over

Spec == Init /\ [][Next]_vars

(***************************************************************************)
(* Fairness.  The event loop and its two timers run, and rmtree ends.  The *)
(* task owes nothing: the child may run for ever.                          *)
(***************************************************************************)
FairSpec == Spec /\ WF_vars(Execute) /\ WF_vars(RemovalEnds)
---------------------------------------------------------------------------
(* Properties.                                                             *)

\* The shape of the attempt's state.
TypeOK ==
    /\ keep \in BOOLEAN
    /\ pc \in {"spawning", "running", "draining", "killing", "removing",
               "stopping", "ended"}
    /\ child \in {"none", "alive", "dead"}
    /\ group \in {"none", "alive", "dead"}
    /\ stray \in {"none", "alive"}
    /\ removal \in {"none", "running", "done"}
    /\ held \in BOOLEAN /\ cancelled \in BOOLEAN
    /\ outcome \in {"open", "failed", "answered", "cancelled"}
    /\ beat \in {"on", "failed", "off"}

\* "It cannot rewrite either afterwards": once execute_task has dealt with the
\* end of the child, no process of its group is left, so what it reads is final
\* and what it removes stays removed.
NoWriterLeft ==
    pc \notin {"spawning", "running"} => child # "alive" /\ group # "alive"

\* The removal of the workdir has been tried to the end "whether the task
\* succeeded, failed or was cancelled", however many cancellations arrive.
RemovalFinished == pc = "ended" /\ ~keep => removal = "done"

\* Heartbeats go on until the workdir is removed, unless heartbeating itself
\* fails: no attempt times out because its removal is slow.
BeatsThroughout == beat = "off" => removal # "running"

\* A cancellation that arrives before execute_task has ended is never
\* swallowed, neither by the waits it interrupts nor by the shielded removal.
CancellationKept == cancelled /\ pc = "ended" => outcome = "cancelled"

\* An attempt ends once its child has exited or it has been cancelled, even if
\* a process with a session of its own holds stderr open.
AttemptEnds == (child = "dead" \/ cancelled) ~> (pc = "ended")
=============================================================================

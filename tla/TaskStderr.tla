----------------------------- MODULE TaskStderr -----------------------------
(***************************************************************************)
(* execute_task and the reader of its child's stderr (workflows/           *)
(* activity.py), which runs from the spawn until execute_task has dealt    *)
(* with the end of the child.                                              *)
(***************************************************************************)
EXTENDS TaskActivity, StderrTail

attempt == <<vars, tail>>

AttemptInit == Init /\ TailInit

\* The reader goes on until stderr_task is cancelled.
Read ==
    /\ pc \in {"running", "draining", "killing"}
    /\ ReadChunk
    /\ UNCHANGED vars

AttemptNext == Read \/ (Next /\ UNCHANGED tail)

AttemptSpec == AttemptInit /\ [][AttemptNext]_attempt

\* As FairSpec of TaskActivity: the reader owes nothing, and delays nothing.
FairAttempt ==
    AttemptSpec /\ WF_attempt(Execute /\ UNCHANGED tail)
                /\ WF_attempt(RemovalEnds /\ UNCHANGED tail)
=============================================================================

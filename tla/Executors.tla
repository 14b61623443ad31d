----------------------------- MODULE Executors -----------------------------
(***************************************************************************)
(* The executors of one process: the remote ones on BlockingCalls          *)
(* (RemoteCall), CUNQA (VqpuFamily) and the simulators in this process     *)
(* (LocalEngines).  They share no state, so a behaviour of all three shows *)
(* no more than a behaviour of each: the one in use is chosen at the start *)
(* and the others rest in an initial state.                                *)
(***************************************************************************)
EXTENDS RemoteCall, VqpuFamily, LocalEngines

VARIABLE kind   \* the executors in use: "remote", "family" or "engines"

vars == <<kind, remote, family, engines>>

Any(S) == CHOOSE x \in S : TRUE

Init ==
    /\ kind \in {"remote", "family", "engines"}
    /\ RemoteInit /\ FamilyInit /\ EnginesInit
    /\ kind # "remote" => executor = Any(Executors) /\ ~timed
    /\ kind # "family" => shots = Any(Shots)
    /\ kind # "engines" => engine = Any(Engines) /\ ~gpu /\ setting = [j \in Jobs |-> Any(Settings)]

InRemote(A) == kind = "remote" /\ A /\ UNCHANGED <<kind, family, engines>>
InFamily(A) == kind = "family" /\ A /\ UNCHANGED <<kind, remote, engines>>
InEngines(A) == kind = "engines" /\ A /\ UNCHANGED <<kind, remote, family>>

\* Every caller has its answer.
Over ==
    /\ kind = "remote" => \A c \in Calls : at[c] = "ended"
    /\ kind = "family" => step = "ended"
    /\ kind = "engines" => \A j \in Jobs : caller[j] # "awaiting"
    /\ UNCHANGED vars

Next == InRemote(RemoteNext) \/ InFamily(FamilyNext) \/ InEngines(EnginesNext) \/ Over

Spec == Init /\ [][Next]_vars

\* The event loop and its timer run; no thread owes anything.
FairSpec ==
    /\ Spec
    /\ \A c \in Calls : WF_vars(InRemote(Caller(c))) /\ WF_vars(InRemote(EndsCancelWait(c)))
=============================================================================

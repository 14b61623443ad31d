---------------------------- MODULE MCExecutors ----------------------------
(* Two calls on one remote executor, a family of two vQPUs whose caller is *)
(* cancelled up to three times, three jobs on one local engine.            *)
EXTENDS Executors

CONSTANTS c1, c2, j1, j2, j3, mine, theirs, s1

MCSettings == {
    [target |-> "iqm", token |-> theirs, seed |-> Nothing, device |-> "double"],
    [target |-> "nvidia", token |-> theirs, seed |-> s1, device |-> "single"]}
=============================================================================

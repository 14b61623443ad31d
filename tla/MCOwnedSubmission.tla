------------------------- MODULE MCOwnedSubmission -------------------------
(* Two executions of one executor, which is enough for the thread of one   *)
(* to run into the other.                                                  *)
EXTENDS OwnedSubmission, TLC

MCMaxExec == 2
=============================================================================

-------------------------- MODULE MCIonQExecution --------------------------
(* Both routes of IonQExecutor.                                            *)
EXTENDS IonQExecution, TLC

MCRoutes == {"v0.3", "v0.4"}
=============================================================================

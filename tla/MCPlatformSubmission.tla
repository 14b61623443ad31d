----------------------- MODULE MCPlatformSubmission -----------------------
(* One operation, submitted up to twice under every key a user may pass.  *)
EXTENDS PlatformSubmission

MCOperation == {1}
MCDurations == {0}
MCRetryAfters == {0}
=============================================================================

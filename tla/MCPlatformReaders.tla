------------------------- MODULE MCPlatformReaders -------------------------
(* JobPolling as in MCJobPolling; and a watcher of two jobs in the first   *)
(* two documents of a server that lists five, whose pace, back-off and     *)
(* Retry-After reach their limits.                                         *)
EXTENDS PlatformReaders

MCTimeouts == {5, 60}
MCPollIntervals == {4}
MCTransportTimeouts == {16, 60}
MCDurations == {0, 20}
MCRetryAfters == {1, 2}
=============================================================================

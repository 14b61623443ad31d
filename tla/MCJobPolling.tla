--------------------------- MODULE MCJobPolling ---------------------------
(* A client whose requests time out after 30 s, or 8 s, and a deadline     *)
(* that allows a poll and a retry, or less than one hold.                  *)
EXTENDS JobPolling

MCTimeouts == {5, 60}
MCPollIntervals == {4}
MCTransportTimeouts == {16, 60}
MCDurations == {0, 20}
MCRetryAfters == {1, 2}
=============================================================================

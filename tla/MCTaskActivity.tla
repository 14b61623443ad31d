--------------------------- MODULE MCTaskActivity ---------------------------
(* One attempt.  A read returns at most a quarter of the limit, as with    *)
(* read(8192) and 32 KiB; the stream is long enough to evict whole chunks, *)
(* to trim the oldest one, and to do both in one call.                     *)
EXTENDS TaskStderr, TLC

MCChunkSizes == {1, 2}
=============================================================================

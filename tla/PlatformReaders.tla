-------------------------- MODULE PlatformReaders --------------------------
(***************************************************************************)
(* What a process reads from the platform over time: the result of a job   *)
(* (JobPolling) or a listing (Watcher).  They share no state, so the one   *)
(* in use is chosen at the start and the other rests in an initial state.  *)
(***************************************************************************)
EXTENDS JobPolling, Watcher

VARIABLE reader     \* "result" or "watch"

readers == <<reader, vars, watcher>>

ReadersInit ==
    /\ reader \in {"result", "watch"}
    /\ Init /\ WatcherInit
    /\ reader # "result" => /\ perRequest = CHOOSE t \in TransportTimeouts : TRUE
                            /\ deadline = CHOOSE t \in Timeouts : TRUE
                            /\ backoff = CHOOSE t \in PollIntervals : TRUE
    /\ reader # "watch" => /\ scope = "team"
                           /\ interval = CHOOSE i \in Intervals : TRUE

InResult(A) == reader = "result" /\ A /\ UNCHANGED <<reader, watcher>>
InWatch(A) == reader = "watch" /\ A /\ UNCHANGED <<reader, vars>>

Rest ==
    /\ IF reader = "result" THEN at = "ended" ELSE reading = "ended"
    /\ UNCHANGED readers

ReadersNext == InResult(Client) \/ InWatch(WatcherNext) \/ Rest

ReadersSpec == ReadersInit /\ [][ReadersNext]_readers

\* As in JobPolling: the client runs, and nothing else is owed.
FairReaders == ReadersSpec /\ WF_readers(InResult(Client))

\* result() ends, with a result or without.
ResultReturns == (reader = "result") ~> (at = "ended")
=============================================================================

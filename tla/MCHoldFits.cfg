CONSTANTS
    None = None
    Durations <- MCDurations
    RetryAfters <- MCRetryAfters
    Timeouts <- MCTimeouts
    PollIntervals <- MCPollIntervals
    TransportTimeouts <- MCTransportTimeouts
SPECIFICATION Spec
INVARIANTS
    HoldFits

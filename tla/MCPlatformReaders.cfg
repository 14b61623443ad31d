CONSTANTS
    None = None
    Absent = Absent
    Durations <- MCDurations
    RetryAfters <- MCRetryAfters
    Timeouts <- MCTimeouts
    PollIntervals <- MCPollIntervals
    TransportTimeouts <- MCTransportTimeouts
    NewJobs = {0, 1, 3}
    Intervals = {5, 20}
    JobLimit = 2
    MaxDocuments = 2
    MaxRefreshBackoff = 30
    MaxRetryAfter = 60
    ServerRetryAfters = {90}
    ReadTimes = {0, 10}
    Listed = {0, 5}
    MaxFrames = 3
SPECIFICATION FairReaders
INVARIANTS
    DeadlineKept
    TimeoutHonest
    PaceKept
    FrameHonest
PROPERTIES
    ResultReturns

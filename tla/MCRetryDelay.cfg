SPECIFICATION TimedSpec
CONSTANTS
    Jobs = {j1}
    Users = {u1}
    Owner <- SharedOwner
    Unhandled <- NoJobs
    Workers = {w1}
    Slots = {s1, s2}
    Proc <- SharedProc
    Publishers = {p1, p2}
    Events = {1, 2}
    Tokens = {1, 2, 3, 4}
    MaxRetries = 1
    MaxRunning = 1
    Prefetch = 2
    BatchSize = 2
    MaxFaults = 1
    MaxReady = 1
    NoTxn = NoTxn
    NoJob = NoJob
    NoEvent = NoEvent
    NoToken = NoToken
    RetryDelay <- ShortDelays
    DeferDelay = 1
    MaxBackoff = 2
    OutboxBatch = 1
    NoFailure = NoFailure
PROPERTIES
    RetryDelays
CHECK_DEADLOCK FALSE

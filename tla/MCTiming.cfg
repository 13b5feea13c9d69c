SPECIFICATION TimingSpec
CONSTANTS
    Jobs = {j1, j2}
    Users = {u1}
    Owner <- SharedOwner
    Unhandled <- NoJobs
    Workers = {w1}
    Slots = {s1, s2}
    Proc <- SharedProc
    Publishers = {p1, p2}
    Events = {1}
    Tokens = {1, 2, 3}
    MaxRetries = 1
    MaxRunning = 1
    Prefetch = 2
    BatchSize = 2
    MaxFaults = 1
    MaxReady = 1
    NoTxn = NoTxn
    NoJob = NoJob
    NoEvent = NoEvent
    NoToken = NoToken
    RetryDelay <- ShortDelays
    DeferDelay = 1
    MaxBackoff = 2
    OutboxBatch = 1
    NoFailure = NoFailure
INVARIANTS
    TimedTypeOK
PROPERTIES
    RetryDelayKept
    EventuallyTerminal
CHECK_DEADLOCK FALSE

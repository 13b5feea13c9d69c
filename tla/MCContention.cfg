SPECIFICATION FairSpec
CONSTANTS
    Jobs = {j1, j2}
    Users = {u1}
    Owner <- SharedOwner
    Unhandled <- OneJob
    Workers = {w1, w2}
    Slots = {s1, s2}
    Proc <- OwnProc
    Publishers = {p1}
    Events = {1, 2}
    Tokens = {1, 2, 3, 4, 5}
    MaxRetries = 0
    MaxRunning = 1
    Prefetch = 2
    BatchSize = 2
    MaxFaults = 0
    MaxReady = 1
    NoTxn = NoTxn
    NoJob = NoJob
    NoEvent = NoEvent
    NoToken = NoToken
INVARIANTS
    TypeOK
    RunningLimit
    DeadlockNeedsRecovery
PROPERTIES
    ImplementsLifecycle
    EventuallyTerminal
CHECK_DEADLOCK FALSE

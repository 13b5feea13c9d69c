SPECIFICATION Spec
CONSTANTS
    Jobs = {j1}
    Users = {u1}
    Owner <- SharedOwner
    Unhandled <- NoJobs
    Workers = {w1}
    Slots = {s1, s2}
    Proc <- SharedProc
    Publishers = {p1}
    Events = {1, 2}
    Tokens = {1, 2, 3, 4}
    MaxRetries = 1
    MaxRunning = 1
    Prefetch = 2
    BatchSize = 2
    MaxFaults = 0
    MaxReady = 1
    NoTxn = NoTxn
    NoJob = NoJob
    NoEvent = NoEvent
    NoToken = NoToken
INVARIANTS
    RecoveryLocksOwnerFirst
CHECK_DEADLOCK FALSE

SPECIFICATION Spec
CONSTANTS
    Jobs = {j1}
    Users = {u1}
    Owner <- SharedOwner
    Unhandled <- NoJobs
    Workers = {w1}
    Slots = {s1, s2}
    Proc <- SharedProc
    Publishers = {p1, p2}
    Events = {1, 2}
    Tokens = {1, 2, 3, 4}
    MaxRetries = 2
    MaxRunning = 1
    Prefetch = 2
    BatchSize = 2
    MaxFaults = 2
    MaxReady = 2
    NoTxn = NoTxn
    NoJob = NoJob
    NoEvent = NoEvent
    NoToken = NoToken
INVARIANTS
    NoLostDispatch
    AtMostOneUnpublished
    AttemptBudget
PROPERTIES
    OutcomeOfCurrentAttempt
    CancellationHonoured
    ImplementsLifecycle
CHECK_DEADLOCK FALSE

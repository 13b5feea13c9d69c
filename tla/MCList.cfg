SPECIFICATION FairSpec
CONSTANTS
    Users = {u1}
    Admin = Admin
    Readers = {1, 2}
    Scope <- AdminReads
    Writers = {w1, w2}
    Owner <- OneUser
    Invalidations <- AllWorkers
    MaxFaults = 1
    NoPage = NoPage
INVARIANTS
    TypeOK
    ServedFresh
PROPERTIES
    EventuallyFresh

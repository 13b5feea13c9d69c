SPECIFICATION FairSpec
CONSTANTS
    Jobs = {1, 2, 3}
    Users = {"u1", "u2"}
    Admin = Admin
    Owner <- MixedOwners
    Times = {1, 2}
    NoTime = NoTime
    Readers = {1, 2}
    Scope <- AdminAndOwner
    Limits = {NoLimit, 2}
    NoLimit = NoLimit
    DefaultLimit = 1
    MaxLimit = 2
    NoCursor = NoCursor
    MaxPages = 1
INVARIANTS
    TypeOK
    WalkComplete
    NothingTwice
    OwnJobsOnly
PROPERTIES
    WalkEnds

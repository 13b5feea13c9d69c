SPECIFICATION FairSpec
CONSTANTS
    Requests = {1, 2, 3, 4}
    Keys = {"k1", "k2"}
    KeyOf <- FourKeys
    Users = {u1}
    User <- OneUser
    Hashes = {"h1", "h2"}
    Hash <- FourHashes
    Limit = 1
    MaxWindow = 2
    MaxFailures = 1
    NoHash = NoHash
    NoRequest = NoRequest
INVARIANTS
    TypeOK
    OneJobPerKey
    ConflictFindsJob
    WithinLimit
    QuotaAccounted
PROPERTIES
    EveryoneAnswered
CHECK_DEADLOCK FALSE

SPECIFICATION Spec
CONSTANTS
    Requests = {1, 2, 3}
    Keys = {"k1", "k2"}
    KeyOf <- ThreeKeys
    Users = {u1}
    User <- OneUser
    Hashes = {"h1"}
    Hash <- SameHash
    Limit = 2
    MaxWindow = 1
    MaxFailures = 0
    NoHash = NoHash
    NoRequest = NoRequest
INVARIANTS
    ReplayConsumesNoQuota
CHECK_DEADLOCK FALSE

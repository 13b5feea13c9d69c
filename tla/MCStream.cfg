SPECIFICATION FairSpec
CONSTANTS
    Tokens = {}
    NoToken = NoToken
    MaxRetries = 3
    Clients = {c1}
    MaxCommits = 4
    MaxFaults = 1
INVARIANTS
    TypeOK
    TerminalIsTrue
PROPERTIES
    EventuallyTold
CHECK_DEADLOCK FALSE

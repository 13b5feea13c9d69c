SPECIFICATION FairSpec
CONSTANTS
    Registrations = {"reg1", "reg2"}
    Commands = {"cmd1", "cmd2"}
    Spellings = {"Ann", "ann"}
    Emails = {"Ann", "ann"}
    Normal <- Lowered
    Typed <- TypedEither
    Password <- OwnPassword
    Logins = {l1}
    Calls = {c1}
    TokenTtl = 2
    MaxTime = 3
    MaxFaults = 1
    NoUser = NoUser
    NoAnswer = NoAnswer
    NoToken = NoToken
INVARIANTS
    TypeOK
    OneAccountPerEmail
    RegistrationTruthful
    AdminStands
PROPERTIES
    TokensFollowAccount
    EveryoneAnswered
CHECK_DEADLOCK FALSE

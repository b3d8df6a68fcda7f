SPECIFICATION FairSpec
CONSTANTS
    Clients     = {"c1", "c2", "c3"}
    Settings    <- MCSettings
    Profiles    <- MCProfiles
    MaxInflight = 2
    Backlog     = 2
    MaxTries    = 2
    None        = None
INVARIANTS
    TypeOK
    ReplyNotMasked
    AdminAudit
PROPERTY CooperativeAnswered
CHECK_DEADLOCK FALSE

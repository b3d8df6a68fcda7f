SPECIFICATION CommandsSpec
CONSTANTS
    EnvNames     <- MCEnvNames
    BastionNames = {"b1"}
    CredNames    = {1}
    Hosts        = {"h1"}
    Keys         = {"k1"}
    Passwords    = {"p1"}
    ListenPorts  <- MCListenPorts
    ClientPorts  <- MCClientPorts
    Absent       = Absent
    Fragments    <- MCFragments
    MaxToken     = 2
    Modes        = {"channel", "direct"}
    Tofu         = FALSE
INVARIANTS
    CommandsTypeOK
    ConfigValid
    KeptIsShown
    VerdictIsTrue
CHECK_DEADLOCK FALSE

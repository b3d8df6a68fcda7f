SPECIFICATION FairSpec
CONSTANTS
    EnvNames      <- TwoEnvs
    BastionNames  = {"b1"}
    CredNames     = {"c1"}
    Hosts         = {"h1"}
    Keys          = {"k1", "k2"}
    Passwords     = {"p1"}
    ListenPorts   <- MCPorts
    ClientPorts   <- MCPorts
    Absent        = Absent
    Handlers      = {"r1"}
    Conns         = {"c1"}
    Ops           <- SessionOps
    BastionInputs <- BastionsH1
    EnvInputs     <- Tunnelled
    Fragments     <- NoImport
    MaxToken      = 2
    Presents      <- HonestHosts
    AllowTofu     = TRUE
    Loopback      = TRUE
    IdleOverride  = TRUE
    Faults        = TRUE
    StoreFaults   = TRUE
INVARIANTS
    SessionTokenFresh
PROPERTIES
    StoppedEnvDrains
    HandlersFinish

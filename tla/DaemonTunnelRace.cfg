SPECIFICATION Spec
CONSTANTS
    EnvNames      <- OneEnv
    BastionNames  = {"b1"}
    CredNames     = {"c1"}
    Hosts         = {"h1", "h2"}
    Keys          = {"k1", "k2"}
    Passwords     = {"p1"}
    ListenPorts   <- MCPorts
    ClientPorts   <- MCPorts
    Absent        = Absent
    Handlers      = {"r1", "r2"}
    Conns         = {}
    Ops           <- BastionOps
    BastionInputs <- PinnedEither
    EnvInputs     <- Tunnelled
    Fragments     <- NoImport
    MaxToken      = 2
    Presents      <- HonestHosts
    AllowTofu     = FALSE
    Loopback      = TRUE
    IdleOverride  = FALSE
    Faults        = FALSE
    StoreFaults   = FALSE
INVARIANT TunnelNotInherited

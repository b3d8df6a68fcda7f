SPECIFICATION Spec
CONSTANTS
    EnvNames      <- TwoEnvs
    BastionNames  = {"b1"}
    CredNames     = {"c1"}
    Hosts         = {"h1", "h2"}
    Keys          = {"k1", "k2"}
    Passwords     = {"p1", "p2"}
    ListenPorts   <- MCPorts
    ClientPorts   <- MCPorts
    Absent        = Absent
    Handlers      = {"r1"}
    Conns         = {}
    Ops           <- EveryOp
    BastionInputs <- BastionsEither
    EnvInputs     <- Mixed
    Fragments     <- ImportBoth
    MaxToken      = 3
    Presents      <- ShiftyHost
    AllowTofu     = TRUE
    Loopback      = FALSE
    IdleOverride  = FALSE
    Faults        = TRUE
    StoreFaults   = FALSE
INVARIANTS
    TypeOK
    LiveMatchesConfig
    RepinFailsClosed
    NoHandleReplaced
VIEW LoopsAside

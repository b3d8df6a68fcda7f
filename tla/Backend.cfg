SPECIFICATION Spec
CONSTANTS
    Envs        = {"fast", "slow"}
    Tunnelled   = {"fast"}
    Clients     = {"c1", "c2"}
    IdleTimeout <- MCIdleTimeout
    MaxSize     = 1
    Override    = 0
    Ceiling     = 5
    Dials       <- MCDials
    MaxBuilds   = 2
    MaxFaults   = 1
    None        = None
INVARIANTS
    TypeOK
    IdleClosedInTime
PROPERTY NoMidSessionBreak

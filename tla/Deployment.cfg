SPECIFICATION Spec
CONSTANTS
    OSes        = {"linux", "windows"}
    MaxCommands = 3
    MaxKeys     = 2
    UserDirFlag = TRUE
    None        = None
INVARIANTS
    TypeOK
    StartedUnitIsReady
    EditLandsWhereNamed
PROPERTY UninstallDeletesConfirmed
CHECK_DEADLOCK FALSE

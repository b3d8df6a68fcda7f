SPECIFICATION Spec
CONSTANTS
    Texts    <- MCTexts
    Denied   = {"delete", "delete_wide"}
    Wide     = {"delete_wide"}
    MaxAsked = 2
    MaxRows  = 3
    Stmts    = {"", "s1"}
    Portals  = {""}
    Params   = {"plain", "other"}
    Inlined  <- MCInlined
    Absent   = Absent
    SeqNums  = 4
    Engines  = {"postgres", "mysql", "mssql"}
INVARIANTS
    TypeOK
    ExecutedIsAudited
    MySqlAnswerIsFramed
PROPERTIES
    GatewaySpec
    PipelineStops
CHECK_DEADLOCK FALSE

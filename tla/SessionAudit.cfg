SPECIFICATION Spec
CONSTANTS
    Texts    <- MCTexts
    Denied   = {"delete", "delete_wide"}
    Wide     = {"delete_wide"}
    MaxAsked = 2
    MaxRows  = 1
    Stmts    = {""}
    Portals  = {""}
    Params   = {"plain", "other"}
    Inlined  <- MCInlined
    Absent   = Absent
    SeqNums  = 4
    Engines  = {"postgres"}
INVARIANT EveryDecisionAudited
CHECK_DEADLOCK FALSE

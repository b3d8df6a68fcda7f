SPECIFICATION JobSpec
CONSTANTS
    Funcs           = {"f", "load_file"}
    dangerous_funcs = {"load_file"}
    Vars            = {"time_zone", "sql_mode"}
    safe_set_vars   = {"time_zone"}
    DollarTags      = {"$a$"}
    Placeholder     <- MCPlaceholder
    ParsedTexts     <- MCTexts
    Templates       <- MCTemplates
    Values          <- MCValues
    Binds           <- MCBinds
INVARIANTS
    PolicyMonotone
    EachStandsAlone
    RenderedIsOperand
    BindKeepsStructure
CHECK_DEADLOCK FALSE

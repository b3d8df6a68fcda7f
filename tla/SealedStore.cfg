SPECIFICATION Spec
CONSTANTS
    Updates = {"u1", "u2", "u3"}
    Readers = {"r1", "r2"}
    MaxKey  = 2
    ReInit  = FALSE
    Absent  = Absent
    Torn    = Torn
INVARIANTS
    TypeOK
    SavedIsRecoverable
    ReadsAreFresh
PROPERTY RegisterSpec

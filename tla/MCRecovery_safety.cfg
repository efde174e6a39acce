SPECIFICATION Spec
CONSTANTS
    Rules = {r1, r2}
    Requests = {h1, h2, h3}
    MaxCount = 3
    MaxRecounts = 1
    MaxEdits = 1
SYMMETRY Interchangeable
CHECK_DEADLOCK FALSE
INVARIANTS
    TypeOK
    RecoveryHolds
    ResolutionIsTold

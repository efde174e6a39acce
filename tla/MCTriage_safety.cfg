SPECIFICATION Spec
CONSTANTS
    e1 = e1
    e2 = e2
    e3 = e3
    e4 = e4
    a1 = a1
    a2 = a2
    i1 = i1
    i2 = i2
    i3 = i3
    f1 = f1
    f2 = f2
    f3 = f3
    Events = {e1, e2, e3, e4}
    Admins = {a1, a2}
    Issues = {i1, i2, i3}
    Fingerprints = {f1, f2, f3}
    None = None
    PrintOf <- MCPrintOf
    Expired <- MCExpired
    NewPrints = {f2, f3}
SYMMETRY Interchangeable
CHECK_DEADLOCK FALSE
INVARIANTS
    TypeOK
    LostOnlyByRace
    CountsAgreeUnlessRaced

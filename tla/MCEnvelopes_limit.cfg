SPECIFICATION Spec
CONSTANTS
    r1 = r1
    r2 = r2
    r3 = r3
    h1 = h1
    s1 = s1
    s2 = s2
    e1 = e1
    e2 = e2
    Unsized = Unsized
    None = None
    MaxItems = 3
    MaxBytes = 1
    Requests = {r1, r2, r3, r4, r5, r6}
    Headers = {h1}
    EventIds = {}
    Services = {}
    Fields = {}
    Sent <- Nothing
    Bodies <- Unsent
    CutBodies <- Unsent
    HeaderOf <- SomeHeader
    Limit = 2
    Window = 2
    MaxNow = 2
    MaxFaults = 1
    MaxEdits = 0
SYMMETRY Interchangeable
CHECK_DEADLOCK FALSE
INVARIANTS
    LimitKept

SPECIFICATION FairSpec
CONSTANTS
    r1 = r1
    r2 = r2
    r3 = r3
    h1 = h1
    s1 = s1
    s2 = s2
    e1 = e1
    e2 = e2
    Unsized = Unsized
    None = None
    MaxItems = 3
    MaxBytes = 1
    Requests = {r1, r2, r3}
    Headers = {h1}
    EventIds = {e1, e2}
    Services = {s1, s2}
    Fields = {"type"}
    Sent <- MCSent
    Bodies <- MCBodies
    CutBodies <- MCCut
    HeaderOf <- OneHeader
    Limit = 3
    Window = 1
    MaxNow = 0
    MaxFaults = 1
    MaxEdits = 1
CHECK_DEADLOCK FALSE
INVARIANTS
    TypeOK
    StoredAsSent
    LogsCounted
    NoTraceOfSecrets
PROPERTIES
    Answered

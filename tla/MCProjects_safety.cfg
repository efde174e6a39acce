SPECIFICATION Spec
CONSTANTS
    p1 = p1  k1 = k1  k2 = k2  r1 = r1  r2 = r2  a1 = a1  a2 = a2
    None = None
    ProjectIds = {p1}
    Keys = {k1, k2}
    ProjectOf <- MCProjectOf
    Admins = {a1, a2}
    Requests = {r1, r2}
    CoolingOff = 2
SYMMETRY MCSymmetry
CHECK_DEADLOCK FALSE
INVARIANTS TypeOK PurgeIsDue ArchivingStops ArchivedIsRevoked

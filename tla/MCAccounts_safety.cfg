SPECIFICATION Spec
CONSTANTS
    u1 = u1  u2 = u2  s1 = s1  s2 = s2  i1 = i1
    a1 = a1  a2 = a2  g1 = g1  g2 = g2
    None = None
    Users = {u1, u2}
    Bootstrap = u1
    Sessions = {s1, s2}
    Handlers = {a1, a2}
    Invitations = {i1}
    InviteeOf <- MCInviteeOf
    Guests = {g1, g2}
SYMMETRY MCSymmetry
CHECK_DEADLOCK FALSE
INVARIANTS TypeOK AdminRemains SessionsEnd InvitationSpent

CONSTANTS
    r1 = r1  r2 = r2  r3 = r3  r4 = r4  e1 = e1  e2 = e2  p1 = p1  p2 = p2
    i1 = i1  i2 = i2  s1 = s1  s2 = s2  v1 = v1  q1 = q1  q2 = q2
    None = None
    Requests = {r1, r2}
    Events = {e1, e2}
    Projects = {p1}
    Issues = {i1, i2}
    Services = {s1, s2}
    Releases = {v1}
    Rules = {q1}
    EventOf <- PairEventOf
    ProjectOf <- OneProject
    IssueOf <- PairIssue
    ServiceOf <- PairService
    ReleaseOf <- NoRelease
    At <- SameTime
    Matches <- EveryRequest
    Tallied <- EveryRequest
    Threshold <- Twice
    Window <- One
    Cooldown <- One
    MaxNow = 0
    MaxFaults = 0
    MaxEdits = 0
SPECIFICATION Spec
CHECK_DEADLOCK FALSE
INVARIANTS ThresholdFires

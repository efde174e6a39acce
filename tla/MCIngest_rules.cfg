CONSTANTS
    r1 = r1  r2 = r2  r3 = r3  r4 = r4  e1 = e1  e2 = e2  p1 = p1  p2 = p2
    i1 = i1  i2 = i2  s1 = s1  s2 = s2  v1 = v1  q1 = q1  q2 = q2
    None = None
    Requests = {r1, r2}
    Events = {e1, e2}
    Projects = {p1}
    Issues = {i1, i2}
    Services = {s1, s2}
    Releases = {v1}
    Rules = {q1, q2}
    EventOf <- PairEventOf
    ProjectOf <- OneProject
    IssueOf <- PairIssue
    ServiceOf <- PairService
    ReleaseOf <- NoRelease
    At <- SameTime
    Matches <- EveryRequest
    Tallied <- EveryRequest
    Threshold <- Always
    Window <- One
    Cooldown <- One
    MaxNow = 3
    MaxFaults = 1
    MaxEdits = 1
SPECIFICATION FairSpec
CHECK_DEADLOCK FALSE
INVARIANTS CooldownKept
PROPERTIES DisabledIsSilent Answered

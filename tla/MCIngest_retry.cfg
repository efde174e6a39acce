CONSTANTS
    r1 = r1  r2 = r2  r3 = r3 r4 = r4  e1 = e1  e2 = e2  p1 = p1  p2 = p2
    i1 = i1  i2 = i2  s1 = s1  s2 = s2  v1 = v1  q1 = q1  q2 = q2
    None = None
    Requests = {r1, r2, r3, r4}
    Events = {e1, e2}
    Projects = {p1, p2}
    Issues = {i1, i2}
    Services = {s1, s2}
    Releases = {v1}
    Rules = {q1}
    EventOf <- CrowdEventOf
    ProjectOf <- CrowdProject
    IssueOf <- CrowdIssue
    ServiceOf <- CrowdService
    ReleaseOf <- CrowdRelease
    At <- CrowdTime
    Matches <- OfTheirProject
    Tallied <- OfTheirProject
    Threshold <- Always
    Window <- One
    Cooldown <- One
    MaxNow = 1
    MaxFaults = 1
    MaxEdits = 1
SPECIFICATION Spec
CHECK_DEADLOCK FALSE
INVARIANTS TypeOK AggregatesAgree AcceptedIsStored
PROPERTIES ImplementsPromise

CONSTANTS
    a0 = a0  a1 = a1  b0 = b0  ra = ra  rb = rb  w1 = w1  w2 = w2
    None = None
    Notifications <- MCNotifications
    Rules <- MCRules
    RuleOf <- MCRuleOf
    Successor <- MCSuccessor
    Workers = {w1}
    GiveUpAt = 0
    Lease = 1
    StepDelay = 1
    BatchLimit = 2
    MaxFaults = 1
    MaxReplays = 0
SPECIFICATION FairSpec
CHECK_DEADLOCK FALSE
PROPERTIES Settles

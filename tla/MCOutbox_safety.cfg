CONSTANTS
    a0 = a0  a1 = a1  b0 = b0  ra = ra  rb = rb  w1 = w1  w2 = w2
    None = None
    Notifications <- ChainNotifications
    Rules <- ChainRules
    RuleOf <- ChainRuleOf
    Successor <- ChainSuccessor
    Workers = {w1, w2}
    GiveUpAt = 1
    Lease = 1
    StepDelay = 1
    BatchLimit = 2
    MaxFaults = 1
    MaxReplays = 1
SYMMETRY WorkerSymmetry
SPECIFICATION Spec
CHECK_DEADLOCK FALSE
INVARIANTS TypeOK SingleHolder NoSpuriousDuplicate EscalationSound AttemptsBounded
PROPERTIES SentStaysSent ImplementsDelivery

SPECIFICATION FairSpec
CONSTANTS
    r = r
    s = s
    x = x
    y = y
    w1 = w1
    w2 = w2
    t1 = t1
    t2 = t2
    t3 = t3
    None = None
    Node = {r, s}
    Agent = {x}
    Worker = {w1, w2}
    Thread = {t1, t2}
    DependsOn <- ChainDependsOn
    Assignee <- HeadAssignee
    AutoDispatch = {r, s}
    FaultNode = {r}
    MaxAttempts = 2
    DefaultAttempts = 2
    BatchSize = 2
    MaxExpiries = 0
    Automation = {s}
    OnFailure <- MixedStrategy
    OnHard <- NoStrategy
    OnFailureAttempts = 3
    PolicyAttempts = 3
    FailureClasses = {"soft", "hard", "invalid"}
    Faults = {}
    Tools = {"dispatch"}
    Dispatchable = {"ready"}
PROPERTIES RunEnds
CHECK_DEADLOCK FALSE

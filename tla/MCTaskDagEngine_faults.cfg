SPECIFICATION EngineSpec
CONSTANTS
    r = r
    s = s
    x = x
    y = y
    w1 = w1
    w2 = w2
    t1 = t1
    t2 = t2
    t3 = t3
    None = None
    Node = {r}
    Agent = {x}
    Worker = {w1}
    Thread = {t1, t2}
    DependsOn <- OneDependsOn
    Assignee <- OneAssignee
    AutoDispatch = {r}
    FaultNode = {r}
    MaxAttempts = 2
    DefaultAttempts = 2
    BatchSize = 2
    MaxExpiries = 1
    Automation = {}
    OnFailure <- PatchStrategy
    OnHard <- ReplanStrategy
    OnFailureAttempts = 2
    PolicyAttempts = 2
    FailureClasses = {"soft", "hard", "invalid"}
    Faults = {"store", "stop", "prompt", "crash", "output"}
    Tools = {"restart", "dispatch", "update", "terminate"}
    Dispatchable = {"pending", "ready"}
SYMMETRY Symmetry
PROPERTIES StoreSpec
CHECK_DEADLOCK FALSE

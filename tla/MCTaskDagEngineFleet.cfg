SPECIFICATION FleetSpec
CONSTANTS
    r = r
    x = x
    None = None
    Node = {r}
    Agent = {x, y}
    Worker = {w1, w2}
    Thread = {t1, t2}
    DependsOn <- OneDependsOn
    Assignee <- OneAssignee
    AutoDispatch = {r}
    FaultNode = {}
    MaxAttempts = 1
    DefaultAttempts = 1
    BatchSize = 1
    MaxExpiries = 1
    Automation = {}
    OnFailure <- NoStrategy
    OnHard <- NoStrategy
    OnFailureAttempts = 2
    PolicyAttempts = 1
    FailureClasses = {}
    Faults = {"crash"}
    Tools = {"dispatch", "terminate"}
    Dispatchable = {"ready"}
SYMMETRY Symmetry
INVARIANTS SingleAgent TerminatedQuiet AutomationExclusive TurnNotLost SentIsTaken NoThreadLeftOver
CHECK_DEADLOCK FALSE

SPECIFICATION Spec
CONSTANTS
    r = r
    s = s
    p = p
    j = j
    q = q
    x = x
    None = None
    Node = {r}
    Agent = {x}
    Worker = {w1, w2}
    Thread = {t1}
    DependsOn <- SingleDependsOn
    Assignee <- SingleAssignee
    AutoDispatch = {r}
    FaultNode = {r}
    MaxAttempts = 2
    DefaultAttempts = 2
    BatchSize = 2
    MaxExpiries = 1
INVARIANTS AttemptBudget
PROPERTIES FinishedRunFrozen SettledWakeup
CHECK_DEADLOCK FALSE

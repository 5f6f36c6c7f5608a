SPECIFICATION Spec
CONSTANTS
    r = r
    s = s
    p = p
    j = j
    q = q
    x = x
    None = None
    Node = {r, s, p, j, q}
    Agent = {x}
    Worker = {}
    Thread = {}
    DependsOn <- DiamondDependsOn
    Assignee <- DiamondAssignee
    AutoDispatch = {r, s, j}
    FaultNode = {}
    MaxAttempts = 2
    DefaultAttempts = 2
    BatchSize = 1
    MaxExpiries = 1
INVARIANTS RunVerdict NoPendingBelowFailed NoLostPromotion StartAfterDependencies
PROPERTIES TerminalFrozen
CHECK_DEADLOCK FALSE

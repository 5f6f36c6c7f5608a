SPECIFICATION SchedulerSpec
CONSTANTS
    j1 = j1
    p1 = p1
    None = None
    Job = {j1}
    Proc = {p1}
    MaxClaims = 2
    MaxAttempts = 2
    QueueLimit = 1
    MaxClaim = 2
    LookupAttempts = 3
    MaxFaults = 1
    MaxCrashes = 1
    UserOps = {"once"}
INVARIANTS SingleLiveTurn RecoveryResolvesAll TablesAgree
PROPERTIES StoreSpec TerminalKept
CHECK_DEADLOCK FALSE

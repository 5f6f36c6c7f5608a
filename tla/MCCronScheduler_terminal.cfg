SPECIFICATION FairSchedulerSpec
CONSTANTS
    j1 = j1
    p1 = p1
    None = None
    Job = {j1}
    Proc = {p1}
    MaxClaims = 1
    MaxAttempts = 2
    QueueLimit = 1
    MaxClaim = 2
    LookupAttempts = 3
    MaxFaults = 0
    MaxCrashes = 0
    UserOps = {}
PROPERTIES OwnedTerminalApplied
CHECK_DEADLOCK FALSE

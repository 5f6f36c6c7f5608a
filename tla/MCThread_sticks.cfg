SPECIFICATION ThreadSpec
CONSTANTS
    k1 = k1
    k2 = k2
    k3 = k3
    Caller = {k1, k2, k3}
    None = None
    Ops <- MCOps
    First = {"stop"}
    Second = {"resume"}
    Third = {}
    MaxCalls = 2
    MaxSessions = 2
    Client = {c1}
    Fingerprint = {f1}
    Thread = {t1}
    Eager = {}
    Lifecycle = {}
    MaxLaunchCalls = 0
PROPERTIES StopSticks
CHECK_DEADLOCK FALSE

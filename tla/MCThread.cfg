SPECIFICATION ThreadSpec
CONSTANTS
    k1 = k1
    k2 = k2
    k3 = k3
    Caller = {k1, k2, k3}
    None = None
    Ops <- MCOps
    First = {"stop", "delete"}
    Second = {"resume", "recover", "unarchive"}
    Third = {"resolve", "read", "archive"}
    MaxCalls = 2
    MaxSessions = 2
    Client = {c1, c2, c3}
    Fingerprint = {f1, f2}
    Thread = {t1, t2}
    Eager = {f2}
    Lifecycle = {"stop", "archive", "delete", "unarchive"}
    MaxLaunchCalls = 4
SYMMETRY ThreadSymmetry
INVARIANTS NoStraySession OneThreadPerIntent IntentSpawnSerialized
PROPERTIES StopReapsSession  StoppedStays
CHECK_DEADLOCK FALSE

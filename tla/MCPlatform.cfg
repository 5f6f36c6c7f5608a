SPECIFICATION PlatformSpec
CONSTANTS
    Publisher = {p1, p2}
    Subscriber = {s1, s2}
    maxQueue = 2
    MaxEvents = 3
    Agent = {a1}
    Session = {u1, u2}
    Nil = Nil
    None = None
    MaxTimers = 3
    k1 = k1
    k2 = k2
    k3 = k3
    Caller = {k1, k2, k3}
    MaxSessions = 2
    MaxCalls = 3
INVARIANTS TimerNotLost OneTimerPerAgent QuietAfterShutdown
PROPERTIES StreamSpec PublisherReturns NothingStuck
CHECK_DEADLOCK FALSE

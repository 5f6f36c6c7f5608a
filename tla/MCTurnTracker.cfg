SPECIFICATION FairSpec
CONSTANTS
    t1 = t1
    a1 = a1
    a2 = a2
    q1 = q1
    q2 = q2
    Turn = {t1}
    Caller = {a1, a2}
    Request = {q1, q2}
    Overlap = FALSE
INVARIANTS LiveTurnFound StopDeliveredOnce RegisteredStopKept
PROPERTIES DecisionsStand StartedTurnSettles
CHECK_DEADLOCK FALSE

----------------------------- MODULE MCPlatform -----------------------------
(***************************************************************************)
(* One run for three small components that share no state: the event bus   *)
(* (EventGroup), the keepalive timers (CacheKeepalive) and, for its        *)
(* liveness, the lifecycle of a thread (ThreadLifecycle).  The run is      *)
(* their disjoint sum: an initial state picks one of them, the other two   *)
(* stay in theirs.  Fairness is asked of the one that runs.                *)
(***************************************************************************)
EXTENDS EventGroup, CacheKeepalive, TLC

CONSTANTS Caller, MaxSessions, MaxCalls, None, k1, k2, k3

VARIABLES
    which,                                              \* the component that runs
    entry, generation, made, open, flight, frame,       \* SessionManager
    status, binding, blocked, inFlight, recoveries, failure, calls, stops, by,
    bared, abandoned

\* One caller stops the thread, one resumes it, one resolves its session.
Roles == k1 :> {"stop"} @@ k2 :> {"resume"} @@ k3 :> {"resolve"}

Thread == INSTANCE ThreadLifecycle WITH Ops <- Roles

threadVars == <<entry, generation, made, open, flight, frame, status, binding,
                blocked, inFlight, recoveries, failure, calls, stops, by,
                bared, abandoned>>

PlatformInit ==
    /\ which \in {"bus", "keepalive", "thread"}
    /\ GroupInit
    /\ KeepaliveInit
    /\ Thread!LifecycleInit
    /\ which # "thread" => made = 0

PlatformNext ==
    /\ \/ /\ which = "bus"
          /\ GroupNext
          /\ UNCHANGED <<keepaliveVars, threadVars>>
       \/ /\ which = "keepalive"
          /\ KeepaliveNext
          /\ UNCHANGED <<groupVars, threadVars>>
       \/ /\ which = "thread"
          /\ Thread!LifecycleNext
          /\ UNCHANGED <<groupVars, keepaliveVars>>
    /\ UNCHANGED which

platformVars == <<which, groupVars, keepaliveVars, threadVars>>

PlatformSpec ==
    /\ PlatformInit
    /\ [][PlatformNext]_platformVars
    /\ \A x \in Subscriber : WF_groupVars(which = "bus" /\ Listen(x))
    /\ \A x \in Publisher : WF_groupVars(which = "bus" /\ Broadcasts(x))
    /\ \A x \in Caller : WF_threadVars(which = "thread" /\ Thread!Continues(x))

\* ThreadLifecycle!NothingStuck: a resolver that waits for the pending session
\* of a resume (waitPendingResume) is answered, unless the resume could not bind
\* the session's generation, and resumeBlocked does not outlive the stop that
\* set it, whichever of its steps fails.
NothingStuck == Thread!NothingStuck

=============================================================================

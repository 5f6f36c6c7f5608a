--------------------------- MODULE ThreadLifecycle ---------------------------
(***************************************************************************)
(* internal/module/thread: stopping, archiving, deleting, unarchiving and  *)
(* resuming one thread that has a provider binding, over the sessions of   *)
(* its agent (SessionManager).  A session comes back through four doors:   *)
(* an explicit Resume, the background resume that ReadMessages and         *)
(* Unarchive start, the recovery of a session whose provider failed, and   *)
(* the auto-resume of the session resolver.  What keeps a stopped thread   *)
(* down is a flag per agent (resumeBlocked), set before the runtime is     *)
(* torn down and cleared once the stop is durable, and then the stored     *)
(* status; a resume looks at both three times before it opens a session.   *)
(*                                                                         *)
(* A caller is a goroutine; the goroutine that backgroundResumeIfNeeded    *)
(* spawns last is the same caller going on.  A step is one access to the   *)
(* flag, the stores or the session table.  Interrupting the turn and       *)
(* stopping the agent in mcp-orch are calls that may fail.                 *)
(***************************************************************************)
EXTENDS SessionManager

CONSTANTS
    Ops,            \* Ops[c]: the operations caller c performs
    MaxCalls        \* bound on the calls made

VARIABLES
    status,         \* agent_threads.status, "gone" if there is no row
    binding,        \* the provider binding: "none", "live" or "archived"
    blocked,        \* resumeBlocked holds the agent
    inFlight,       \* resumeInFlight holds the agent
    recoveries,     \* sessionRecoveryCount
    failure,        \* the recovery worker has an AgentFailed event pending
    calls,          \* calls made so far
    stops,          \* history: how often the flag was set
    by,             \* history: the stop that wrote the status, 0 if none
    bared,          \* history: the stops whose flag somebody else deleted
    abandoned       \* history: the generation a failed bind left pending, or 0

thread == <<status, binding, blocked, inFlight, recoveries, failure>>
ghosts == <<bared, abandoned>>
history == <<calls, stops, by, ghosts>>
lifecycleVars == <<manager, frame, thread, history>>

MaxSessionRecoveryAttempts == 2

\* The statuses that keep a thread from being resumed.
Down == {"stopped", "archived"}

Stops == {"stop", "archive", "delete"}
Operation == Stops \cup {"unarchive", "resume", "read", "recover", "resolve"}

ASSUME LifecycleAssumption ==
    /\ None \notin Caller
    /\ Ops \in [Caller -> SUBSET Operation]
    /\ MaxSessions \in Nat /\ MaxCalls \in Nat

Idle == [pc |-> "idle", op |-> "none", gen |-> 0, sess |-> 0,
         check |-> "none", failed |-> FALSE, fresh |-> FALSE, seen |-> 0]

Ends(c) == frame' = [frame EXCEPT ![c] = Idle]

\* A resume registers its session pending, the resolver an active one.
Pending(c) == frame[c].op # "resolve"

\* A thread whose session runs, or one found in the stores after a restart.
LifecycleInit ==
    /\ \E n \in 0..1 :
          /\ entry = [gen |-> n, sess |-> n, pending |-> FALSE]
          /\ generation = n /\ made = n /\ open = 1..n
    /\ flight = None
    /\ frame = [c \in Caller |-> Idle]
    /\ status = "created" /\ binding = "live"
    /\ blocked = FALSE /\ inFlight = FALSE /\ recoveries = 0 /\ failure = FALSE
    /\ calls = 0 /\ stops = 0 /\ by = 0 /\ bared = {} /\ abandoned = 0

\* A step of caller c that touches only its frame.
Local == UNCHANGED <<manager, thread, history>>

-----------------------------------------------------------------------------
(***************************************************************************)
(* resumeLifecycleBlockReason: the flag and the binding first, then the    *)
(* row.  The check field says whose check it is; a check that passes goes  *)
(* on to Then(check), one that blocks ends the call, except for the check  *)
(* of evictZombieSession, which only skips the release of resumeInFlight.  *)
(***************************************************************************)
Then(check) == [first |-> "lookup", second |-> "snapshot", third |-> "clear",
                candidate |-> "probe", recovery |-> "count", again |-> "candidate",
                evict |-> "uncount"][check]

Checks(c, check) == frame' = [frame EXCEPT ![c].pc = "flag", ![c].check = check]

IsBlocked(c) ==
    IF frame[c].check = "evict" THEN Goes(c, "evicted") ELSE Ends(c)

\* seen remembers how many stops had set the flag when the last check of a
\* resume passed it.
resumeAgentLifecycleBlock(c) ==
    /\ frame[c].pc = "flag"
    /\ IF (binding # "none" /\ blocked) \/ binding = "archived"
       THEN IsBlocked(c)
       ELSE frame' = [frame EXCEPT ![c].pc = "row",
                        ![c].seen = IF frame[c].check = "third" /\ binding # "none"
                                    THEN stops ELSE 0]
    /\ Local

resumeLifecycleThreadBlock(c) ==
    /\ frame[c].pc = "row"
    /\ IF status \in Down THEN IsBlocked(c) ELSE Goes(c, Then(frame[c].check))
    /\ Local

Check(c) == resumeAgentLifecycleBlock(c) \/ resumeLifecycleThreadBlock(c)

-----------------------------------------------------------------------------
(***************************************************************************)
(* Resume.                                                                 *)
(***************************************************************************)

lookupResumeState(c) ==
    /\ frame[c].pc = "lookup"
    /\ IF status = "gone" \/ binding = "none" THEN Ends(c) ELSE Checks(c, "second")
    /\ Local

resolveResumePromptSnapshot(c) ==
    /\ frame[c].pc = "snapshot"
    /\ Checks(c, "third") \/ Ends(c) \/ Goes(c, "degrade")
    /\ Local

\* establishResumedSession drops whatever session there is before it launches
\* the agent, which may fail, and resumes.
ClearSession(c) ==
    /\ frame[c].pc = "clear"
    /\ RemoveCurrent
    /\ Goes(c, "flight") \/ Ends(c)
    /\ UNCHANGED <<generation, made, flight, thread, history>>

\* bindSessionGeneration: without a generation, or when it cannot be bound, the
\* resume is given up and the entry of the session stays as it is.
bindSessionGeneration(c) ==
    /\ frame[c].pc = "opened" /\ Pending(c)
    /\ \/ /\ Registered
          /\ frame' = [frame EXCEPT ![c].pc = "persist", ![c].gen = 0, ![c].sess = 0]
          /\ UNCHANGED abandoned
       \/ /\ Ends(c)
          /\ abandoned' = IF entry.pending THEN entry.gen ELSE abandoned
    /\ UNCHANGED <<manager, thread, calls, stops, by, bared>>

ensurePublicThreadAvailable(c) ==
    /\ frame[c].pc = "persist"
    /\ \/ ~(status # "gone" /\ binding = "none") /\ Goes(c, "bind")
       \/ Goes(c, "cleanup")
    /\ Local

\* fresh remembers that the binding is this call's, for the rollback.
registerThreadBinding(c) ==
    /\ frame[c].pc = "bind"
    /\ \/ /\ binding' = IF binding = "none" THEN "live" ELSE binding
          /\ frame' = [frame EXCEPT ![c].pc = "upsert",
                                    ![c].fresh = (binding = "none")]
       \/ /\ Goes(c, "cleanup")
          /\ UNCHANGED binding
    /\ UNCHANGED <<manager, status, blocked, inFlight, recoveries, failure, history>>

\* The row is written as created, whatever its status was.
upsertPublicThread(c) ==
    /\ frame[c].pc = "upsert"
    /\ \/ /\ status' = "created"
          /\ by' = 0
          /\ Goes(c, "activate")
          /\ UNCHANGED binding
       \/ /\ binding' = IF frame[c].fresh THEN "none" ELSE binding
          /\ Goes(c, "cleanup")
          /\ UNCHANGED <<status, by>>
    /\ UNCHANGED <<manager, blocked, inFlight, recoveries, failure, calls, stops, ghosts>>

cleanupFailedResumeRuntime(c) ==
    /\ frame[c].pc = "cleanup"
    /\ RemoveCurrent
    /\ Ends(c)
    /\ UNCHANGED <<generation, made, flight, thread, history>>

\* The end of a successful resume and of the background goroutine around it,
\* which keeps resumeInFlight when the resume fails, against retry storms.
activateResumedSession(c) ==
    /\ frame[c].pc = "activate"
    /\ IF Registered THEN ActivateSession ELSE UNCHANGED entry
    /\ inFlight' = (inFlight /\ frame[c].op = "resume")
    /\ Ends(c)
    /\ UNCHANGED <<generation, made, open, flight>>
    /\ UNCHANGED <<status, binding, blocked, recoveries, failure, history>>

SessionNotResumed(c) ==
    /\ frame[c].pc \in {"failed", "lost"}
    /\ IF Pending(c) /\ frame[c].pc = "lost" THEN Goes(c, "degrade") ELSE Ends(c)
    /\ Local

\* degradeLostResume: binding, then row, then the flag; an error stops it.
degradeBinding(c) ==
    /\ frame[c].pc = "degrade"
    /\ \/ binding' = "none" /\ Goes(c, "degraded")
       \/ UNCHANGED binding /\ Ends(c)
    /\ UNCHANGED <<manager, status, blocked, inFlight, recoveries, failure, history>>

degradeThread(c) ==
    /\ frame[c].pc = "degraded"
    /\ \/ /\ status # "gone"
          /\ status' = "failed" /\ by' = 0
          /\ inFlight' = FALSE
       \/ UNCHANGED <<status, by, inFlight>>
    /\ Ends(c)
    /\ UNCHANGED <<manager, binding, blocked, recoveries, failure, calls, stops, ghosts>>

Resume(c) ==
    \/ lookupResumeState(c)
    \/ resolveResumePromptSnapshot(c)
    \/ ClearSession(c)
    \/ bindSessionGeneration(c)
    \/ ensurePublicThreadAvailable(c)
    \/ registerThreadBinding(c)
    \/ upsertPublicThread(c)
    \/ cleanupFailedResumeRuntime(c)
    \/ activateResumedSession(c)
    \/ SessionNotResumed(c)
    \/ degradeBinding(c)
    \/ degradeThread(c)

-----------------------------------------------------------------------------
(***************************************************************************)
(* The background resume and what starts it.                               *)
(***************************************************************************)
backgroundResumeCandidate(c) ==
    /\ frame[c].pc = "candidate"
    /\ IF binding = "none" THEN Ends(c) ELSE Checks(c, "candidate")
    /\ Local

ProbeSession(c) ==
    /\ frame[c].pc = "probe"
    /\ IF Visible THEN Ends(c) ELSE Goes(c, "claim")
    /\ Local

backgroundResumeIfNeeded(c) ==
    /\ frame[c].pc = "claim"
    /\ inFlight' = TRUE
    /\ IF inFlight THEN Ends(c) ELSE Checks(c, "first")
    /\ UNCHANGED <<manager, status, binding, blocked, recoveries, failure, history>>

evictZombieSession(c) ==
    /\ frame[c].pc = "evict"
    /\ IF binding = "none"
       THEN Goes(c, "evicted") /\ UNCHANGED <<entry, open>>
       ELSE RemoveCurrent /\ Checks(c, "evict")
    /\ UNCHANGED <<generation, made, flight, thread, history>>

ReleaseInFlight(c) ==
    /\ frame[c].pc = "uncount"
    /\ inFlight' = FALSE
    /\ Goes(c, "evicted")
    /\ UNCHANGED <<manager, status, binding, blocked, recoveries, failure, history>>

\* Unarchive resumes at once, a recovery waits and checks once more.
Evicted(c) ==
    /\ frame[c].pc = "evicted"
    /\ IF frame[c].op = "recover" THEN Checks(c, "again") ELSE Goes(c, "candidate")
    /\ Local

\* onAgentFailed, drainPending and the head of processSessionRecovery.
processSessionRecovery(c) ==
    /\ failure
    /\ failure' = FALSE
    /\ frame' = [frame EXCEPT ![c].pc = "flag", ![c].op = "recover",
                              ![c].check = "recovery"]
    /\ UNCHANGED <<manager, status, binding, blocked, inFlight, recoveries, history>>

incrSessionRecoveryCount(c) ==
    /\ frame[c].pc = "count"
    /\ recoveries' = recoveries + 1
    /\ IF recoveries' > MaxSessionRecoveryAttempts THEN Ends(c) ELSE Goes(c, "evict")
    /\ UNCHANGED <<manager, status, binding, blocked, inFlight, failure, history>>

Background(c) ==
    \/ backgroundResumeCandidate(c)
    \/ ProbeSession(c)
    \/ backgroundResumeIfNeeded(c)
    \/ evictZombieSession(c)
    \/ ReleaseInFlight(c)
    \/ Evicted(c)
    \/ incrSessionRecoveryCount(c)

-----------------------------------------------------------------------------
(***************************************************************************)
(* resolveThreadSession: the row, the table, the binding, the row again,   *)
(* and then an auto-resume.  It never looks at resumeBlocked.              *)
(***************************************************************************)
resolveThreadSession(c) ==
    /\ frame[c].pc = "resolve"
    /\ IF status \in Down \cup {"gone"} THEN Ends(c) ELSE Goes(c, "find")
    /\ Local

FindSession(c) ==
    /\ frame[c].pc = "find"
    /\ IF Visible THEN Ends(c) ELSE Goes(c, "owner")
    /\ Local

lookupAutoResumeBindingByAgentID(c) ==
    /\ frame[c].pc = "owner"
    /\ IF binding = "live" THEN Goes(c, "reject") ELSE Ends(c)
    /\ Local

rejectBindingAutoResumeLifecycle(c) ==
    /\ frame[c].pc = "reject"
    /\ IF status \in Down THEN Ends(c) ELSE Goes(c, "flight")
    /\ Local

AutoResumed(c) ==
    /\ frame[c].pc = "opened" /\ ~Pending(c)
    /\ Ends(c)
    /\ Local

Resolver(c) ==
    \/ resolveThreadSession(c)
    \/ FindSession(c)
    \/ lookupAutoResumeBindingByAgentID(c)
    \/ rejectBindingAutoResumeLifecycle(c)
    \/ AutoResumed(c)

-----------------------------------------------------------------------------
(***************************************************************************)
(* Stop, Archive and Delete: stopThreadRuntimeUntilDurable, the durable    *)
(* write, and the release of the flag on every path.  seen is the number   *)
(* of this stop.                                                           *)
(***************************************************************************)
blockResumeForAgentUntilDurable(c) ==
    /\ frame[c].pc = "block"
    /\ blocked' = TRUE
    /\ stops' = stops + 1
    /\ frame' = [frame EXCEPT ![c].pc = "generation", ![c].seen = stops + 1]
    /\ UNCHANGED <<manager, status, binding, inFlight, recoveries, failure, calls, by, ghosts>>

\* closeSessionForAgent: generation first, then the session, then its close.
SessionGeneration(c) ==
    /\ frame[c].pc = "generation"
    /\ frame' = [frame EXCEPT ![c].pc = "get", ![c].gen = entry.gen]
    /\ Local

\* As GetSession, with nothing removed when Get finds no session.
GetSessionOrSkip(c) ==
    /\ frame[c].pc = "get"
    /\ frame' = [frame EXCEPT ![c].pc = IF Visible THEN "close" ELSE "agent",
                              ![c].sess = entry.sess]
    /\ Local

GetSession(c) ==
    /\ frame[c].pc = "get"
    /\ frame' = [frame EXCEPT ![c].pc = IF Visible THEN "close" ELSE "remove",
                              ![c].sess = entry.sess]
    /\ Local

CloseSession(c) ==
    /\ frame[c].pc = "close"
    /\ \E ok \in BOOLEAN :
          /\ frame' = [frame EXCEPT ![c].pc = "remove", ![c].failed = ~ok]
          /\ open' = IF ok THEN open \ {frame[c].sess} ELSE open
    /\ UNCHANGED <<entry, generation, made, flight, thread, history>>

removeStoppedSession(c) ==
    /\ frame[c].pc = "remove"
    /\ IF frame[c].gen # 0 THEN Remove(frame[c].gen) ELSE RemoveCurrent
    /\ Goes(c, IF frame[c].failed THEN "release" ELSE "agent")
    /\ UNCHANGED <<generation, made, flight, thread, history>>


\* An agent that does not stop gives the operation up, and so does a failed
\* interrupt of the turn, which Stop alone puts up with.
stopManagedAgent(c) ==
    /\ frame[c].pc = "agent"
    /\ Goes(c, "durable") \/ Goes(c, "release")
    /\ Local

updateThreadStatus(c) ==
    /\ frame[c].op = "stop"
    /\ status # "gone"
    /\ status' = "stopped"
    /\ Goes(c, "release")
    /\ UNCHANGED binding

\* SetArchiveState writes the row and the binding in one transaction.
persistArchiveState(c) ==
    /\ frame[c].op = "archive"
    /\ status # "gone" /\ binding # "none"
    /\ status' = "archived"
    /\ binding' = "archived"
    /\ Goes(c, "release")

deleteThreadBinding(c) ==
    /\ frame[c].op = "delete"
    /\ binding' = "none"
    /\ Goes(c, "delete")
    /\ UNCHANGED status

Durable(c) ==
    /\ frame[c].pc = "durable"
    /\ \/ /\ updateThreadStatus(c) \/ persistArchiveState(c)
          /\ by' = frame[c].seen
       \/ /\ deleteThreadBinding(c)
          /\ UNCHANGED by
       \/ /\ Goes(c, "release")
          /\ UNCHANGED <<status, binding, by>>
    /\ UNCHANGED <<manager, blocked, inFlight, recoveries, failure, calls, stops, ghosts>>

deleteThreadState(c) ==
    /\ frame[c].pc = "delete"
    /\ \/ status' = "gone" /\ by' = 0
       \/ UNCHANGED <<status, by>>
    /\ Goes(c, "release")
    /\ UNCHANGED <<manager, binding, blocked, inFlight, recoveries, failure, calls, stops, ghosts>>

\* The flag has no owner: deleting it bares every other stop under way.
UnderWay == {c \in Caller : frame[c].op \in Stops /\ frame[c].pc # "block"}
Bares(others) == bared' = bared \cup {frame[c].seen : c \in others}

releaseResume(c) ==
    /\ frame[c].pc = "release"
    /\ blocked' = FALSE
    /\ Bares(UnderWay \ {c})
    /\ Ends(c)
    /\ UNCHANGED <<manager, status, binding, inFlight, recoveries, failure>>
    /\ UNCHANGED <<calls, stops, by, abandoned>>

StopRuntime(c) ==
    \/ blockResumeForAgentUntilDurable(c)
    \/ SessionGeneration(c)
    \/ GetSession(c)
    \/ CloseSession(c)
    \/ removeStoppedSession(c)
    \/ stopManagedAgent(c)
    \/ Durable(c)
    \/ deleteThreadState(c)
    \/ releaseResume(c)

-----------------------------------------------------------------------------
(***************************************************************************)
(* Unarchive.                                                              *)
(***************************************************************************)
Unarchive(c) ==
    /\ frame[c].pc = "unarchive"
    /\ \/ /\ status # "gone" /\ binding # "none"
          /\ status' = "created" /\ by' = 0
          /\ binding' = "live"
          /\ Goes(c, "unblock")
       \/ /\ Ends(c)
          /\ UNCHANGED <<status, binding, by>>
    /\ UNCHANGED <<manager, blocked, inFlight, recoveries, failure, calls, stops, ghosts>>

\* Without a binding the thread id is the key, and nothing is kept under it.
unblockResumeForThread(c) ==
    /\ frame[c].pc = "unblock"
    /\ blocked' = (blocked /\ binding = "none")
    /\ Bares(IF binding = "none" THEN {} ELSE UnderWay)
    /\ recoveries' = IF binding = "none" THEN recoveries ELSE 0
    /\ Goes(c, "evict")
    /\ UNCHANGED <<manager, status, binding, inFlight, failure>>
    /\ UNCHANGED <<calls, stops, by, abandoned>>

-----------------------------------------------------------------------------
(***************************************************************************)
(* The specification.                                                      *)
(***************************************************************************)
Entrance == [stop |-> "block", archive |-> "block", delete |-> "block",
             unarchive |-> "unarchive", resume |-> "flag", read |-> "candidate",
             resolve |-> "resolve"]

\* A lifecycle operation finds its binding first, and fails without one.
Begins(c) ==
    /\ frame[c].pc = "idle"
    /\ calls < MaxCalls
    /\ \E op \in Ops[c] \cap DOMAIN Entrance :
          /\ op \in Stops \cup {"unarchive", "read"} => binding # "none"
          /\ frame' = [frame EXCEPT ![c].pc = Entrance[op], ![c].op = op,
                          ![c].check = IF op = "resume" THEN "first" ELSE "none"]
    /\ calls' = calls + 1
    /\ UNCHANGED <<manager, thread, stops, by, ghosts>>

Recovers(c) ==
    /\ frame[c].pc = "idle" /\ "recover" \in Ops[c]
    /\ processSessionRecovery(c)

\* The provider process of the registered session ends by itself, and its
\* driver publishes a recoverable AgentFailed.
SessionDies ==
    /\ entry.sess \in open
    /\ open' = open \ {entry.sess}
    /\ failure' = TRUE
    /\ UNCHANGED <<entry, generation, made, flight, frame>>
    /\ UNCHANGED <<status, binding, blocked, inFlight, recoveries, history>>

ResumeSession(c) == resumeSession(c, Pending(c)) /\ UNCHANGED <<thread, history>>

Continues(c) ==
    \/ Check(c) \/ Resume(c) \/ Background(c) \/ Resolver(c) \/ StopRuntime(c)
    \/ Unarchive(c) \/ unblockResumeForThread(c) \/ ResumeSession(c)

GivesUp(c) == CancelWait(c) /\ UNCHANGED <<thread, history>>

LifecycleNext ==
    \/ \E c \in Caller : Begins(c) \/ Recovers(c) \/ Continues(c) \/ GivesUp(c)
    \/ SessionDies

LifecycleSpec == LifecycleInit /\ [][LifecycleNext]_lifecycleVars

\* A goroutine that can run does; calls and provider failures come as they may.
LifecycleFairness == \A c \in Caller : WF_lifecycleVars(Continues(c))

FairLifecycleSpec == LifecycleSpec /\ LifecycleFairness

-----------------------------------------------------------------------------
(***************************************************************************)
(* Properties.                                                             *)
(***************************************************************************)

\* The stores, the flags and the table hold what their types say, and the
\* executor of the shared resume is a caller inside it.
LifecycleTypeOK ==
    /\ status \in Down \cup {"created", "failed", "gone"}
    /\ binding \in {"none", "live", "archived"}
    /\ {blocked, inFlight, failure} \subseteq BOOLEAN
    /\ recoveries \in Nat
    /\ entry \in Entry /\ entry.gen <= generation
    /\ open \subseteq 1..made
    /\ IF flight = None THEN \A c \in Caller : frame[c].pc # "joined"
       ELSE frame[flight].pc \in {"current", "open", "register", "reread"}

\* Every running provider session is in the table or is being registered by
\* its opener: a replaced, removed or failed session was closed.
NoStraySession ==
    open \subseteq {entry.sess} \cup
                   {frame[c].sess : c \in {d \in Caller : frame[d].pc = "register"}}

\* Of the resumes of an agent one opens a session and the others take it over:
\* registration never finds, and so never stops, the session of another.
ResumeReplacesNone ==
    [][\A c \in Caller :
          frame[c].pc = "register" /\ frame'[c].pc = "reread"
             => ~Registered]_lifecycleVars

\* When a stop, an archive or a delete writes what makes it durable, the session
\* it found registered is out of the table, also one that was pending and that
\* Get does not show.
StopReapsSession ==
    [][\A c \in Caller :
          frame[c].pc = "durable" /\ frame'[c].pc # "durable"
             => entry.gen = 0 \/ entry.gen > frame[c].gen]_lifecycleVars


\* Stop and resume running concurrently do not bring the session back: only
\* Unarchive takes a thread out of stopped or archived.
StopSticks ==
    [][(status \in Down /\ status' = "created")
          => \E c \in Caller : frame[c].pc = "unarchive"]_lifecycleVars

\* A resolver that waits for a pending session is answered, because the entry is
\* activated, removed or replaced, unless bindSessionGeneration failed in the
\* resume: then the entry stays pending and only the resolver's context ends
\* its wait.
PendingWaitEnds ==
    \A c \in Caller :
       frame[c].pc = "wait" ~> frame[c].pc # "wait" \/ frame[c].gen = abandoned

\* The flag that blocks resumes is released, on the error paths too.
BlockReleased == blocked ~> ~blocked

\* Neither a resolver in waitPendingResume nor the resumes that
\* blockResumeForAgentUntilDurable holds off are left stuck by a failure, that
\* of bindSessionGeneration excepted.
NothingStuck == PendingWaitEnds /\ BlockReleased

=============================================================================

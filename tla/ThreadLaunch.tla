---------------------------- MODULE ThreadLaunch ----------------------------
(***************************************************************************)
(* internal/module/thread: how a thread is started, once.  thread/start    *)
(* with a launch intent id goes through the idempotency registry; a thread *)
(* whose provider is deferred gets a pending_launch row, and the first     *)
(* turn/start makes SpawnIfNeeded launch its provider under a mutex kept   *)
(* in a map by thread id.  Stop, Archive, Unarchive and Delete of a        *)
(* pending thread take the same mutex.  The intent is complete, and its    *)
(* key forgotten, when the first turn was submitted or the pending thread  *)
(* was stopped, archived or deleted.                                       *)
(*                                                                         *)
(* One launch intent id; each caller is one goroutine, in one RPC at a     *)
(* time.  The accesses to the maps, the rows and the mutex are the steps.  *)
(* A mutex is a number, and a number nobody refers to is a new mutex.      *)
(***************************************************************************)
EXTENDS IdempotencyRegistry, FiniteSets

CONSTANTS
    Thread,         \* the thread ids that may be generated
    Eager,          \* the fingerprints of requests that do not defer the provider
    Lifecycle,      \* the lifecycle RPCs that are used: "stop", "archive", "delete", "unarchive"
    MaxCalls        \* bound: the RPCs made in a behaviour

VARIABLES
    row,        \* agent_threads: the thread's row
    byThread,   \* launchIntentByThread: the threads mapped to the intent id
    mutex,      \* pendingLaunchMu: the mutex stored for the thread, or 0
    calls,      \* the number of RPCs made (for the bound)
    byIntent,   \* history: the threads the intent created
    reopened,   \* history: the threads that were unarchived
    forgotten   \* history: has the key been forgotten?

launchVars == <<fprint, result, flight, frame, row, byThread, mutex, calls, byIntent, reopened, forgotten>>
history == <<calls, byIntent, reopened, forgotten>>

Mutex == 1 .. Cardinality(Caller) + Cardinality(Thread)

Status == {"none", "created", "failed", "stopped", "archived", "deleted"}

Row(status, pending) == [status |-> status, pending |-> pending]
NoRow == Row("none", FALSE)
PendingRow == Row("created", TRUE)
LaunchedRow == Row("created", FALSE)
DeletedRow == Row("deleted", FALSE)

Exists(t) == row[t].status \notin {"none", "deleted"}
IsPending(t) == Exists(t) /\ row[t].pending

IdleFrame ==
    [op |-> "none", pc |-> "idle", fp |-> None, leader |-> None, out |-> NoOutcome, thread |-> None, mu |-> 0]

\* The caller's RPC returns; a deferred Unlock is part of it.
Ends(c) == [frame EXCEPT ![c] = IdleFrame]

LaunchInit ==
    /\ fprint = None /\ result = None /\ flight = None
    /\ frame = [c \in Caller |-> IdleFrame]
    /\ row = [t \in Thread |-> NoRow]
    /\ byThread = {}
    /\ mutex = [t \in Thread |-> 0]
    /\ calls = 0 /\ byIntent = {} /\ reopened = {} /\ forgotten = FALSE

(***************************************************************************)
(* thread/start.                                                           *)
(***************************************************************************)
Fresh(t) == row[t] = NoRow

\* An RPC arrives.
Arrives(c) == frame[c].pc = "idle" /\ calls < MaxCalls /\ calls' = calls + 1

\* Start with a launch intent id calls the registry.
StartWithIntent(c) ==
    /\ Arrives(c)
    /\ \E fp \in Fingerprint :
          frame' = [frame EXCEPT ![c] = [IdleFrame EXCEPT !.op = "start", !.pc = "reserve", !.fp = fp]]
    /\ UNCHANGED <<registry, row, byThread, mutex, byIntent, reopened, forgotten>>

\* Start without one: startOnce, here of a deferred thread.
StartWithoutIntent(c) ==
    /\ Arrives(c)
    /\ \E t \in Thread : Fresh(t) /\ row' = [row EXCEPT ![t] = PendingRow]
    /\ UNCHANGED <<registry, frame, byThread, mutex, byIntent, reopened, forgotten>>

DoStart(c) == Do(c) /\ UNCHANGED <<row, byThread, mutex, history>>

\* startOnce fails before it wrote a row, or after it took back what it wrote.
StartOnceFails(c) ==
    /\ frame[c].pc = "run"
    /\ \E kind \in IF frame[c].fp \in Eager THEN {"failed", "retained"} ELSE {"failed"} :
          Executed(c, Outcome(kind, frame[c].fp, None))
    /\ UNCHANGED <<row, byThread, mutex, history>>

\* startPendingThread: the pending row and its mapping; the thread is announced.
startPendingThread(c) ==
    /\ frame[c].pc = "run" /\ frame[c].fp \notin Eager
    /\ \E t \in Thread :
          /\ Fresh(t)
          /\ row' = [row EXCEPT ![t] = PendingRow]
          /\ byThread' = byThread \cup {t}
          /\ byIntent' = byIntent \cup {t}
          /\ frame' = [frame EXCEPT ![c].pc = "announced", ![c].thread = t]
    /\ UNCHANGED <<registry, mutex, calls, reopened, forgotten>>

\* completeStart: provider, row, binding and snapshot; the thread is announced.
completeStart(c) ==
    /\ frame[c].pc = "run" /\ frame[c].fp \in Eager
    /\ \E t \in Thread :
          /\ Fresh(t)
          /\ row' = [row EXCEPT ![t] = LaunchedRow]
          /\ byIntent' = byIntent \cup {t}
          /\ frame' = [frame EXCEPT ![c].pc = "announced", ![c].thread = t]
    /\ UNCHANGED <<registry, byThread, mutex, calls, reopened, forgotten>>

StartOnceReturns(c) ==
    /\ frame[c].pc = "announced"
    /\ Executed(c, Outcome("value", frame[c].fp, frame[c].thread))
    /\ UNCHANGED <<row, byThread, mutex, history>>

\* Start returns; the thread it answers with is mapped to the intent (again).
StartReturns(c) ==
    /\ frame[c].op = "start" /\ frame[c].pc = "return"
    /\ byThread' = IF frame[c].out.kind = "value" THEN byThread \cup {frame[c].out.val} ELSE byThread
    /\ frame' = Ends(c)
    /\ UNCHANGED <<registry, row, mutex, history>>

(***************************************************************************)
(* The mutex of a pending thread.                                          *)
(***************************************************************************)
MutexInUse == {mutex[t] : t \in Thread} \cup {frame[c].mu : c \in Caller}
NewMutex(m) == m \in Mutex \ MutexInUse /\ \A k \in 1 .. m - 1 : k \in MutexInUse

Holds(c, m) == frame[c].mu = m /\ frame[c].pc # "lock"

\* acquirePendingLaunchLock: LoadOrStore of the thread's mutex.
acquirePendingLaunchLock(c, op, t) ==
    \E m \in Mutex :
       /\ IF mutex[t] = 0 THEN NewMutex(m) ELSE m = mutex[t]
       /\ mutex' = [mutex EXCEPT ![t] = m]
       /\ frame' = [frame EXCEPT ![c] = [IdleFrame EXCEPT !.op = op, !.pc = "lock", !.thread = t, !.mu = m]]

CallPending(c, op) ==
    /\ Arrives(c)
    /\ \E t \in Thread : Exists(t) /\ acquirePendingLaunchLock(c, op, t)
    /\ UNCHANGED <<registry, row, byThread, byIntent, reopened, forgotten>>

Lock(c) ==
    /\ frame[c].pc = "lock"
    /\ \A d \in Caller \ {c} : ~Holds(d, frame[c].mu)
    /\ frame' = Goes(c, "locked")
    /\ UNCHANGED <<registry, row, byThread, mutex, history>>

(***************************************************************************)
(* SpawnIfNeeded.                                                          *)
(***************************************************************************)
\* MappedError: a retained launch error of the intent is the answer.
SpawnChecksIntent(c) ==
    /\ frame[c].op = "spawn" /\ frame[c].pc = "locked"
    /\ frame' = IF frame[c].thread \in byThread /\ HasError THEN Ends(c) ELSE Goes(c, "row")
    /\ UNCHANGED <<registry, row, byThread, mutex, history>>

\* A row is spawned whatever its status (for mutation).
loadAnyPendingRow(c) ==
    /\ frame[c].op = "spawn" /\ frame[c].pc = "row"
    /\ frame' = IF IsPending(frame[c].thread) THEN Goes(c, "spawn") ELSE Ends(c)
    /\ UNCHANGED <<registry, row, byThread, mutex, history>>

\* loadPendingLaunchRow: only a row that is pending and created is spawned.
loadPendingLaunchRow(c) ==
    /\ frame[c].op = "spawn" /\ frame[c].pc = "row"
    /\ frame' = IF IsPending(frame[c].thread) /\ row[frame[c].thread].status = "created"
                  THEN Goes(c, "spawn") ELSE Ends(c)
    /\ UNCHANGED <<registry, row, byThread, mutex, history>>

\* runPendingSpawn up to the launch of the provider, which may fail.
runPendingSpawn(c) ==
    /\ frame[c].pc = "spawn"
    /\ \E pc \in {"launched", "failed"} : frame' = Goes(c, pc)
    /\ UNCHANGED <<registry, row, byThread, mutex, history>>

(***************************************************************************)
(* persistStartedSession: the row is no longer pending; or it fails before *)
(* it wrote the row; or the snapshot fails and the row is deleted again.   *)
(***************************************************************************)
persistStartedSession(c) ==
    LET t == frame[c].thread
    IN  /\ frame[c].pc = "launched"
        /\ \/ row' = [row EXCEPT ![t] = LaunchedRow] /\ frame' = Goes(c, "persisted")
           \/ frame' = Goes(c, "failed") /\ UNCHANGED row
           \/ row' = [row EXCEPT ![t] = DeletedRow] /\ frame' = Goes(c, "failed")
        /\ UNCHANGED <<registry, byThread, mutex, history>>

\* The mutex is dropped from the map, then the launch is published, which may fail.
publishPendingSpawnLaunched(c) ==
    /\ frame[c].pc = "persisted"
    /\ mutex' = [mutex EXCEPT ![frame[c].thread] = 0]
    /\ frame' \in {Ends(c), Goes(c, "failed")}
    /\ UNCHANGED <<registry, row, byThread, history>>

\* The mutex is dropped before the failure is recorded (for mutation).
cleanupUnlocksFirst(c) ==
    LET t == frame[c].thread
    IN  /\ frame[c].pc = "failed"
        /\ mutex' = [mutex EXCEPT ![t] = 0]
        /\ \/ t \notin byThread /\ frame' = Ends(c)
           \/ t \in byThread /\ frame' = Goes(c, "mark")
        /\ UNCHANGED <<registry, row, byThread, history>>

\* cleanupFailedPendingLaunch: without an intent the thread stays as it was.
cleanupFailedPendingLaunch(c) ==
    LET t == frame[c].thread
    IN  /\ frame[c].pc = "failed"
        /\ \/ /\ t \notin byThread
              /\ mutex' = [mutex EXCEPT ![t] = 0]
              /\ frame' = Ends(c)
              /\ UNCHANGED result
           \/ /\ t \in byThread
              /\ result' = RetainedResult
              /\ frame' = Goes(c, "mark")
              /\ UNCHANGED mutex
        /\ UNCHANGED <<fprint, flight, row, byThread, history>>

(***************************************************************************)
(* The failed status, after which the mutex is dropped; a status that      *)
(* cannot be written is retained on the intent and the mutex is kept.      *)
(***************************************************************************)
markPendingLaunchFailed(c) ==
    LET t == frame[c].thread
    IN  /\ frame[c].pc = "mark"
        /\ frame' = Ends(c)
        /\ \/ /\ row' = IF Exists(t) THEN [row EXCEPT ![t].status = "failed"] ELSE row
              /\ mutex' = [mutex EXCEPT ![t] = 0]
              /\ UNCHANGED result
           \/ /\ result' = IF t \in byThread THEN RetainedResult ELSE result
              /\ UNCHANGED <<row, mutex>>
        /\ UNCHANGED <<fprint, flight, byThread, history>>

SpawnIfNeeded(c) ==
    \/ SpawnChecksIntent(c)
    \/ loadPendingLaunchRow(c)
    \/ runPendingSpawn(c)
    \/ persistStartedSession(c)
    \/ publishPendingSpawnLaunched(c)
    \/ cleanupFailedPendingLaunch(c)
    \/ markPendingLaunchFailed(c)

(***************************************************************************)
(* stopPendingLaunchThread, transitionPendingLaunchThread and              *)
(* deletePendingLaunchThread.  A thread that is not pending is left to the *)
(* path for bound threads, which uses neither the mutex nor the intent.    *)
(***************************************************************************)
Transitioned(op, r) ==
    IF op = "delete" THEN DeletedRow
    ELSE [r EXCEPT !.status = [stop |-> "stopped", archive |-> "archived", unarchive |-> "created"][op]]

TransitionPending(c) ==
    LET t == frame[c].thread
        op == frame[c].op
    IN  /\ op \in Lifecycle /\ frame[c].pc = "locked"
        /\ \/ frame' = Ends(c) /\ UNCHANGED <<row, reopened>>
           \/ /\ IsPending(t)
              /\ row' = [row EXCEPT ![t] = Transitioned(op, row[t])]
              /\ frame' = IF op = "unarchive" THEN Ends(c) ELSE Goes(c, "complete")
              /\ reopened' = IF op = "unarchive" THEN reopened \cup {t} ELSE reopened
        /\ UNCHANGED <<registry, byThread, mutex, calls, byIntent, forgotten>>

(***************************************************************************)
(* CompleteLaunchIntent: by the three above with the mutex held, and by    *)
(* turn/start, without it, once the turn was submitted.                    *)
(***************************************************************************)
TurnSubmitted(c) ==
    /\ Arrives(c)
    /\ \E t \in Thread :
          /\ Exists(t) /\ ~row[t].pending
          /\ frame' = [frame EXCEPT ![c] = [IdleFrame EXCEPT !.op = "turn", !.pc = "complete", !.thread = t]]
    /\ UNCHANGED <<registry, row, byThread, mutex, byIntent, reopened, forgotten>>

\* The mutex goes first.
CompleteLaunchIntent(c) ==
    /\ frame[c].pc = "complete"
    /\ mutex' = [mutex EXCEPT ![frame[c].thread] = 0]
    /\ frame' = Goes(c, "check")
    /\ UNCHANGED <<registry, row, byThread, history>>

\* ForgetMappedUnlessError: the mapping and the retained error are read, then the mapping goes.
ForgetMappedUnlessError(c) ==
    \/ /\ frame[c].pc = "check"
       /\ frame' = IF frame[c].thread \notin byThread \/ HasError THEN Ends(c) ELSE Goes(c, "unmap")
       /\ UNCHANGED <<registry, row, byThread, mutex, history>>
    \/ /\ frame[c].pc = "unmap"
       /\ byThread' = byThread \ {frame[c].thread}
       /\ frame' = Goes(c, "forget")
       /\ UNCHANGED <<registry, row, mutex, history>>

Forget(c) ==
    /\ \/ frame[c].pc = "forget" /\ ForgetFlight /\ frame' = Goes(c, "forget fingerprint")
       \/ frame[c].pc = "forget fingerprint" /\ ForgetFingerprint /\ frame' = Goes(c, "forget result")
       \/ frame[c].pc = "forget result" /\ ForgetResult /\ frame' = Ends(c)
    /\ forgotten' = TRUE
    /\ UNCHANGED <<row, byThread, mutex, calls, byIntent, reopened>>

Begins(c) ==
    \/ StartWithIntent(c)
    \/ StartWithoutIntent(c)
    \/ TurnSubmitted(c)
    \/ \E op \in Lifecycle \cup {"spawn"} : CallPending(c, op)

Continues(c) ==
    \/ DoStart(c)
    \/ StartOnceFails(c)
    \/ startPendingThread(c)
    \/ completeStart(c)
    \/ StartOnceReturns(c)
    \/ StartReturns(c)
    \/ Lock(c)
    \/ SpawnIfNeeded(c)
    \/ TransitionPending(c)
    \/ CompleteLaunchIntent(c)
    \/ ForgetMappedUnlessError(c)
    \/ Forget(c)

LaunchNext == \E c \in Caller : Begins(c) \/ Continues(c)

LaunchSpec == LaunchInit /\ [][LaunchNext]_launchVars

-----------------------------------------------------------------------------
OutcomeType ==
    [kind : {"none", "mismatch", "failed", "value", "retained"}, fp : Fingerprint \cup {None}, val : Thread \cup {None}]

(***************************************************************************)
(* Every map holds what the code puts there: a stored result is a value or *)
(* a retained error, a leader waits for nobody, and whoever is past a      *)
(* mutex of the map is its only holder.                                    *)
(***************************************************************************)
LaunchTypeOK ==
    /\ fprint \in Fingerprint \cup {None}
    /\ result = None \/ (result \in OutcomeType /\ Stored(result))
    /\ flight \in Caller \cup {None}
    /\ \A c \in Caller :
          /\ frame[c].out \in OutcomeType
          /\ frame[c].leader \in Caller \cup {None}
          /\ frame[c].thread \in Thread \cup {None}
          /\ frame[c].mu \in Mutex \cup {0}
          /\ \A d \in Caller \ {c} : Holds(c, frame[d].mu) => frame[d].mu = 0 \/ ~Holds(d, frame[d].mu)
    /\ \A t \in Thread : row[t].status \in Status /\ row[t].pending \in BOOLEAN /\ mutex[t] \in Mutex \cup {0}
    /\ byThread \subseteq Thread

(***************************************************************************)
(* However many thread/start calls carry the launch intent id, with        *)
(* whatever parameters and failures, they create one thread until the key  *)
(* is forgotten (Registry.Do merges them).                                 *)
(***************************************************************************)
OneThreadPerIntent == ~forgotten => \A t, u \in byIntent : t = u

\* The callers that are launching a provider for t.
Spawning(t) == {c \in Caller : frame[c].op = "spawn" /\ frame[c].pc \in {"spawn", "launched"} /\ frame[c].thread = t}

(***************************************************************************)
(* Two turn/start calls never launch two providers for a thread that a     *)
(* launch intent created and that was never unarchived: the retained error *)
(* or the failed status is there before the mutex is dropped from the map. *)
(***************************************************************************)
IntentSpawnSerialized ==
    \A t \in byIntent \ reopened : \A c, d \in Spawning(t) : c = d

(***************************************************************************)
(* pendingLaunchMu serialises SpawnIfNeeded by thread id, so that the      *)
(* concurrent first turns of a pending thread do not fork several CLIs.    *)
(***************************************************************************)
SpawnSerialized == \A t \in Thread : \A c, d \in Spawning(t) : c = d

(***************************************************************************)
(* A pending thread of an intent that was stopped or archived stays so or  *)
(* is deleted, and one that was deleted stays deleted: no launch that was  *)
(* under way brings it back, unless the thread is unarchived.              *)
(***************************************************************************)
Stopped(r) == r = DeletedRow \/ (r.pending /\ r.status \in {"stopped", "archived"})

StoppedStays ==
    [][\A t \in byIntent \ reopened' :
          /\ Stopped(row[t]) => Stopped(row'[t])
          /\ row[t] = DeletedRow => row'[t] = DeletedRow]_launchVars

(***************************************************************************)
(* A caller of Do never gets the value of an execution with other          *)
(* parameters than its own (reserveFingerprint and replayCached fail       *)
(* fast).                                                                  *)
(***************************************************************************)
OwnParameters ==
    \A c \in Caller :
       frame[c].op = "start" /\ frame[c].pc = "return" /\ frame[c].out.kind = "value" => frame[c].out.fp = frame[c].fp

(***************************************************************************)
(* Whoever waits in the singleflight group waits for a caller that is      *)
(* still executing, even if the key was forgotten meanwhile: no call of    *)
(* thread/start is left waiting for an answer that was already given.      *)
(***************************************************************************)
WaiterHasLeader ==
    \A w \in Caller :
       frame[w].pc = "wait" => frame[frame[w].leader].pc \in {"recheck", "run", "announced", "leave"}
=============================================================================

------------------------------ MODULE MCThread ------------------------------
(***************************************************************************)
(* The thread module, as the disjoint sum of its two halves: an initial    *)
(* state lets either the operations on an existing thread run              *)
(* (ThreadLifecycle: every caller brings the thread down or brings its     *)
(* session back, so that two stops, or a stop and an Unarchive, overlap)   *)
(* or the creation of threads (ThreadLaunch).  The halves share no         *)
(* variable and the one that does not run stays in its initial state.      *)
(***************************************************************************)
EXTENDS ThreadLifecycle, TLC

CONSTANTS
    k1, k2, k3, First, Second, Third,       \* who does what, see MCOps
    Client, Fingerprint, Thread, Eager, Lifecycle, MaxLaunchCalls

VARIABLES
    which,                                  \* the half that runs
    fprint, result, launchFlight, clients, row, byThread, mutex, launchCalls,
    byIntent, reopened, forgotten           \* ThreadLaunch

MCOps == k1 :> First @@ k2 :> Second @@ k3 :> Third

Launch == INSTANCE ThreadLaunch WITH
              Caller <- Client, MaxCalls <- MaxLaunchCalls,
              flight <- launchFlight, frame <- clients, calls <- launchCalls

launching == <<fprint, result, launchFlight, clients, row, byThread, mutex,
               launchCalls, byIntent, reopened, forgotten>>

ThreadInit ==
    /\ which \in {"lifecycle", "launch"}
    /\ LifecycleInit
    /\ Launch!LaunchInit
    /\ which = "launch" => made = 0

ThreadNext ==
    /\ \/ which = "lifecycle" /\ LifecycleNext /\ UNCHANGED launching
       \/ which = "launch" /\ Launch!LaunchNext /\ UNCHANGED lifecycleVars
    /\ UNCHANGED which

ThreadSpec == ThreadInit /\ [][ThreadNext]_<<which, lifecycleVars, launching>>

\* The clients and the threads they create appear in no property by name.
ThreadSymmetry == Permutations(Client) \cup Permutations(Thread)

\* ThreadLaunch!LaunchTypeOK: the registry, the rows and the callers' frames
\* have their shape, and only errors wrapped by Retain are kept (shouldRetain).
LaunchTypeOK == Launch!LaunchTypeOK

\* ThreadLaunch!OneThreadPerIntent: until the intent is forgotten, Start makes
\* one thread of it however often and concurrently it is called.
OneThreadPerIntent == Launch!OneThreadPerIntent

\* ThreadLaunch!IntentSpawnSerialized: while the intent is remembered, two
\* first turns of its thread do not both start a provider (SpawnIfNeeded).
IntentSpawnSerialized == Launch!IntentSpawnSerialized

\* ThreadLaunch!WaiterHasLeader: whoever waits for a shared execution (Do)
\* waits for one that is still running.
WaiterHasLeader == Launch!WaiterHasLeader

\* ThreadLaunch!StoppedStays: a pending thread that was stopped, archived or
\* deleted is not launched by a first turn that was already under way.
StoppedStays == Launch!StoppedStays

=============================================================================

----------------------------- MODULE CronScheduler -----------------------------
(***************************************************************************)
(* The desktop cron scheduler (internal/module/cron) over CronStore: the   *)
(* tick actor with its recovery at start-up and the submission of a        *)
(* claimed job, the lease actor, the progress worker with its bounded      *)
(* queue, and the turns, which are external and seen through               *)
(* TurnServiceAdapter.  A handler is cut where it leaves the store or the  *)
(* turn service and goes on with what it read.                             *)
(*                                                                         *)
(* Abstractions.  Recovery reads its unresolved runs in one page.  The     *)
(* graceful stop of a process is a crash: what the worker still drains     *)
(* before it is a step of the worker before the crash.  faults counts the  *)
(* store, lookup and observation errors, which may strike at any call.     *)
(* A lease lapses under a live process only when the machine was           *)
(* suspended for longer than the lease; suspends tells such a behaviour.   *)
(***************************************************************************)
EXTENDS CronStore, FiniteSets, Sequences

CONSTANTS
    Proc,         \* the scheduler processes on the database
    QueueLimit,   \* cronProgressQueueLimit
    MaxClaim,     \* SchedulerConfig.MaxClaim
    LookupAttempts, \* cronTerminalOwnershipMaxAttempts
    MaxFaults,    \* bound: how many errors strike
    MaxCrashes,   \* bound: how many times a process goes down
    UserOps       \* bound: what users do: a subset of the names below

ASSUME SchedulerAssumption ==
    /\ QueueLimit \in Nat \ {0}
    /\ MaxClaim \in Nat \ {0}
    /\ LookupAttempts \in Nat \ {0}
    /\ MaxFaults \in Nat
    /\ MaxCrashes \in Nat
    /\ UserOps \subseteq {"update", "enable", "once", "delete"}

\* No process tracks a turn that nobody tracks.
Nobody == "nobody"

ASSUME ProcAssumption == IsFiniteSet(Proc) /\ Nobody \notin Proc

VARIABLES
    turn,      \* the turns, by claim: state, and the process that tracks it
    registry,  \* the durable dedupe rows of the turns
    tick,      \* per process: the tick actor
    queue,     \* per process: cronProgressWorker.queue
    work,      \* per process: the batch the worker took, and the event it completes
    bus,       \* per process: the terminal events on their way to the worker
    leaseUp,   \* per process: the lease actor runs
    faults,    \* how many errors have struck
    crashes,   \* how many times a process has gone down
    suspends,  \* whether the machine may sleep through a lease
    givenUp    \* the turns whose terminal event an error made the worker drop

turnVars == <<turn, registry, bus>>
procVars == <<tick, queue, work, leaseUp>>
envVars == <<faults, crashes, suspends, givenUp>>
vars == <<storeVars, turnVars, procVars, envVars>>

Ended == {"ok", "bad"}

Event == [kind : {"extend", "complete"}, c : Claim, attempt : 0 .. LookupAttempts]

NoSnap == [c |-> 0, status |-> "none", token |-> 0, fails |-> 0, lapsed |-> FALSE]

Snap == [c : Token, status : RunStatus, token : Token, fails : Nat, lapsed : BOOLEAN]

TickPc == {"off", "recover", "recovering", "idle", "claimed", "inserted",
           "submitting", "starting", "started", "failing", "failed",
           "submitted", "losing", "lost", "observed"}

Off == [pc |-> "off", snap |-> NoSnap, seen |-> {}, todo |-> {}]

NoWork == [batch |-> <<>>, cur |-> NoSnap]

SchedulerInit ==
    /\ Init
    /\ turn = [c \in Claim |-> [st |-> "none", at |-> Nobody]]
    /\ registry = [c \in Claim |-> "none"]
    /\ tick = [p \in Proc |-> Off]
    /\ queue = [p \in Proc |-> <<>>]
    /\ work = [p \in Proc |-> NoWork]
    /\ bus = [p \in Proc |-> {}]
    /\ leaseUp = [p \in Proc |-> FALSE]
    /\ faults = 0 /\ crashes = 0
    /\ suspends \in BOOLEAN
    /\ givenUp = {}

Up(p) == tick[p].pc # "off"

\* An error of the store or of the turn service strikes.
Strikes == faults < MaxFaults /\ faults' = faults + 1 /\ UNCHANGED <<crashes, suspends>>

Fault == Strikes /\ UNCHANGED givenUp

NoFault == UNCHANGED envVars

\* A call to the store comes back with an error: refused, or by a fault.
Errs(refused) == \/ refused /\ NoFault
                 \/ Fault

------------------------------------------------------------------------------
(* Users and time.                                                         *)

OnlyStore == UNCHANGED <<turnVars, procVars, envVars>>

UserCreatesJob(j) == (\E d \in BOOLEAN : CreateJob(j, TRUE, d)) /\ OnlyStore

UserUpdatesJob(j) ==
    /\ "update" \in UserOps
    /\ \E e, d \in BOOLEAN : UpdateJobSchedule(j, e, d)
    /\ OnlyStore

UserSetsEnabled(j) ==
    /\ "enable" \in UserOps
    /\ SetJobEnabled(j, ~job[j].enabled)
    /\ OnlyStore

\* RunOnce brings next_run_at forward; a retry that waits still waits.
RunOnce(j) ==
    /\ "once" \in UserOps
    /\ job[j].enabled
    /\ PatchNextRunAt(j)
    /\ OnlyStore

UserDeletesJob(j) == "delete" \in UserOps /\ DeleteJob(j) /\ OnlyStore

TimePasses(j) == (NextRunComes(j) \/ RetryComes(j)) /\ OnlyStore

\* Nobody renews the lease for its whole length.
LeaseRunsOut(j) ==
    /\ suspends \/ \A p \in Proc : ~Up(p)
    /\ LeaseLapses(j)
    /\ OnlyStore

------------------------------------------------------------------------------
(* The tick actor: claim a due job and submit its turn.                    *)

SetTick(p, t) == tick' = [tick EXCEPT ![p] = t]
Goto(p, pc) == SetTick(p, [tick[p] EXCEPT !.pc = pc])
Done(p) == SetTick(p, [tick[p] EXCEPT !.pc = "idle", !.snap = NoSnap])
OnlyTick == UNCHANGED <<turnVars, queue, work, leaseUp>>
C(p) == tick[p].snap.c

\* RunTick claims one job at a time.  A job it has already driven in this tick
\* ends the tick, with the claim just made.
ClaimOneDueJob(p, j) ==
    /\ tick[p].pc = "idle"
    /\ Cardinality(tick[p].seen) < MaxClaim
    /\ ClaimDueJobsForUpdate(j)
    /\ IF j \in tick[p].seen
         THEN SetTick(p, [tick[p] EXCEPT !.seen = {}])
         ELSE SetTick(p, [tick[p] EXCEPT !.pc = "claimed", !.seen = @ \cup {j},
                            !.snap = [NoSnap EXCEPT !.c = claims + 1,
                                        !.token = claims + 1, !.fails = job[j].fails]])
    /\ OnlyTick /\ NoFault

EndTick(p) ==
    /\ tick[p].pc = "idle" /\ tick[p].seen # {}
    /\ \/ Cardinality(tick[p].seen) = MaxClaim
       \/ \A j \in Job : ~Claimable(j)
    /\ SetTick(p, [tick[p] EXCEPT !.seen = {}])
    /\ OnlyTick /\ NoFault /\ UNCHANGED storeVars

\* An error before the turn is started leaves the claim as it is.
CreatePendingRun(p) ==
    /\ tick[p].pc = "claimed"
    /\ \/ InsertRun(C(p)) /\ Goto(p, "inserted") /\ NoFault
       \/ /\ Errs(~Live(run[C(p)].job))
          /\ Done(p) /\ UNCHANGED storeVars
    /\ OnlyTick

MarkRunSubmitting(p) ==
    /\ tick[p].pc = "inserted"
    /\ \/ CASRunStatus(C(p), "pending", "submitting") /\ Goto(p, "submitting") /\ NoFault
       \/ /\ Errs(run[C(p)].status # "pending")
          /\ Done(p) /\ UNCHANGED storeVars
    /\ OnlyTick

\* StartTurn: the request, the session or the preparation fails, or the turn's
\* dedupe row is written before the provider is asked.
BeginStartTurn(p) ==
    /\ tick[p].pc = "submitting"
    /\ \/ Goto(p, "failing") /\ Fault /\ UNCHANGED registry
       \/ /\ Goto(p, "starting") /\ NoFault
          /\ registry' = [registry EXCEPT ![C(p)] = "live"]
    /\ UNCHANGED <<storeVars, turn, bus, queue, work, leaseUp>>

StartTurnAnswers(p) ==
    /\ tick[p].pc = "starting"
    /\ \/ /\ Goto(p, "started") /\ NoFault
          /\ turn' = [turn EXCEPT ![C(p)] = [st |-> "live", at |-> p]]
          /\ UNCHANGED registry
       \/ /\ Goto(p, "failing") /\ Fault
          /\ registry' = [registry EXCEPT ![C(p)] = "terminal"]
          /\ UNCHANGED turn
    /\ UNCHANGED <<storeVars, bus, queue, work, leaseUp>>

\* Mutant of PersistSubmittedTurn: the run is written outside the transaction
\* that checks the claim and binds the job.
PersistRunOnly(p) ==
    /\ tick[p].pc = "started"
    /\ run' = [run EXCEPT ![C(p)].turn = C(p), ![C(p)].status = "submitted"]
    /\ Goto(p, "submitted") /\ NoFault
    /\ OnlyTick /\ UNCHANGED <<job, claims>>

\* Mutant of PersistSubmittedTurn: an error is handled as one of StartTurn is,
\* which gives the claim up under the turn that was started.
PersistOrFail(p) ==
    /\ tick[p].pc = "started"
    /\ \/ /\ SubmitRunWithActiveTurn(C(p), tick[p].snap.token)
          /\ Goto(p, "submitted") /\ NoFault
       \/ /\ Errs(~CanSubmit(C(p), tick[p].snap.token))
          /\ Goto(p, "failing") /\ UNCHANGED storeVars
    /\ OnlyTick

PersistSubmittedTurn(p) ==
    /\ tick[p].pc = "started"
    /\ \/ /\ SubmitRunWithActiveTurn(C(p), tick[p].snap.token)
          /\ Goto(p, "submitted") /\ NoFault
       \/ /\ Errs(~CanSubmit(C(p), tick[p].snap.token))
          /\ Done(p) /\ UNCHANGED storeVars
    /\ OnlyTick

\* The turn service's tracker knows a turn of this process, ended or not.
ObserveStartedTurn(p) ==
    /\ tick[p].pc = "submitted"
    /\ \/ turn[C(p)].at = p /\ Goto(p, "observed") /\ NoFault
       \/ Goto(p, "losing") /\ Fault
    /\ OnlyTick /\ UNCHANGED storeVars

MarkRunRunning(p) ==
    /\ tick[p].pc = "observed"
    /\ \/ CASRunStatus(C(p), "submitted", "running") /\ NoFault
       \/ Errs(run[C(p)].status # "submitted") /\ UNCHANGED storeVars
    /\ Done(p)
    /\ OnlyTick

\* finalizeFailure and finalizeObserveLost store the run's status first; an
\* error there is logged and the job is marked all the same.
StoreRunOutcome(p, expected, status, pc, nextPc) ==
    /\ tick[p].pc = pc
    /\ \/ CASRunStatus(C(p), expected, status) /\ NoFault
       \/ Errs(run[C(p)].status # expected) /\ UNCHANGED storeVars
    /\ Goto(p, nextPc)
    /\ OnlyTick

MarkJobOutcome(p, expectedTurn, status, pc) ==
    LET s == tick[p].snap
        Holds == MarkFence(s.c, s.token, expectedTurn) /\ run[s.c].status = status
    IN  /\ tick[p].pc = pc
        /\ \/ /\ \E retry \in StatusRetry(status, s.fails) :
                   MarkFailed(s.c, s.token, expectedTurn, status, retry)
              /\ NoFault
           \/ Errs(~Holds) /\ UNCHANGED storeVars
        /\ Done(p)
        /\ OnlyTick

FinalizeFailure(p) ==
    \/ StoreRunOutcome(p, "submitting", "failed", "failing", "failed")
    \/ MarkJobOutcome(p, 0, "failed", "failed")

FinalizeObserveLost(p) ==
    \/ StoreRunOutcome(p, "submitted", "observe_lost", "losing", "lost")
    \/ MarkJobOutcome(p, C(p), "observe_lost", "lost")

------------------------------------------------------------------------------
(* Recovery, once when the tick actor starts.                              *)

\* The run's row as the page has it, the job's as it is when its turn comes.
RunSnapshot(c) ==
    [c |-> c, status |-> run[c].status, token |-> job[run[c].job].token,
     fails |-> job[run[c].job].fails, lapsed |-> job[run[c].job].lease = "lapsed"]

\* Mutant of Boot: the page of runs leaves out the submitting ones.
BootTrackedOnly(p) ==
    /\ tick[p].pc = "off"
    /\ SetTick(p, [Off EXCEPT !.pc = "recover",
                     !.todo = {<<c, run[c].status>> :
                                 c \in {d \in Claim : run[d].status \in Tracked}}])
    /\ leaseUp' = [leaseUp EXCEPT ![p] = TRUE]
    /\ UNCHANGED <<storeVars, turnVars, queue, work, envVars>>

Boot(p) ==
    /\ tick[p].pc = "off"
    /\ SetTick(p, [Off EXCEPT !.pc = "recover",
                     !.todo = {<<c, run[c].status>> :
                                 c \in {d \in Claim : run[d].status \in Unresolved}}])
    /\ leaseUp' = [leaseUp EXCEPT ![p] = TRUE]
    /\ UNCHANGED <<storeVars, turnVars, queue, work, envVars>>

RecoverNext(p) ==
    /\ tick[p].pc = "recover"
    /\ IF tick[p].todo = {}
         THEN Done(p)
         ELSE \E r \in tick[p].todo :
                LET rest == [tick[p] EXCEPT !.todo = @ \ {r}]
                IN  IF Live(run[r[1]].job)
                      THEN SetTick(p, [rest EXCEPT !.pc = "recovering",
                                  !.snap = [RunSnapshot(r[1]) EXCEPT !.status = r[2]]])
                      ELSE SetTick(p, rest)
    /\ OnlyTick /\ NoFault /\ UNCHANGED storeVars

Recovered(p) == SetTick(p, [tick[p] EXCEPT !.pc = "recover", !.snap = NoSnap])

\* finalizeRecoveredRun rereads a refused finalisation only to word its error.
FinalizeRecovered(p, expectedTurn, status) ==
    LET s == tick[p].snap IN
    /\ \/ /\ \E retry \in StatusRetry(status, s.fails) :
               FinalizeRecoveredRun(s.c, s.status, s.token, expectedTurn, status, retry)
          /\ NoFault
       \/ /\ Errs(~CanFinalize(s.c, s.status, s.token, expectedTurn))
          /\ UNCHANGED storeVars
    /\ Recovered(p)

\* A live dedupe row may be too old to count as one.
RecoverSubmittingRun(p) ==
    LET s == tick[p].snap IN
    /\ tick[p].pc = "recovering" /\ s.status = "submitting"
    /\ \/ /\ registry[s.c] = "live"
          /\ \/ /\ SubmitRunWithActiveTurn(s.c, s.token)
                /\ SetTick(p, [tick[p] EXCEPT !.snap.status = "submitted"])
                /\ NoFault
             \/ /\ Errs(~CanSubmit(s.c, s.token))
                /\ Recovered(p) /\ UNCHANGED storeVars
       \/ /\ turn[s.c] # [st |-> "live", at |-> p]
          /\ FinalizeRecovered(p, 0, "failed")
    /\ OnlyTick

RecoverSubmittedRun(p) ==
    LET s == tick[p].snap IN
    /\ tick[p].pc = "recovering" /\ s.status = "submitted"
    /\ IF turn[s.c].at = p
         THEN /\ \/ CASRunStatus(s.c, "submitted", "running") /\ NoFault
                 \/ Errs(run[s.c].status # "submitted") /\ UNCHANGED storeVars
              /\ Recovered(p)
         ELSE FinalizeRecovered(p, s.c, "observe_lost")
    /\ OnlyTick

RecoverRunningRun(p) ==
    LET s == tick[p].snap IN
    /\ tick[p].pc = "recovering" /\ s.status = "running"
    /\ IF ~s.lapsed /\ turn[s.c].at = p
         THEN Recovered(p) /\ NoFault /\ UNCHANGED storeVars
         ELSE FinalizeRecovered(p, s.c, "observe_lost")
    /\ OnlyTick

------------------------------------------------------------------------------
(* The lease actor.  Every process claims as "cron-scheduler", so each     *)
(* renews the claims of all.                                               *)

OnlyProcs == UNCHANGED <<turn, registry, bus, tick, leaseUp>>

RenewLeases(p) ==
    /\ leaseUp[p]
    /\ \E j \in Job : job[j].lease = "lapsed" /\ RenewLease(j, job[j].token)
    /\ OnlyStore

\* The retries of a renewal are used up: the active turns are interrupted and
\* the actor returns, which takes its process down.
LeaseActorGivesUp(p) ==
    /\ leaseUp[p]
    /\ \E j \in Job : job[j].token # 0
    /\ Fault
    /\ leaseUp' = [leaseUp EXCEPT ![p] = FALSE]
    /\ LET lost == {c \in Claim : /\ turn[c] = [st |-> "live", at |-> p]
                                  /\ \E j \in Job : job[j].active = c}
       IN  /\ turn' = [c \in Claim |-> IF c \in lost THEN [turn[c] EXCEPT !.st = "bad"]
                                                      ELSE turn[c]]
           /\ bus' = [bus EXCEPT ![p] = @ \cup lost]
    /\ UNCHANGED <<storeVars, registry, tick, queue, work>>

------------------------------------------------------------------------------
(* Turns (external) and the progress worker.                               *)

TurnEnds(c) ==
    /\ turn[c].st = "live" /\ turn[c].at # Nobody
    /\ \E st \in Ended : turn' = [turn EXCEPT ![c].st = st]
    /\ bus' = [bus EXCEPT ![turn[c].at] = @ \cup {c}]
    /\ UNCHANGED <<storeVars, registry, procVars, envVars>>

\* watchTurn marks the dedupe row terminal once it sees the turn done.
WatchTurn(c) ==
    /\ turn[c].st \in Ended /\ turn[c].at # Nobody
    /\ registry[c] = "live"
    /\ registry' = [registry EXCEPT ![c] = "terminal"]
    /\ UNCHANGED <<storeVars, turn, bus, procVars, envVars>>

\* Mutant of Enqueued: the oldest event makes room, whatever it is.
EnqueuedDropOldest(q, e) == Append(IF Len(q) < QueueLimit THEN q ELSE Tail(q), e)

Progress(q) == {i \in 1 .. Len(q) : q[i].kind = "extend"}
OldestProgress(q) == CHOOSE i \in Progress(q) : \A k \in Progress(q) : i <= k
Without(q, i) == SubSeq(q, 1, i - 1) \o SubSeq(q, i + 1, Len(q))

\* Progress coalesces by turn and is dropped when the queue is full; a terminal
\* event takes the place of the oldest progress, or goes over the limit.
Enqueued(q, e) ==
    IF e.kind = "extend" /\ \E i \in Progress(q) : q[i].c = e.c THEN q
    ELSE IF Len(q) < QueueLimit THEN Append(q, e)
    ELSE IF e.kind = "complete"
      THEN Append(IF Progress(q) = {} THEN q ELSE Without(q, OldestProgress(q)), e)
    ELSE q

Enqueue(p, e) == queue' = [queue EXCEPT ![p] = Enqueued(@, e)]

ProgressEvent(p, c) ==
    /\ Up(p)
    /\ turn[c] = [st |-> "live", at |-> p]
    /\ Enqueue(p, [kind |-> "extend", c |-> c, attempt |-> 0])
    /\ OnlyProcs /\ UNCHANGED <<storeVars, work, envVars>>

TerminalEvent(p, c) ==
    /\ Up(p)
    /\ c \in bus[p]
    /\ bus' = [bus EXCEPT ![p] = @ \ {c}]
    /\ Enqueue(p, [kind |-> "complete", c |-> c, attempt |-> 0])
    /\ UNCHANGED <<storeVars, turn, registry, tick, work, leaseUp, envVars>>

DrainPending(p) ==
    /\ work[p] = NoWork /\ queue[p] # <<>>
    /\ work' = [work EXCEPT ![p].batch = queue[p]]
    /\ queue' = [queue EXCEPT ![p] = <<>>]
    /\ OnlyProcs /\ UNCHANGED <<storeVars, envVars>>

PopBatch(p) == work' = [work EXCEPT ![p].batch = Tail(@)]

\* Dispatching an event of the given kind, with no terminal event in progress.
AtHead(p, kind) ==
    /\ work[p].cur = NoSnap /\ work[p].batch # <<>>
    /\ Head(work[p].batch).kind = kind

\* ExtendClaim moves the lease of the claim the job has now.  After an error the
\* event goes back to the queue or is dropped, as in TerminalFails.
ExtendClaimForTurnProgress(p) ==
    /\ AtHead(p, "extend")
    /\ LET e == Head(work[p].batch)
           owned == {j \in Job : job[j].token # 0 /\ job[j].active = e.c}
       IN  \/ /\ IF owned = {} THEN UNCHANGED storeVars
                  ELSE \E j \in owned : RenewLease(j, job[j].token)
              /\ NoFault /\ UNCHANGED queue
           \/ /\ Fault /\ UNCHANGED storeVars
              /\ Enqueue(p, e) \/ UNCHANGED queue
    /\ PopBatch(p)
    /\ OnlyProcs

IsTurnOwned(c) ==
    /\ run[c].status \in Tracked
    /\ job[run[c].job].active = c
    /\ job[run[c].job].token # 0

\* retryTransient puts the event back after a timeout or on a busy database,
\* while it may be tried again; any other error is logged and the event is gone.
TerminalFails(p, e, again) ==
    /\ Strikes
    /\ \/ again /\ Enqueue(p, [e EXCEPT !.attempt = @ + 1]) /\ UNCHANGED givenUp
       \/ UNCHANGED queue /\ givenUp' = givenUp \cup {e.c}

\* IsTurnOwned, and the rows CompleteTurn reads next.  A turn that is not owned
\* is somebody else's and its event is dropped; the lookups that fail are counted.
DispatchTerminal(p) ==
    /\ AtHead(p, "complete")
    /\ LET e == Head(work[p].batch) IN
       \/ /\ IF IsTurnOwned(e.c)
               THEN work' = [work EXCEPT ![p].cur = RunSnapshot(e.c)]
               ELSE PopBatch(p)
          /\ NoFault /\ UNCHANGED queue
       \/ PopBatch(p) /\ TerminalFails(p, e, e.attempt + 1 < LookupAttempts)
    /\ OnlyProcs /\ UNCHANGED storeVars

\* Mutant of CompleteTurn: a timeout is not retried.
CompleteTurnOnce(p) ==
    LET s == work[p].cur
        status == IF turn[s.c].st = "ok" THEN "finished" ELSE "failed"
    IN  /\ s # NoSnap
        /\ work' = [work EXCEPT ![p].cur = NoSnap, ![p].batch = Tail(@)]
        /\ \/ /\ \E retry \in StatusRetry(status, s.fails) :
                   FinalizeRecoveredRun(s.c, s.status, s.token, s.c, status, retry)
              /\ NoFault
           \/ Errs(~CanFinalize(s.c, s.status, s.token, s.c)) /\ UNCHANGED storeVars
        /\ OnlyProcs /\ UNCHANGED queue

\* CompleteTurn: the final transaction, with the claim the job had when read.
\* A stale claim is refused; other errors are retried or not, with a new count.
CompleteTurn(p) ==
    LET s == work[p].cur
        status == IF turn[s.c].st = "ok" THEN "finished" ELSE "failed"
    IN  /\ s # NoSnap
        /\ work' = [work EXCEPT ![p].cur = NoSnap, ![p].batch = Tail(@)]
        /\ \/ /\ \E retry \in StatusRetry(status, s.fails) :
                   FinalizeRecoveredRun(s.c, s.status, s.token, s.c, status, retry)
              /\ NoFault /\ UNCHANGED queue
           \/ /\ ~CanFinalize(s.c, s.status, s.token, s.c)
              /\ NoFault /\ UNCHANGED <<storeVars, queue>>
           \/ /\ TerminalFails(p, [kind |-> "complete", c |-> s.c, attempt |-> 0], TRUE)
              /\ UNCHANGED storeVars
        /\ OnlyProcs

------------------------------------------------------------------------------
\* The process goes down: its turns are orphaned, its memory is gone.
Crash(p) ==
    /\ Up(p)
    /\ crashes < MaxCrashes /\ crashes' = crashes + 1
    /\ tick' = [tick EXCEPT ![p] = Off]
    /\ queue' = [queue EXCEPT ![p] = <<>>]
    /\ work' = [work EXCEPT ![p] = NoWork]
    /\ bus' = [bus EXCEPT ![p] = {}]
    /\ leaseUp' = [leaseUp EXCEPT ![p] = FALSE]
    /\ turn' = [c \in Claim |-> IF turn[c].at = p THEN [turn[c] EXCEPT !.at = Nobody]
                                                  ELSE turn[c]]
    /\ UNCHANGED <<storeVars, registry, faults, suspends, givenUp>>

Drive(p) ==
    \/ CreatePendingRun(p) \/ MarkRunSubmitting(p)
    \/ BeginStartTurn(p) \/ StartTurnAnswers(p) \/ PersistSubmittedTurn(p)
    \/ ObserveStartedTurn(p) \/ MarkRunRunning(p)
    \/ FinalizeFailure(p) \/ FinalizeObserveLost(p)

Recover(p) ==
    \/ RecoverNext(p)
    \/ RecoverSubmittingRun(p) \/ RecoverSubmittedRun(p) \/ RecoverRunningRun(p)

TickActor(p) ==
    \/ Recover(p) \/ Drive(p) \/ EndTick(p)
    \/ \E j \in Job : ClaimOneDueJob(p, j)

Worker(p) ==
    \/ DrainPending(p) \/ ExtendClaimForTurnProgress(p)
    \/ DispatchTerminal(p) \/ CompleteTurn(p)

ProcNext(p) ==
    \/ Boot(p) \/ Crash(p)
    \/ TickActor(p) \/ Worker(p)
    \/ RenewLeases(p) \/ LeaseActorGivesUp(p)
    \/ \E c \in Claim : ProgressEvent(p, c) \/ TerminalEvent(p, c)

UserNext(j) ==
    \/ UserCreatesJob(j) \/ UserUpdatesJob(j) \/ UserSetsEnabled(j)
    \/ RunOnce(j) \/ UserDeletesJob(j)
    \/ TimePasses(j) \/ LeaseRunsOut(j)

SchedulerNext ==
    \/ \E p \in Proc : ProcNext(p)
    \/ \E j \in Job : UserNext(j)
    \/ \E c \in Claim : TurnEnds(c) \/ WatchTurn(c)

SchedulerSpec == SchedulerInit /\ [][SchedulerNext]_vars

\* The actors and the bus keep running, and a turn ends; nothing makes the
\* machine sleep, a process go down or come back, or a user act.
SchedulerFairness ==
    /\ \A p \in Proc :
         /\ WF_vars(TickActor(p)) /\ WF_vars(Worker(p)) /\ WF_vars(RenewLeases(p))
         /\ \A c \in Claim : WF_vars(TerminalEvent(p, c))
    /\ \A c \in Claim : WF_vars(TurnEnds(c))

FairSchedulerSpec == SchedulerSpec /\ SchedulerFairness

------------------------------------------------------------------------------
(* Properties.                                                             *)

\* The actors' records, the turns and the queues have their shape.
SchedulerTypeOK ==
    /\ TypeOK
    /\ turn \in [Claim -> [st : {"none", "live"} \cup Ended, at : Proc \cup {Nobody}]]
    /\ registry \in [Claim -> {"none", "live", "terminal"}]
    /\ tick \in [Proc -> [pc : TickPc, snap : Snap, seen : SUBSET Job,
                          todo : SUBSET (Claim \X Unresolved)]]
    /\ queue \in [Proc -> Seq(Event)]
    /\ work \in [Proc -> [batch : Seq(Event), cur : Snap]]
    /\ bus \in [Proc -> SUBSET Claim]
    /\ leaseUp \in [Proc -> BOOLEAN]
    /\ faults \in 0 .. MaxFaults /\ crashes \in 0 .. MaxCrashes
    /\ suspends \in BOOLEAN /\ givenUp \subseteq Claim

\* What the actors do to the tables are transactions of CronStore; above all a
\* retry granted from a row read earlier is the one the row of that moment
\* would grant, for the claim token pins the failure count.
StoreSpec == Spec

\* A single scheduler whose machine never sleeps through a lease has at most
\* one turn of a job running, but for the turns it gave up observing.
SingleLiveTurn ==
    \A j \in Job : Cardinality(Proc) = 1 /\ ~suspends /\ Live(j) =>
        Cardinality({c \in Claim : /\ run[c].job = j
                                   /\ turn[c].st = "live" /\ turn[c].at # Nobody
                                   /\ run[c].status # "observe_lost"}) <= 1

\* Once recovery is over, and unless a call of it failed or a lease lapsed
\* under its feet, no run of an earlier life of the scheduler is unresolved.
RecoveryResolvesAll ==
    \A p \in Proc :
        /\ Cardinality(Proc) = 1 /\ ~suspends /\ faults = 0
        /\ tick[p].pc \notin {"off", "recover", "recovering"}
        => \A c \in Claim : run[c].status \in Unresolved =>
             turn[c].at = p \/ c = C(p)

TerminalQueued(p, c) ==
    LET q == queue[p] \o work[p].batch
    IN  \E i \in 1 .. Len(q) : q[i].kind = "complete" /\ q[i].c = c

\* However full the queue gets, a terminal event leaves it only by being
\* dispatched, or with its process: progress is what makes room.
TerminalKept ==
    [][\A p \in Proc, c \in Claim :
         TerminalQueued(p, c) =>
           \/ TerminalQueued(p, c)' \/ ~Up(p)'
           \/ work[p].batch # <<>> /\ Head(work[p].batch).c = c]_vars

\* The terminal event of a running run is applied in the end if the process
\* stays up, however many timeouts its final transaction meets and whatever
\* other events and renewals come between; only an error that is no timeout, or
\* an ownership lookup that failed LookupAttempts times, makes the worker drop it.
RunningTerminalApplied ==
    \A p \in Proc, c \in Claim :
        (~suspends /\ c \in bus[p] /\ IsTurnOwned(c) /\ run[c].status = "running")
          ~> (~IsTurnOwned(c) \/ ~Up(p) \/ c \in givenUp)

\* The terminal event of any turn its job is bound to is applied in the end:
\* CompleteTurn looks for submitted and for running runs, since the event may
\* come before the run is marked running, and finishes with the current status.
OwnedTerminalApplied ==
    \A p \in Proc, c \in Claim :
        (c \in bus[p] /\ IsTurnOwned(c)) ~> (~IsTurnOwned(c) \/ ~Up(p))

\* A late terminal event of an old run never releases a newer claim: the claim
\* that ends belongs to the run that is final by then.
NewerClaimKept ==
    [][\A j \in Job :
         job[j].token # 0 /\ job'[j].token = 0 /\ job'[j].st = "live" =>
           run'[job[j].token].status \in Final]_vars

=============================================================================

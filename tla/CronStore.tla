------------------------------- MODULE CronStore -------------------------------
(***************************************************************************)
(* The tables cron_jobs and cron_job_runs of the desktop application and   *)
(* the transactions of internal/store/cron on them, for any caller.        *)
(*                                                                         *)
(* Abstractions.  A claim token is the number of the claim; the run a      *)
(* claim inserts and the turn that run starts carry the number of the      *)
(* claim too (the code draws a fresh UUID for each).  0 is the empty       *)
(* string.  Of the times only what the statements compare with now is      *)
(* kept: whether next_run_at has come, whether next_retry_at is null, to   *)
(* come or come, and whether the lease is null, live or lapsed.  An        *)
(* operation that a statement's WHERE clause refuses changes nothing and   *)
(* has no action here.                                                     *)
(***************************************************************************)
EXTENDS Naturals

CONSTANTS
    Job,          \* the jobs that may be created
    None,         \* no job
    MaxClaims,    \* bound: how many claims are made
    MaxAttempts   \* cron_jobs.max_attempts

ASSUME CronAssumption ==
    /\ None \notin Job
    /\ MaxClaims \in Nat
    /\ MaxAttempts \in Nat

VARIABLES
    job,     \* the rows of cron_jobs
    run,     \* the rows of cron_job_runs, by claim
    claims   \* how many claim tokens have been drawn

storeVars == <<job, run, claims>>

Claim == 1 .. MaxClaims
Token == 0 .. MaxClaims

Unresolved == {"submitting", "submitted", "running"}
Tracked == {"submitted", "running"}
Final == {"finished", "failed", "observe_lost"}
RunStatus == {"none", "pending"} \cup Unresolved \cup Final

JobRow ==
    [st : {"none", "live", "deleted"}, enabled : BOOLEAN, due : BOOLEAN,
     retry : {"null", "wait", "come"}, token : Token,
     lease : {"null", "live", "lapsed"}, active : Token, fails : Nat,
     lastTurn : Token, lastStatus : {"none"} \cup Final]

RunRow == [job : Job \cup {None}, status : RunStatus, turn : Token]

NoJob ==
    [st |-> "none", enabled |-> FALSE, due |-> FALSE, retry |-> "null",
     token |-> 0, lease |-> "null", active |-> 0, fails |-> 0,
     lastTurn |-> 0, lastStatus |-> "none"]

NoRun == [job |-> None, status |-> "none", turn |-> 0]

Init ==
    /\ job = [j \in Job |-> NoJob]
    /\ run = [c \in Claim |-> NoRun]
    /\ claims = 0

------------------------------------------------------------------------------
(* What a user does to a job, and what time does to it.                    *)

Live(j) == job[j].st = "live"

CreateJob(j, enabled, due) ==
    /\ job[j].st = "none"
    /\ job' = [job EXCEPT ![j] = [NoJob EXCEPT !.st = "live",
                                    !.enabled = enabled, !.due = due]]
    /\ UNCHANGED <<run, claims>>

\* A new next_run_at leaves next_retry_at, the claim and the lease alone.
UpdateJobSchedule(j, enabled, due) ==
    /\ Live(j)
    /\ job' = [job EXCEPT ![j].enabled = enabled, ![j].due = due]
    /\ UNCHANGED <<run, claims>>

SetJobEnabled(j, enabled) ==
    /\ Live(j)
    /\ job' = [job EXCEPT ![j].enabled = enabled]
    /\ UNCHANGED <<run, claims>>

PatchNextRunAt(j) ==
    /\ Live(j)
    /\ job' = [job EXCEPT ![j].due = TRUE]
    /\ UNCHANGED <<run, claims>>

\* The foreign key deletes the runs with the job.
DeleteJob(j) ==
    /\ Live(j)
    /\ job' = [job EXCEPT ![j] = [NoJob EXCEPT !.st = "deleted"]]
    /\ run' = [c \in Claim |-> IF run[c].job = j
                                 THEN [run[c] EXCEPT !.status = "none", !.turn = 0]
                                 ELSE run[c]]
    /\ UNCHANGED claims

NextRunComes(j) ==
    /\ Live(j) /\ ~job[j].due
    /\ job' = [job EXCEPT ![j].due = TRUE]
    /\ UNCHANGED <<run, claims>>

RetryComes(j) ==
    /\ job[j].retry = "wait"
    /\ job' = [job EXCEPT ![j].retry = "come"]
    /\ UNCHANGED <<run, claims>>

LeaseLapses(j) ==
    /\ job[j].lease = "live"
    /\ job' = [job EXCEPT ![j].lease = "lapsed"]
    /\ UNCHANGED <<run, claims>>

------------------------------------------------------------------------------
(* Claims and leases.                                                      *)

\* COALESCE(next_retry_at, next_run_at) <= now
Due(j) == IF job[j].retry = "null" THEN job[j].due ELSE job[j].retry = "come"

Claimable(j) ==
    /\ Live(j)
    /\ job[j].enabled
    /\ job[j].token = 0 \/ job[j].lease # "live"
    /\ Due(j)

\* The claim of a lapsed lease keeps active_turn_id as it was.
ClaimDueJobsForUpdate(j) ==
    /\ Claimable(j)
    /\ claims < MaxClaims
    /\ claims' = claims + 1
    /\ job' = [job EXCEPT ![j].token = claims + 1, ![j].lease = "live"]
    /\ run' = [run EXCEPT ![claims + 1].job = j]

RenewLease(j, token) ==
    /\ token # 0 /\ job[j].token = token
    /\ job' = [job EXCEPT ![j].lease = "live"]
    /\ UNCHANGED <<run, claims>>

------------------------------------------------------------------------------
(* Runs.                                                                   *)

InsertRun(c) ==
    /\ run[c].job # None /\ run[c].status = "none"
    /\ Live(run[c].job)
    /\ run' = [run EXCEPT ![c].status = "pending"]
    /\ UNCHANGED <<job, claims>>

CASRunStatus(c, expected, next) ==
    /\ run[c].status = expected
    /\ run' = [run EXCEPT ![c].status = next]
    /\ UNCHANGED <<job, claims>>

CanSubmit(c, token) ==
    /\ token # 0
    /\ run[c].status = "submitting"
    /\ job[run[c].job].token = token

\* One transaction: turn_id of the run, active_turn_id of the job, submitted.
SubmitRunWithActiveTurn(c, token) ==
    /\ CanSubmit(c, token)
    /\ run' = [run EXCEPT ![c].turn = c, ![c].status = "submitted"]
    /\ job' = [job EXCEPT ![run[c].job].active = c]
    /\ UNCHANGED claims

\* nextRetryAndRun: no retry once the attempts are used up, and none when it
\* would not come before the next scheduled run.
RetryChoices(fails) ==
    {"null"} \cup (IF fails + 1 < MaxAttempts THEN {"wait"} ELSE {})

Marked(j, status, turn, retry) ==
    [job EXCEPT ![j] =
        [job[j] EXCEPT !.token = 0, !.lease = "null", !.active = 0, !.due = FALSE,
                       !.lastTurn = turn, !.lastStatus = status,
                       !.fails = IF status = "finished" THEN 0 ELSE job[j].fails + 1,
                       !.retry = retry]]

\* The WHERE clause of MarkCronJobFinished and MarkCronJobFailed but for the
\* status of the run.
MarkFence(c, token, turn) ==
    /\ token # 0
    /\ run[c].status # "none"
    /\ job[run[c].job].token = token
    /\ job[run[c].job].active = turn
    /\ run[c].turn = turn

\* Mutant of MarkFailed: without the EXISTS clause on the run's status.
MarkFailedUnchecked(c, token, turn, status, retry) ==
    /\ MarkFence(c, token, turn)
    /\ job' = Marked(run[c].job, status, turn, retry)
    /\ UNCHANGED <<run, claims>>

MarkFailed(c, token, turn, status, retry) ==
    /\ MarkFence(c, token, turn)
    /\ run[c].status = status
    /\ job' = Marked(run[c].job, status, turn, retry)
    /\ UNCHANGED <<run, claims>>

CanFinalize(c, expected, token, turn) ==
    /\ run[c].status = expected
    /\ MarkFence(c, token, turn)

\* Mutant of FinalizeRecoveredRun: the job's half of it only.
FinalizeJobOnly(c, expected, token, turn, status, retry) ==
    /\ CanFinalize(c, expected, token, turn)
    /\ job' = Marked(run[c].job, status, turn, retry)
    /\ UNCHANGED <<run, claims>>

\* One transaction: the run's status by compare-and-swap, then the job.
FinalizeRecoveredRun(c, expected, token, turn, status, retry) ==
    /\ CanFinalize(c, expected, token, turn)
    /\ run' = [run EXCEPT ![c].status = status]
    /\ job' = Marked(run[c].job, status, turn, retry)
    /\ UNCHANGED claims

------------------------------------------------------------------------------
(* The compare-and-swaps the scheduler asks for: outside a transaction, and *)
(* with the update of the job.                                             *)
CASSteps ==
    {<<"pending", "submitting">>, <<"submitting", "failed">>,
     <<"submitted", "observe_lost">>, <<"submitted", "running">>}

Finalizes == {<<"submitting", "failed">>} \cup (Tracked \X Final)

\* The retry a terminal status is stored with: none after success, and none
\* when the turn can no longer be observed.
StatusRetry(status, fails) ==
    IF status = "failed" THEN RetryChoices(fails) ELSE {"null"}

JobNext(j) ==
    \/ \E e, d \in BOOLEAN : CreateJob(j, e, d) \/ UpdateJobSchedule(j, e, d)
    \/ \E e \in BOOLEAN : SetJobEnabled(j, e)
    \/ PatchNextRunAt(j) \/ DeleteJob(j)
    \/ NextRunComes(j) \/ RetryComes(j) \/ LeaseLapses(j)
    \/ ClaimDueJobsForUpdate(j)
    \/ \E token \in Claim : RenewLease(j, token)

RunNext(c) ==
    /\ run[c].job # None
    /\ \/ InsertRun(c)
       \/ \E s \in CASSteps : CASRunStatus(c, s[1], s[2])
       \/ \E token \in Claim : SubmitRunWithActiveTurn(c, token)
       \/ \E token \in Claim, turn \in Token, status \in {"failed", "observe_lost"} :
            \E retry \in StatusRetry(status, job[run[c].job].fails) :
              MarkFailed(c, token, turn, status, retry)
       \/ \E s \in Finalizes, token \in Claim, turn \in Token :
            \E retry \in StatusRetry(s[2], job[run[c].job].fails) :
              FinalizeRecoveredRun(c, s[1], token, turn, s[2], retry)

Next == (\E j \in Job : JobNext(j)) \/ (\E c \in Claim : RunNext(c))

Spec == Init /\ [][Next]_storeVars

------------------------------------------------------------------------------
(* Properties.                                                             *)

\* The rows have the shape of their tables.
TypeOK ==
    /\ job \in [Job -> JobRow]
    /\ run \in [Claim -> RunRow]
    /\ claims \in Token

\* A run carries its turn_id exactly from the transaction that makes it
\* submitted: the branches of recovery for a submitting run that already has a
\* turn, and for a submitted or running one that has none, are never taken.
TurnFollowsStatus ==
    \A c \in Claim :
        /\ run[c].status \in {"none", "pending", "submitting"} => run[c].turn = 0
        /\ run[c].status \in Tracked \cup {"finished", "observe_lost"} => run[c].turn = c

\* A job is bound to the turn of one of its own runs, only while it is claimed,
\* and that run is neither finished nor failed: the binding and the run are
\* written by different statements, the last of them fenced by the claim.
ActiveTurnUnsettled ==
    \A j \in Job : job[j].active # 0 =>
        /\ job[j].token # 0
        /\ run[job[j].active].job = j
        /\ run[job[j].active].status \in Tracked \cup {"observe_lost"}

\* last_turn_id and last_status of a job say what its run's own row says.
LastTurnAgrees ==
    \A j \in Job : job[j].lastTurn # 0 =>
        /\ run[job[j].lastTurn].job = j
        /\ run[job[j].lastTurn].status = job[j].lastStatus

\* A retry waits only after a failure that was neither a success nor a turn
\* lost from sight, and only while attempts are left.
RetryBudget ==
    \A j \in Job : job[j].retry # "null" =>
        job[j].lastStatus = "failed" /\ job[j].fails < MaxAttempts

\* The two tables, which most operations write by separate statements, agree:
\* on the turn of a run, the turn a job is bound to, the last turn it reports and
\* the retry it was granted (SubmitRunWithActiveTurn, MarkFailed,
\* FinalizeRecoveredRun).
TablesAgree ==
    TurnFollowsStatus /\ ActiveTurnUnsettled /\ LastTurnAgrees /\ RetryBudget

Rank(status) ==
    CASE status = "pending" -> 1 [] status = "submitting" -> 2
      [] status = "submitted" -> 3 [] status = "running" -> 4
      [] status \in Final -> 5 [] OTHER -> 0

\* The status of a run only moves forward, and a final one is frozen, until the
\* job is deleted: no stale worker takes a run back.
RunForward ==
    [][\A c \in Claim :
         run'[c] # run[c] =>
           \/ Rank(run'[c].status) > Rank(run[c].status)
           \/ run[c].status = "none" /\ run[c].job = None
           \/ run'[c].status = "none" /\ job'[run[c].job].st = "deleted"]_storeVars

\* A claim is given up only together with the final status of the very run the
\* job is bound to, or of one that never got a turn while the job is bound to none.
ReleaseFollowsRun ==
    [][\A j \in Job :
         job[j].token # 0 /\ job'[j].token = 0 /\ job'[j].st = "live" =>
           \E c \in Claim :
             /\ run'[c].job = j
             /\ run'[c].turn = job[j].active
             /\ run'[c].status = job'[j].lastStatus]_storeVars

=============================================================================

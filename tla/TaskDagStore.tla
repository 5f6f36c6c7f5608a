---------------------------- MODULE TaskDagStore ----------------------------
(***************************************************************************)
(* The task-DAG store of cmd/mcp-orch: one workflow run, its runtime nodes *)
(* and its wakeup queue, as SQLite holds them.  Every action is one write  *)
(* transaction of store/taskdag together with the SQL predicates that guard*)
(* it; SQLite runs them one at a time (BEGIN IMMEDIATE).  Who calls them,  *)
(* and with what it read earlier, is the business of TaskDagEngine: here   *)
(* any caller may call any transaction with any argument.                  *)
(*                                                                         *)
(* Abstractions.  Texts (titles, results, payloads, reasons) are left out. *)
(* A claim's fence (claimed_by, claimed_at, lease_expires_at) is the pair  *)
(* of the worker and the attempt number: a claim increments attempt_count  *)
(* and nothing else changes it.  Time is left out: a lease is "live" until *)
(* LeaseExpires makes it "expired", and next_retry_at only delays a claim, *)
(* which may be arbitrarily late anyway.                                   *)
(***************************************************************************)
EXTENDS Integers, FiniteSets

CONSTANTS
    Node,            \* the node keys of the run's DAG
    DependsOn,       \* depends_on: Node -> SUBSET Node
    Assignee,        \* assigned_to in the template: Node -> Agent \cup {None}
    AutoDispatch,    \* the nodes validateAutomaticDispatchConfig accepts
    FaultNode,       \* bound: the nodes whose final write may hit a store error
    Agent,           \* the agents a node can be assigned to
    Worker,          \* the dispatchers' claimed_by identities
    Thread,          \* child agent threads
    None,            \* SQL NULL or ''
    MaxAttempts,     \* MaxRetryAttempts of the dispatcher's config
    DefaultAttempts, \* defaultRetryWakeupMaxAttempts, for the smart retry
    BatchSize,       \* LIMIT of a claim
    MaxExpiries      \* bound: a lease expires only on the first MaxExpiries claims

ASSUME NodeAssumption ==
    /\ DependsOn \in [Node -> SUBSET Node]
    /\ AutoDispatch \subseteq Node
    /\ FaultNode \subseteq Node
    /\ Assignee \in [Node -> Agent \cup {None}]

ASSUME NoneAssumption ==
    None \notin Agent \cup Worker \cup Thread

ASSUME BoundAssumption ==
    /\ MaxAttempts \in Nat
    /\ DefaultAttempts \in Nat
    /\ BatchSize \in Nat \ {0}
    /\ MaxExpiries \in Nat

(***************************************************************************)
(* Wakeups are identified by their idempotency key, which is UNIQUE.       *)
(***************************************************************************)
Slot == Agent \cup {"start", "complete_retry", "compensation"}
Wakeup == Node \X Slot

ASSUME SlotAssumption ==
    /\ Agent \cap {"start", "complete_retry", "compensation"} = {}
    /\ None \notin Wakeup

NodeOf(k) == k[1]
ManualKey(n, a) == <<n, a>>
StartKey(n) == <<n, "start">>
RetryKey(n) == <<n, "complete_retry">>
CompensationKey(n) == <<n, "compensation">>

Terminal == {"done", "failed", "cancelled", "skipped"}

NodeStatus == Terminal \cup
    {"absent", "pending", "ready", "running", "retrying", "dispatch_incomplete"}

Finished == {"succeeded", "failed", "cancelled"}

RunStatus == Finished \cup {"absent", "running"}

WakeupStatus == {"absent", "pending", "dispatching", "sent", "failed"}

VARIABLES
    runStatus,       \* task_dag_runs.status
    status,          \* task_dag_nodes.status
    assignedTo,      \* task_dag_nodes.assigned_to
    activeWakeup,    \* task_dag_nodes.active_wakeup_id
    spawningThread,  \* task_dag_nodes.spawning_thread_id
    config,          \* task_dag_nodes.config, as the number of patches applied
    wstatus,         \* task_dag_wakeups.status
    attempt,         \* task_dag_wakeups.attempt_count
    claimedBy,       \* task_dag_wakeups.claimed_by
    lease            \* task_dag_wakeups.lease_expires_at against the clock

nodeVars == <<status, assignedTo, activeWakeup, spawningThread, config>>
wakeupVars == <<wstatus, attempt, claimedBy, lease>>
storeVars == <<runStatus, nodeVars, wakeupVars>>

TypeOK ==
    /\ runStatus \in RunStatus
    /\ status \in [Node -> NodeStatus]
    /\ assignedTo \in [Node -> Agent \cup {None}]
    /\ activeWakeup \in [Node -> Wakeup \cup {None}]
    /\ spawningThread \in [Node -> Thread \cup {None}]
    /\ config \in [Node -> Nat]
    /\ wstatus \in [Wakeup -> WakeupStatus]
    /\ attempt \in [Wakeup -> Nat]
    /\ claimedBy \in [Wakeup -> Worker \cup {None}]
    /\ lease \in [Wakeup -> {"none", "live", "expired"}]

Init ==
    /\ runStatus = "absent"
    /\ status = [n \in Node |-> "absent"]
    /\ assignedTo = [n \in Node |-> None]
    /\ activeWakeup = [n \in Node |-> None]
    /\ spawningThread = [n \in Node |-> None]
    /\ config = [n \in Node |-> 0]
    /\ wstatus = [k \in Wakeup |-> "absent"]
    /\ attempt = [k \in Wakeup |-> 0]
    /\ claimedBy = [k \in Wakeup |-> None]
    /\ lease = [k \in Wakeup |-> "none"]

(***************************************************************************)
(* The wakeup queue.                                                       *)
(***************************************************************************)

\* Mutant of FenceHolds: the fence no longer looks at the wakeup's status.
FenceIgnoresStatus(k, w, a) ==
    claimedBy[k] = w /\ attempt[k] = a /\ lease[k] = "live"

\* The claim <<w, a>> still owns k: what the WHERE clauses of the fenced
\* updates and validateWakeupFenceTx compare.
FenceHolds(k, w, a) ==
    /\ wstatus[k] = "dispatching"
    /\ claimedBy[k] = w
    /\ attempt[k] = a
    /\ lease[k] = "live"

\* Insert the wakeups of S; a key that already exists is left as it is.
Enqueue(S) ==
    /\ wstatus' = [k \in Wakeup |->
                      IF k \in S /\ wstatus[k] = "absent" THEN "pending" ELSE wstatus[k]]
    /\ UNCHANGED <<attempt, claimedBy, lease>>

\* The wakeups of S leave their claim, if any, and end with status s.
Release(S, s) ==
    /\ wstatus' = [k \in Wakeup |-> IF k \in S THEN s ELSE wstatus[k]]
    /\ claimedBy' = [k \in Wakeup |-> IF k \in S THEN None ELSE claimedBy[k]]
    /\ lease' = [k \in Wakeup |-> IF k \in S THEN "none" ELSE lease[k]]
    /\ UNCHANGED attempt

\* A due wakeup: the repair kind is claimed whatever became of the run.
Claimable(k) ==
    /\ wstatus[k] = "pending"
    /\ runStatus = "running" \/ k = CompensationKey(NodeOf(k))

ClaimDueWakeups(w, S) ==
    /\ S # {} /\ S \subseteq {k \in Wakeup : Claimable(k)}
    /\ IsFiniteSet(S) /\ Cardinality(S) <= BatchSize
    /\ wstatus' = [k \in Wakeup |-> IF k \in S THEN "dispatching" ELSE wstatus[k]]
    /\ attempt' = [k \in Wakeup |-> IF k \in S THEN attempt[k] + 1 ELSE attempt[k]]
    /\ claimedBy' = [k \in Wakeup |-> IF k \in S THEN w ELSE claimedBy[k]]
    /\ lease' = [k \in Wakeup |-> IF k \in S THEN "live" ELSE lease[k]]
    /\ UNCHANGED <<runStatus, nodeVars>>

\* Time passes: the holder did not renew before lease_expires_at.
LeaseExpires(k) ==
    /\ wstatus[k] = "dispatching" /\ lease[k] = "live"
    /\ attempt[k] <= MaxExpiries
    /\ lease' = [lease EXCEPT ![k] = "expired"]
    /\ UNCHANGED <<runStatus, nodeVars, wstatus, attempt, claimedBy>>

MarkWakeupSent(k, w, a) ==
    /\ FenceHolds(k, w, a)
    /\ wstatus' = [wstatus EXCEPT ![k] = "sent"]
    /\ UNCHANGED <<runStatus, nodeVars, attempt, claimedBy, lease>>

\* Mutant of RetryWakeup: off by one in the attempt limit.
RetryOnceMore(k, w, a) ==
    /\ FenceHolds(k, w, a)
    /\ attempt[k] <= MaxAttempts
    /\ Release({k}, "pending")
    /\ UNCHANGED <<runStatus, nodeVars>>

RetryWakeup(k, w, a) ==
    /\ FenceHolds(k, w, a)
    /\ attempt[k] < MaxAttempts
    /\ Release({k}, "pending")
    /\ UNCHANGED <<runStatus, nodeVars>>

\* c is the config the caller read: a patch over another config rolls back.
RetryWakeupWithNodeConfigPatch(k, w, a, c) ==
    /\ FenceHolds(k, w, a)
    /\ attempt[k] < DefaultAttempts
    /\ config[NodeOf(k)] = c
    /\ status[NodeOf(k)] \notin Terminal
    /\ Release({k}, "pending")
    /\ config' = [config EXCEPT ![NodeOf(k)] = c + 1]
    /\ UNCHANGED <<runStatus, status, assignedTo, activeWakeup, spawningThread>>

FailWakeup(k, w, a) ==
    /\ FenceHolds(k, w, a)
    /\ Release({k}, "failed")
    /\ UNCHANGED <<runStatus, nodeVars>>

\* Every stale claim at once, except the one a running node still points to.
ReclaimStaleDispatchingWakeups ==
    LET Stale == {k \in Wakeup :
                    /\ wstatus[k] = "dispatching" /\ lease[k] = "expired"
                    /\ ~ (status[NodeOf(k)] = "running" /\ activeWakeup[NodeOf(k)] = k)}
    IN  /\ Stale # {}
        /\ Release(Stale, "pending")
        /\ UNCHANGED <<runStatus, nodeVars>>

EnqueueTurnCompleteRetry(n) ==
    /\ n \in FaultNode /\ status[n] # "absent"
    /\ Enqueue({RetryKey(n)})
    /\ UNCHANGED <<runStatus, nodeVars>>

EnqueueTerminalFailureCompensation(n) ==
    /\ n \in FaultNode /\ status[n] # "absent"
    /\ Enqueue({CompensationKey(n)})
    /\ UNCHANGED <<runStatus, nodeVars>>

(***************************************************************************)
(* Starting a run.                                                         *)
(***************************************************************************)

\* The roots scheduleRootWakeup queues, given the nodes' statuses and assignees.
RootWakeups(st, as) ==
    {ManualKey(n, as[n]) : n \in {m \in AutoDispatch :
        st[m] = "ready" /\ DependsOn[m] = {} /\ as[m] # None}}

\* Create the run, clone the template, promote the roots and queue them.
StartDAG ==
    LET st == [n \in Node |-> IF DependsOn[n] = {} THEN "ready" ELSE "pending"]
    IN  /\ runStatus = "absent"
        /\ runStatus' = "running"
        /\ status' = st
        /\ assignedTo' = Assignee
        /\ Enqueue(RootWakeups(st, Assignee))
        /\ UNCHANGED <<activeWakeup, spawningThread, config>>

\* StartDAG with the run_key of the running run: only the roots are queued again.
RestartDAG ==
    /\ runStatus = "running"
    /\ Enqueue(RootWakeups(status, assignedTo))
    /\ UNCHANGED <<runStatus, nodeVars>>

(***************************************************************************)
(* The nodes.                                                              *)
(***************************************************************************)

\* Everything that depends on n, directly or not: the nodes in every set that
\* holds n's dependents and the dependents of its members.
Dependents(n) == {m \in Node : n \in DependsOn[m]}
DownstreamClosed(n, S) ==
    /\ Dependents(n) \subseteq S
    /\ \A m \in S : Dependents(m) \subseteq S
Downstream == [n \in Node |->
    {m \in Node : \A S \in SUBSET Node : DownstreamClosed(n, S) => m \in S}]

\* Mutant of FinalizedRun: a running node no longer keeps the run open.
FinalizedEarly(st) ==
    IF runStatus # "running" \/ Node = {} \/ \E n \in Node : st[n] \in {"pending", "ready"}
    THEN runStatus
    ELSE IF \E n \in Node : st[n] = "failed" THEN "failed"
    ELSE IF \E n \in Node : st[n] = "cancelled" THEN "cancelled"
    ELSE "succeeded"

\* maybeFinalizeRunTx over the statuses st; a run without nodes never ends.
FinalizedRun(st) ==
    IF runStatus # "running" \/ Node = {} \/ \E n \in Node : st[n] \notin Terminal
    THEN runStatus
    ELSE IF \E n \in Node : st[n] = "failed" THEN "failed"
    ELSE IF \E n \in Node : st[n] = "cancelled" THEN "cancelled"
    ELSE "succeeded"

\* Mutant of Satisfied: the statuses are those read before the completion.
SatisfiedBefore(n, st) ==
    {m \in Node : /\ st[m] = "pending" /\ n \in DependsOn[m]
                  /\ \A d \in DependsOn[m] : status[d] = "done"}

\* Mutant of Satisfied: one dependency that is done is enough.
SatisfiedByOne(n, st) ==
    {m \in Node : st[m] = "pending" /\ n \in DependsOn[m]}

\* The pending dependents of n whose dependencies are all done in st.
Satisfied(n, st) ==
    {m \in Node : /\ st[m] = "pending" /\ n \in DependsOn[m]
                  /\ \A d \in DependsOn[m] : st[d] = "done"}

\* A completion is fenced (by an automation node: k, attempt a) or not (None).
CompletionFence(n, k, a) ==
    k = None \/ (k \in Wakeup /\ activeWakeup[n] = k /\ NodeOf(k) = n /\ attempt[k] = a)

CompleteNodeAndScheduleDownstream(n, k, a) ==
    LET st == [status EXCEPT ![n] = "done"]
        up == Satisfied(n, st)
        final == [m \in Node |-> IF m \in up THEN "ready" ELSE st[m]]
    IN  /\ runStatus = "running"
        /\ status[n] \in {"ready", "running"}
        /\ CompletionFence(n, k, a)
        /\ status' = final
        /\ activeWakeup' = [activeWakeup EXCEPT ![n] = None]
        /\ Enqueue({StartKey(m) : m \in {x \in up : x \in AutoDispatch /\ assignedTo[x] # None}})
        /\ runStatus' = FinalizedRun(final)
        /\ UNCHANGED <<assignedTo, spawningThread, config>>

\* Mutant of FailNodeTx: the cascade stops at the direct dependents.
FailNodeShallow(n) ==
    LET st == [m \in Node |->
                 IF m = n \/ (m \in Dependents(n) /\ status[m] = "pending")
                 THEN "failed" ELSE status[m]]
    IN  /\ status[n] \notin Terminal \cup {"absent"}
        /\ status' = st
        /\ runStatus' = FinalizedRun(st)
        /\ UNCHANGED <<assignedTo, activeWakeup, spawningThread, config>>

\* failNodeAndCancelDownstreamTx: n and every pending node below it fail.
FailNodeTx(n) ==
    LET st == [m \in Node |->
                 IF m = n \/ (m \in Downstream[n] /\ status[m] = "pending")
                 THEN "failed" ELSE status[m]]
    IN  /\ status[n] \notin Terminal \cup {"absent"}
        /\ status' = st
        /\ runStatus' = FinalizedRun(st)
        /\ UNCHANGED <<assignedTo, activeWakeup, spawningThread, config>>

FailNodeAndCancelDownstream(n) ==
    /\ FailNodeTx(n)
    /\ UNCHANGED wakeupVars

\* Both writes or none: a terminal node rolls the wakeup's failure back.
FailWakeupAndFailNodeAndCancelDownstream(k, w, a) ==
    /\ FenceHolds(k, w, a)
    /\ Release({k}, "failed")
    /\ FailNodeTx(NodeOf(k))

\* Mutant of RecordNodeSpawn: a terminal node takes the thread as well.
RecordSpawnLate(k, w, a, t) ==
    /\ FenceHolds(k, w, a)
    /\ spawningThread[NodeOf(k)] \in {None, t}
    /\ spawningThread' = [spawningThread EXCEPT ![NodeOf(k)] = t]
    /\ UNCHANGED <<runStatus, status, assignedTo, activeWakeup, config, wakeupVars>>

RecordNodeSpawn(k, w, a, t) ==
    /\ FenceHolds(k, w, a)
    /\ spawningThread[NodeOf(k)] \in {None, t}
    /\ status[NodeOf(k)] \notin Terminal
    /\ spawningThread' = [spawningThread EXCEPT ![NodeOf(k)] = t]
    /\ UNCHANGED <<runStatus, status, assignedTo, activeWakeup, config, wakeupVars>>

\* Mutant of UpdateRunningNodeStatus: a running node is taken over once more.
UpdateRunningAgain(k, w, a) ==
    /\ FenceHolds(k, w, a)
    /\ status[NodeOf(k)] \in {"pending", "ready", "running"}
    /\ status' = [status EXCEPT ![NodeOf(k)] = "running"]
    /\ activeWakeup' = [activeWakeup EXCEPT ![NodeOf(k)] = k]
    /\ UNCHANGED <<runStatus, assignedTo, spawningThread, config, wakeupVars>>

UpdateRunningNodeStatus(k, w, a) ==
    /\ FenceHolds(k, w, a)
    /\ status[NodeOf(k)] \in {"pending", "ready"}
    /\ status' = [status EXCEPT ![NodeOf(k)] = "running"]
    /\ activeWakeup' = [activeWakeup EXCEPT ![NodeOf(k)] = k]
    /\ UNCHANGED <<runStatus, assignedTo, spawningThread, config, wakeupVars>>

\* The transitions isLegalTransition grants task_update_node; those to done and
\* failed take the two transactions above instead of the plain status write.
LegalTransition ==
    {<<"pending", "ready">>, <<"pending", "cancelled">>,
     <<"ready", "running">>, <<"ready", "cancelled">>,
     <<"running", "done">>, <<"running", "failed">>,
     <<"running", "retrying">>, <<"running", "cancelled">>,
     <<"retrying", "ready">>, <<"retrying", "failed">>, <<"retrying", "cancelled">>}

\* A compare-and-set on the status the caller read.
UpdateNodeStatus(n, from, to) ==
    /\ <<from, to>> \in LegalTransition /\ to \notin {"done", "failed"}
    /\ status[n] = from
    /\ status' = [status EXCEPT ![n] = to]
    /\ UNCHANGED <<runStatus, assignedTo, activeWakeup, spawningThread, config, wakeupVars>>

AssignNodeAndEnqueueWakeup(n, agent) ==
    /\ status[n] \in {"pending", "ready"}
    /\ assignedTo' = [assignedTo EXCEPT ![n] = agent]
    /\ Enqueue({ManualKey(n, agent)})
    /\ UNCHANGED <<runStatus, status, activeWakeup, spawningThread, config>>

\* A wakeup is active until it has failed: no caller binds a sent one to a turn.
HasActiveWakeup(n) ==
    \E k \in Wakeup : NodeOf(k) = n /\ wstatus[k] \in {"pending", "dispatching", "sent"}

DispatchIncomplete(n) ==
    status[n] \in {"pending", "ready"} /\ assignedTo[n] # None /\ ~ HasActiveWakeup(n)

\* The preflight of task_dispatch_node, with the assignee the caller read.
MarkDispatchIncompleteIfMissingWakeup(n, agent) ==
    /\ DispatchIncomplete(n) /\ assignedTo[n] = agent
    /\ status' = [status EXCEPT ![n] = "dispatch_incomplete"]
    /\ UNCHANGED <<runStatus, assignedTo, activeWakeup, spawningThread, config, wakeupVars>>

\* The sweep of the reclaimer, over every node.
MarkDispatchIncompleteNodesWithoutActiveWakeup ==
    LET S == {n \in Node : DispatchIncomplete(n)}
    IN  /\ S # {}
        /\ status' = [n \in Node |-> IF n \in S THEN "dispatch_incomplete" ELSE status[n]]
        /\ activeWakeup' = [n \in Node |-> IF n \in S THEN None ELSE activeWakeup[n]]
        /\ UNCHANGED <<runStatus, assignedTo, spawningThread, config, wakeupVars>>

\* Mutant of TerminateRun: the nodes that have ended are cancelled too.
TerminateAll ==
    /\ runStatus \in {"running", "cancelled"}
    /\ runStatus' = "cancelled"
    /\ status' = [n \in Node |-> "cancelled"]
    /\ activeWakeup' = [n \in Node |-> None]
    /\ Release({k \in Wakeup : wstatus[k] \in {"pending", "dispatching", "sent"}}, "failed")
    /\ UNCHANGED <<assignedTo, spawningThread, config>>

\* Cancel the nodes, then the wakeups, then the run; on a cancelled run again.
TerminateRun ==
    LET S == {n \in Node : status[n] \notin Terminal}
    IN  /\ runStatus \in {"running", "cancelled"}
        /\ runStatus' = "cancelled"
        /\ status' = [n \in Node |-> IF n \in S THEN "cancelled" ELSE status[n]]
        /\ activeWakeup' = [n \in Node |-> IF n \in S THEN None ELSE activeWakeup[n]]
        /\ Release({k \in Wakeup : wstatus[k] \in {"pending", "dispatching", "sent"}}, "failed")
        /\ UNCHANGED <<assignedTo, spawningThread, config>>

(***************************************************************************)
(* Any caller, any transaction, any argument.                              *)
(***************************************************************************)
RunStep == StartDAG \/ RestartDAG \/ TerminateRun

SweepStep ==
    \/ ReclaimStaleDispatchingWakeups
    \/ MarkDispatchIncompleteNodesWithoutActiveWakeup

NodeStep(n) ==
    \/ CompleteNodeAndScheduleDownstream(n, None, 0)
    \/ \E k \in Wakeup : CompleteNodeAndScheduleDownstream(n, k, attempt[k])
    \/ FailNodeAndCancelDownstream(n)
    \/ \E tr \in LegalTransition : UpdateNodeStatus(n, tr[1], tr[2])
    \/ \E agent \in Agent : AssignNodeAndEnqueueWakeup(n, agent)
    \/ \E agent \in Agent : MarkDispatchIncompleteIfMissingWakeup(n, agent)
    \/ EnqueueTurnCompleteRetry(n)
    \/ EnqueueTerminalFailureCompensation(n)

ClaimStep(k, w, a) ==
    \/ MarkWakeupSent(k, w, a)
    \/ RetryWakeup(k, w, a)
    \/ RetryWakeupWithNodeConfigPatch(k, w, a, config[NodeOf(k)])
    \/ FailWakeup(k, w, a)
    \/ FailWakeupAndFailNodeAndCancelDownstream(k, w, a)
    \/ \E t \in Thread : RecordNodeSpawn(k, w, a, t)
    \/ UpdateRunningNodeStatus(k, w, a)

Next ==
    \/ RunStep
    \/ SweepStep
    \/ \E n \in Node : NodeStep(n)
    \/ \E w \in Worker, S \in SUBSET Wakeup : ClaimDueWakeups(w, S)
    \/ \E k \in Wakeup : LeaseExpires(k)
    \/ \E k \in Wakeup, w \in Worker : ClaimStep(k, w, attempt[k])

Spec == Init /\ [][Next]_storeVars

(***************************************************************************)
(* Properties.                                                             *)
(***************************************************************************)

\* A node in a terminal status keeps it: every write of a status excludes the
\* terminal ones or compares with the status it read (late completions, late
\* failures, the cascade, the sweep and the termination of the run).
TerminalFrozen ==
    [][\A n \in Node : status[n] \in Terminal => status'[n] = status[n]]_storeVars

\* A finished run says what its nodes say: no node is left in the air, a
\* succeeded run has only done or skipped nodes, a failed run a failed one
\* (maybeFinalizeRunTx, terminateRunTx).
RunVerdict ==
    /\ runStatus \in Finished =>
          \A n \in Node : status[n] \in Terminal
    /\ runStatus = "succeeded" => \A n \in Node : status[n] \in {"done", "skipped"}
    /\ runStatus = "failed" => \E n \in Node : status[n] = "failed"

\* A finished run is over: neither a late transaction nor a wakeup still queued
\* changes its verdict, a node's status or the owner of a child thread.
FinishedRunFrozen ==
    [][(runStatus \in Finished) =>
          /\ runStatus' = runStatus
          /\ status' = status
          /\ spawningThread' = spawningThread]_storeVars

\* No node waits for a dependency that has failed: the cascade reaches every
\* pending node below the failed one, through whatever lies between
\* (cancelDownstreamTx).
NoPendingBelowFailed ==
    \A n \in Node : status[n] = "failed" =>
        \A m \in Downstream[n] : status[m] # "pending"

\* No promotion is lost: a node still pending has a dependency that is not done.
\* The completion of the last of several dependencies always promotes their
\* dependent, whatever the order (scheduleDownstreamWakeupsTx).
NoLostPromotion ==
    \A n \in Node : status[n] = "pending" =>
        \E d \in DependsOn[n] : status[d] # "done"

\* A downstream wakeup is queued only once all the dependencies are done, and
\* that stays so (tryEnqueueDownstream).
StartAfterDependencies ==
    \A n \in Node : wstatus[StartKey(n)] # "absent" =>
        \A d \in DependsOn[n] : status[d] = "done"

\* A wakeup that was sent or failed is never queued or claimed again: a late
\* dispatcher, the reclaimer and a repeated enqueue all leave it.
SettledWakeup ==
    [][\A k \in Wakeup :
          /\ wstatus[k] = "failed" => wstatus'[k] = "failed"
          /\ wstatus[k] = "sent" => wstatus'[k] \in {"sent", "failed"}]_storeVars

\* Retries are bounded: a wakeup is claimed more often than the retry limits
\* allow only when its lease expired in between (RetryTaskDagWakeup's guard).
AttemptBudget ==
    \A k \in Wakeup : \E b \in {MaxAttempts, DefaultAttempts, MaxExpiries + 1, 1} :
        attempt[k] <= b

\* What the properties above rest on: rows exist exactly while the run does, a
\* claim that expired is within the bound on expiries, and a wakeup that can be
\* claimed has an attempt left.
Bookkeeping ==
    /\ runStatus = "absent" => /\ \A n \in Node : status[n] = "absent"
                               /\ \A k \in Wakeup : wstatus[k] = "absent"
    /\ runStatus # "absent" => \A n \in Node : status[n] # "absent"
    /\ \A k \in Wakeup : lease[k] = "expired" => attempt[k] <= MaxExpiries
    /\ \A k \in Wakeup : wstatus[k] \in {"absent", "pending"} =>
          \E b \in {MaxAttempts, DefaultAttempts, MaxExpiries + 1, 1} : attempt[k] < b

=============================================================================

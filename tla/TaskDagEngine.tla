---------------------------- MODULE TaskDagEngine ----------------------------
(***************************************************************************)
(* The processes of cmd/mcp-orch that drive a workflow run over the store  *)
(* of TaskDagStore: the wakeup dispatchers (WakeupDispatcher.ProcessBatch  *)
(* down to the node router and the executors), the reclaimer, the child    *)
(* agent threads with the projection of their finished turns, and the      *)
(* tools task_start_dag, task_dispatch_node, task_update_node and          *)
(* task_terminate_dag.  A handler is cut where it leaves a transaction and *)
(* goes on with what it read, so the handlers interleave as they do in     *)
(* the program.                                                            *)
(*                                                                         *)
(* Abstractions.  A thread is launched once and runs one turn.  The lease  *)
(* heartbeat is the freedom of LeaseExpires to leave a lease alone; losing *)
(* it cancels the route, which shows only in the stop of a thread failing. *)
(* The replan strategy's planner agent is not followed.                    *)
(***************************************************************************)
EXTENDS TaskDagStore

CONSTANTS
    Automation,      \* the nodes of node_type automation; the others are agents
    OnFailure,       \* exec.on_failure's default: Node -> Strategy
    OnHard,          \* exec.on_failure's by_class entry for hard failures
    OnFailureAttempts, \* MaxAttemptsFor(on_failure)
    PolicyAttempts,  \* MaxAttempts of ResolveRetryPolicy
    FailureClasses,  \* the classes an execution or a launch may fail with
    Faults,          \* what else may go wrong: see below
    Tools,           \* bound: the tools that are called
    Dispatchable     \* bound: the statuses of the nodes task_dispatch_node is called for

Strategy == {"none", "retry", "patch", "replan", "fail_fast"}

ASSUME EngineAssumption ==
    /\ Automation \subseteq Node
    /\ OnFailure \in [Node -> Strategy]
    /\ OnHard \in [Node -> Strategy]
    /\ OnFailureAttempts \in Nat \ {0}
    /\ PolicyAttempts \in Nat \ {0}
    /\ FailureClasses \subseteq {"soft", "hard", "invalid"}
    /\ Faults \subseteq {"store", "stop", "prompt", "crash", "output"}
    /\ Tools \subseteq {"restart", "dispatch", "update", "terminate"}
    /\ Dispatchable \subseteq {"pending", "ready"}

VARIABLES
    batch,      \* per dispatcher: the claims <<wakeup, attempt>> not yet handled
    job,        \* per dispatcher: the claim it is routing
    thread,     \* the child threads: state, and the node they were launched for
    call,       \* the tool call in progress
    leased,     \* the assignees whose worker lease a caller of task_update_node holds
    toStop      \* the threads task_terminate_dag has yet to stop

procVars == <<batch, job, thread, call, leased, toStop>>
vars == <<storeVars, procVars>>

Pc == {"idle", "route", "launch", "record", "prompt", "advance", "execute",
       "complete", "send", "decide", "retry", "patch", "replan", "fail"}

Class == {"none", "soft", "hard", "invalid", "framework"}

Idle == [pc |-> "idle", k |-> None, a |-> 0, t |-> None, class |-> "none", c |-> 0]

NoCall == [tool |-> "none", n |-> None, read |-> None, arg |-> None]

ThreadState == {"free", "launched", "working", "ok", "bad", "stopped", "projected"}

EngineTypeOK ==
    /\ TypeOK
    /\ batch \in [Worker -> SUBSET (Wakeup \X Nat)]
    /\ job \in [Worker -> [pc : Pc, k : Wakeup \cup {None}, a : Nat,
                           t : Thread \cup {None}, class : Class, c : Nat]]
    /\ thread \in [Thread -> [state : ThreadState, node : Node \cup {None}]]
    /\ call \in [tool : {"none", "dispatch", "assign", "update"}, n : Node \cup {None},
                 read : NodeStatus \cup Agent \cup {None}, arg : NodeStatus \cup Agent \cup {None}]
    /\ leased \subseteq Agent
    /\ toStop \subseteq Thread

EngineInit ==
    /\ Init
    /\ batch = [w \in Worker |-> {}]
    /\ job = [w \in Worker |-> Idle]
    /\ thread = [t \in Thread |-> [state |-> "free", node |-> None]]
    /\ call = NoCall
    /\ leased = {}
    /\ toStop = {}

\* A guarded write is refused when its guard fails, or by a store error.
Refused(guard) == ~ guard \/ "store" \in Faults

(***************************************************************************)
(* A dispatcher: claim a batch, then route its wakeups one by one.         *)
(***************************************************************************)
At(w, pc) == job[w].pc = pc
Goto(w, pc) == job' = [job EXCEPT ![w].pc = pc]
Finish(w) == job' = [job EXCEPT ![w] = Idle]
Fails(w, class) == job' = [job EXCEPT ![w].pc = "decide", ![w].class = class]

Fence(w) == FenceHolds(job[w].k, w, job[w].a)
Target(w) == NodeOf(job[w].k)

ProcessBatch(w, S) ==
    /\ At(w, "idle") /\ batch[w] = {}
    /\ ClaimDueWakeups(w, S)
    /\ batch' = [batch EXCEPT ![w] = {<<k, attempt[k] + 1>> : k \in S}]
    /\ UNCHANGED <<job, thread, call, leased, toStop>>

Take(w, c) ==
    /\ At(w, "idle") /\ c \in batch[w]
    /\ batch' = [batch EXCEPT ![w] = @ \ {c}]
    /\ UNCHANGED <<thread, call, leased, toStop>>

Begin(w, c, pc) == job' = [job EXCEPT ![w] = [Idle EXCEPT !.pc = pc, !.k = c[1], !.a = c[2]]]

\* The wakeup of a lost failure is consumed; it never starts an agent.
ConsumeCompensation(w, c) ==
    /\ c[1] = CompensationKey(NodeOf(c[1]))
    /\ Take(w, c)
    /\ \/ FailWakeup(c[1], w, c[2])
       \/ Refused(FenceHolds(c[1], w, c[2])) /\ UNCHANGED storeVars
    /\ UNCHANGED job

Completable(n, k, a) ==
    runStatus = "running" /\ status[n] \in {"ready", "running"} /\ CompletionFence(n, k, a)

\* The wakeup of a lost completion replays it.
HandleTurnCompletionRetryWakeup(w, c) ==
    LET n == NodeOf(c[1])
    IN  /\ c[1] = RetryKey(n)
        /\ Take(w, c)
        /\ \/ CompleteNodeAndScheduleDownstream(n, None, 0) /\ Begin(w, c, "send")
           \/ ~ Completable(n, None, 0) /\ UNCHANGED storeVars /\ Begin(w, c, "send")
           \/ "store" \in Faults /\ UNCHANGED storeVars /\ Begin(w, c, "retry")

\* Any other wakeup is routed if its lease can be renewed, else dropped.
RenewClaimedWakeupLease(w, c) ==
    /\ c[1] \notin {CompensationKey(NodeOf(c[1])), RetryKey(NodeOf(c[1]))}
    /\ Take(w, c)
    /\ \/ FenceHolds(c[1], w, c[2]) /\ Begin(w, c, "route")
       \/ Refused(FenceHolds(c[1], w, c[2])) /\ UNCHANGED job
    /\ UNCHANGED storeVars

\* RouteByWakeup: read the node; a recorded spawn is not launched again.
RouteByWakeup(w) ==
    /\ At(w, "route")
    /\ \/ status[Target(w)] \in Terminal /\ Goto(w, "send")
       \/ /\ status[Target(w)] \notin Terminal
          /\ Goto(w, IF Target(w) \in Automation \/ spawningThread[Target(w)] # None
                     THEN "advance" ELSE "launch")
       \/ "store" \in Faults /\ Fails(w, "framework")
    /\ UNCHANGED <<storeVars, batch, thread, call, leased, toStop>>

\* Mutant of LaunchAgent: the thread has its prompt before the spawn is recorded.
LaunchWithPrompt(w) ==
    /\ At(w, "launch")
    /\ \E t \in Thread :
          /\ thread[t].state = "free"
          /\ thread' = [thread EXCEPT ![t] = [state |-> "working", node |-> Target(w)]]
          /\ job' = [job EXCEPT ![w].pc = "record", ![w].t = t]
    /\ UNCHANGED <<storeVars, batch, call, leased, toStop>>

\* Mutant of LaunchAgent: a failed launch is taken for a finished route.
LaunchFailureSent(w) ==
    /\ At(w, "launch")
    /\ FailureClasses # {} /\ Goto(w, "send")
    /\ UNCHANGED <<storeVars, batch, thread, call, leased, toStop>>

LaunchAgent(w) ==
    /\ At(w, "launch")
    /\ \/ \E t \in Thread :
             /\ thread[t].state = "free"
             /\ thread' = [thread EXCEPT ![t] = [state |-> "launched", node |-> Target(w)]]
             /\ job' = [job EXCEPT ![w].pc = "record", ![w].t = t]
       \/ \E class \in FailureClasses : Fails(w, class) /\ UNCHANGED thread
    /\ UNCHANGED <<storeVars, batch, call, leased, toStop>>

\* Stopping a thread; it can fail, and does when the route's context is gone.
\* The turn it interrupts may still be reported, as a failed one.
Stopped(t, mayFail) ==
    \/ \E end \in {"stopped", "bad"} :
          /\ end = "bad" => thread[t].state = "working"
          /\ thread' = [thread EXCEPT ![t].state =
                           IF @ \in {"launched", "working"} THEN end ELSE @]
    \/ (mayFail \/ "stop" \in Faults) /\ UNCHANGED thread

\* Mutant of RecordSpawn: the thread whose spawn was refused is not stopped.
RecordSpawnNoStop(w) ==
    LET t == job[w].t
    IN  /\ At(w, "record")
        /\ \/ /\ RecordNodeSpawn(job[w].k, w, job[w].a, t)
              /\ Goto(w, "prompt") /\ UNCHANGED thread
           \/ /\ Refused(/\ Fence(w) /\ spawningThread[Target(w)] \in {None, t}
                         /\ status[Target(w)] \notin Terminal)
              /\ Fails(w, "hard") /\ UNCHANGED <<storeVars, thread>>
        /\ UNCHANGED <<batch, call, leased, toStop>>

\* The spawn is recorded before the thread gets its prompt.
RecordSpawn(w) ==
    LET t == job[w].t
    IN  /\ At(w, "record")
        /\ \/ /\ RecordNodeSpawn(job[w].k, w, job[w].a, t)
              /\ Goto(w, "prompt") /\ UNCHANGED thread
           \/ /\ Refused(/\ Fence(w) /\ spawningThread[Target(w)] \in {None, t}
                         /\ status[Target(w)] \notin Terminal)
              /\ Fails(w, "hard") /\ Stopped(t, FALSE)
              /\ UNCHANGED storeVars
        /\ UNCHANGED <<batch, call, leased, toStop>>

SubmitInitialLaunchPrompt(w) ==
    LET t == job[w].t
    IN  /\ At(w, "prompt")
        /\ \/ /\ thread[t].state = "launched"
              /\ thread' = [thread EXCEPT ![t].state = "working"]
              /\ Goto(w, "advance")
           \/ /\ thread[t].state # "launched" \/ "prompt" \in Faults
              /\ Fails(w, "soft") /\ Stopped(t, FALSE)
        /\ UNCHANGED <<storeVars, batch, call, leased, toStop>>

\* Mutant of AdvanceNodeToRunning: the running write goes without the fence.
AdvanceUnfenced(w) ==
    LET n == Target(w)
    IN  /\ At(w, "advance")
        /\ status[n] \in {"pending", "ready"}
        /\ status' = [status EXCEPT ![n] = "running"]
        /\ activeWakeup' = [activeWakeup EXCEPT ![n] = job[w].k]
        /\ Goto(w, IF n \in Automation THEN "execute" ELSE "send")
        /\ UNCHANGED <<runStatus, assignedTo, spawningThread, config, wakeupVars,
                       batch, thread, call, leased, toStop>>

\* The running write: a node that left pending and ready was taken over by a
\* finished turn (agent) or by another dispatch (automation).
AdvanceNodeToRunning(w) ==
    LET n == Target(w)
    IN  /\ At(w, "advance")
        /\ \/ /\ UpdateRunningNodeStatus(job[w].k, w, job[w].a)
              /\ Goto(w, IF n \in Automation THEN "execute" ELSE "send")
              /\ UNCHANGED thread
           \/ /\ Fence(w) /\ status[n] \notin {"pending", "ready"}
              /\ IF n \in Automation THEN Fails(w, "framework") ELSE Goto(w, "send")
              /\ UNCHANGED <<storeVars, thread>>
           \/ /\ Refused(Fence(w))
              /\ Goto(w, "retry")
              /\ IF job[w].t = None THEN UNCHANGED thread ELSE Stopped(job[w].t, ~ Fence(w))
              /\ UNCHANGED storeVars
        /\ UNCHANGED <<batch, call, leased, toStop>>

ExecuteAutomation(w) ==
    /\ At(w, "execute")
    /\ \/ Goto(w, "complete")
       \/ \E class \in FailureClasses : Fails(w, class)
    /\ UNCHANGED <<storeVars, batch, thread, call, leased, toStop>>

CompleteAutomationNode(w) ==
    LET n == Target(w)
        k == job[w].k
    IN  /\ At(w, "complete")
        /\ \/ CompleteNodeAndScheduleDownstream(n, k, job[w].a) /\ Goto(w, "send")
           \/ /\ Refused(Completable(n, k, job[w].a)) /\ Fails(w, "framework")
              /\ UNCHANGED storeVars
        /\ UNCHANGED <<batch, thread, call, leased, toStop>>

MarkLaunched(w) ==
    /\ At(w, "send")
    /\ \/ MarkWakeupSent(job[w].k, w, job[w].a)
       \/ Refused(Fence(w)) /\ UNCHANGED storeVars
    /\ Finish(w)
    /\ UNCHANGED <<batch, thread, call, leased, toStop>>

(***************************************************************************)
(* What a dispatcher does about a failure.                                 *)
(***************************************************************************)

\* smartRetryStrategyFor: a hard failure is never retried.
StrategyFor(n, class) ==
    CASE class = "soft" -> OnFailure[n]
      [] class = "hard" /\ OnHard[n] \in {"replan", "fail_fast"} -> OnHard[n]
      [] class = "hard" /\ OnHard[n] = "none" /\ OnFailure[n] = "fail_fast" -> "fail_fast"
      [] OTHER -> "none"

\* handleFailedRouterOutcome and markTransientRetry: where the failure leads.
Decisions(n, class, a) ==
    LET strategy == StrategyFor(n, class)
    IN  IF class = "invalid" \/ strategy = "fail_fast" THEN {"fail"}
        ELSE IF strategy # "none"
        THEN IF a >= OnFailureAttempts THEN {"fail"}
             ELSE IF strategy = "patch"
             THEN IF n \in Automation THEN {"fail"} ELSE {"patch", "fail"}
             ELSE {strategy}
        ELSE IF class = "hard" \/ a >= PolicyAttempts THEN {"fail"} ELSE {"retry"}

\* The policy and the node's config are read here and used by the next step.
DecideFailure(w) ==
    /\ At(w, "decide")
    /\ \E d \in Decisions(Target(w), job[w].class, job[w].a)
                \cup (IF "store" \in Faults THEN {"fail"} ELSE {}) :
          job' = [job EXCEPT ![w].pc = d, ![w].c = config[Target(w)]]
    /\ UNCHANGED <<storeVars, batch, thread, call, leased, toStop>>

\* A refused retry, for the fence or the limit, turns into a failure.
RetryClaimed(w) ==
    /\ At(w, "retry")
    /\ \/ RetryWakeup(job[w].k, w, job[w].a) /\ Finish(w)
       \/ ~ (Fence(w) /\ attempt[job[w].k] < MaxAttempts) /\ Goto(w, "fail") /\ UNCHANGED storeVars
       \/ "store" \in Faults /\ Finish(w) /\ UNCHANGED storeVars
    /\ UNCHANGED <<batch, thread, call, leased, toStop>>

RetryWakeupWithSmartRetryConfig(w) ==
    LET n == Target(w)
    IN  /\ At(w, "patch")
        /\ \/ RetryWakeupWithNodeConfigPatch(job[w].k, w, job[w].a, job[w].c) /\ Finish(w)
           \/ /\ Refused(/\ Fence(w) /\ attempt[job[w].k] < DefaultAttempts
                         /\ config[n] = job[w].c /\ status[n] \notin Terminal)
              /\ Goto(w, "fail") /\ UNCHANGED storeVars
        /\ UNCHANGED <<batch, thread, call, leased, toStop>>

\* The planner is launched and the wakeup is done with; the node is left as it is.
SpawnReplanPlanner(w) ==
    /\ At(w, "replan")
    /\ Goto(w, "send") \/ (FailureClasses # {} /\ Goto(w, "fail"))
    /\ UNCHANGED <<storeVars, batch, thread, call, leased, toStop>>

\* Mutant of MarkPermanentDAGFailure: only the wakeup is failed, not its node.
FailOnlyWakeup(w) ==
    /\ At(w, "fail")
    /\ \/ FailWakeup(job[w].k, w, job[w].a)
       \/ Refused(Fence(w)) /\ UNCHANGED storeVars
    /\ Finish(w)
    /\ UNCHANGED <<batch, thread, call, leased, toStop>>

MarkPermanentDAGFailure(w) ==
    /\ At(w, "fail")
    /\ \/ FailWakeupAndFailNodeAndCancelDownstream(job[w].k, w, job[w].a)
       \/ /\ Refused(Fence(w) /\ status[Target(w)] \notin Terminal \cup {"absent"})
          /\ UNCHANGED storeVars
    /\ Finish(w)
    /\ UNCHANGED <<batch, thread, call, leased, toStop>>

\* The process dies and restarts: its claims are left to their leases.
\* Bound: only while the leases of all its claims can still expire.
Crash(w) ==
    /\ "crash" \in Faults
    /\ ~ At(w, "idle") \/ batch[w] # {}
    /\ \A k \in {c[1] : c \in batch[w]} \cup ({job[w].k} \ {None}) : attempt[k] <= MaxExpiries
    /\ batch' = [batch EXCEPT ![w] = {}]
    /\ Finish(w)
    /\ UNCHANGED <<storeVars, thread, call, leased, toStop>>

WorkerStep(w) ==
    \/ \E S \in SUBSET Wakeup : ProcessBatch(w, S)
    \/ \E c \in batch[w] :
          \/ ConsumeCompensation(w, c)
          \/ HandleTurnCompletionRetryWakeup(w, c)
          \/ RenewClaimedWakeupLease(w, c)
    \/ RouteByWakeup(w)
    \/ LaunchAgent(w)
    \/ RecordSpawn(w)
    \/ SubmitInitialLaunchPrompt(w)
    \/ AdvanceNodeToRunning(w)
    \/ ExecuteAutomation(w)
    \/ CompleteAutomationNode(w)
    \/ MarkLaunched(w)
    \/ DecideFailure(w)
    \/ RetryClaimed(w)
    \/ RetryWakeupWithSmartRetryConfig(w)
    \/ SpawnReplanPlanner(w)
    \/ MarkPermanentDAGFailure(w)

(***************************************************************************)
(* The child threads and the projection of their finished turns.           *)
(***************************************************************************)

\* External: the desktop runs the turn and reports how it ended.
TurnEnds(t) ==
    /\ thread[t].state = "working"
    /\ \E end \in {"ok", "bad"} : thread' = [thread EXCEPT ![t].state = end]
    /\ UNCHANGED <<storeVars, batch, job, call, leased, toStop>>

\* Mutant of AdvanceNodeDone: a store error is only logged.
AdvanceNodeDoneLogged(n) ==
    \/ CompleteNodeAndScheduleDownstream(n, None, 0)
    \/ n \in FaultNode /\ UNCHANGED storeVars

\* A write rejected because of the node's status is taken for a replay; a store
\* error leaves a repair wakeup behind.
AdvanceNodeDone(n) ==
    \/ CompleteNodeAndScheduleDownstream(n, None, 0)
    \/ ~ Completable(n, None, 0) /\ UNCHANGED storeVars
    \/ status[n] \notin Terminal /\ EnqueueTurnCompleteRetry(n)

AdvanceNodeFailed(n) ==
    \/ FailNodeAndCancelDownstream(n)
    \/ status[n] \in Terminal /\ UNCHANGED storeVars
    \/ status[n] \notin Terminal /\ EnqueueTerminalFailureCompensation(n)

\* projectDAGTurnCompleted: advance the node that recorded the thread, then stop
\* the thread.  An output that cannot be materialised fails the node.
ProjectDAGTurnCompleted(t) ==
    LET n == thread[t].node
    IN  /\ thread[t].state \in {"ok", "bad"}
        /\ \/ spawningThread[n] # t /\ UNCHANGED storeVars
           \/ /\ spawningThread[n] = t
              /\ \/ thread[t].state = "ok" /\ AdvanceNodeDone(n)
                 \/ thread[t].state = "bad" /\ AdvanceNodeFailed(n)
                 \/ "output" \in Faults /\ AdvanceNodeFailed(n)
        /\ thread' = [thread EXCEPT ![t].state = "projected"]
        /\ UNCHANGED <<batch, job, call, leased, toStop>>

(***************************************************************************)
(* The reclaimer.  ReclaimOnce runs its two transactions one after the     *)
(* other; either may find nothing to do, and a store error or a restart    *)
(* between them skips the second, so any sequence of the two is possible.  *)
(***************************************************************************)
ReclaimOnce ==
    /\ ReclaimStaleDispatchingWakeups \/ MarkDispatchIncompleteNodesWithoutActiveWakeup
    /\ UNCHANGED procVars

Expire(k) == LeaseExpires(k) /\ UNCHANGED procVars

(***************************************************************************)
(* The tools.  One call of task_dispatch_node or task_update_node is in    *)
(* progress at a time; what it reads may be stale when it writes.          *)
(***************************************************************************)
StartTool ==
    /\ StartDAG \/ ("restart" \in Tools /\ RestartDAG)
    /\ UNCHANGED procVars

DispatchRead(n, agent) ==
    /\ "dispatch" \in Tools /\ call = NoCall
    /\ status[n] \in Dispatchable
    /\ call' = [tool |-> IF assignedTo[n] = None THEN "assign" ELSE "dispatch",
                n |-> n, read |-> assignedTo[n], arg |-> agent]
    /\ UNCHANGED <<storeVars, batch, job, thread, leased, toStop>>

\* The preflight: an assigned node without a wakeup is marked and refused.
BlockDispatchIncomplete ==
    /\ call.tool = "dispatch"
    /\ \/ MarkDispatchIncompleteIfMissingWakeup(call.n, call.read) /\ call' = NoCall
       \/ /\ ~ (DispatchIncomplete(call.n) /\ assignedTo[call.n] = call.read)
          /\ call' = [call EXCEPT !.tool = "assign"]
          /\ UNCHANGED storeVars
    /\ UNCHANGED <<batch, job, thread, leased, toStop>>

AssignAndEnqueueDispatch ==
    /\ call.tool = "assign"
    /\ \/ AssignNodeAndEnqueueWakeup(call.n, call.arg)
       \/ status[call.n] \notin {"pending", "ready"} /\ UNCHANGED storeVars
    /\ call' = NoCall
    /\ UNCHANGED <<batch, job, thread, leased, toStop>>

\* The worker lease of the node's assignee: ready -> running takes it, any other
\* update needs it.  A caller whose lease has expired is refused, which is the
\* same as not calling.
ValidateLease(n, to) ==
    /\ assignedTo[n] # None
    /\ \/ /\ status[n] = "ready" /\ to = "running"
          /\ leased' = leased \cup {assignedTo[n]}
       \/ assignedTo[n] \in leased /\ UNCHANGED leased

\* validateNodeTransition reads the node, then the lease is checked.
UpdateRead(n, to) ==
    /\ "update" \in Tools /\ call = NoCall
    /\ <<status[n], to>> \in LegalTransition
    /\ ValidateLease(n, to)
    /\ call' = [tool |-> "update", n |-> n, read |-> status[n], arg |-> to]
    /\ UNCHANGED <<storeVars, batch, job, thread, toStop>>

\* done and failed do not compare the status with the one read.
UpdateWrite ==
    LET n == call.n
    IN  /\ call.tool = "update"
        /\ \/ /\ call.arg = "done"
              /\ \/ CompleteNodeAndScheduleDownstream(n, None, 0)
                 \/ ~ Completable(n, None, 0) /\ UNCHANGED storeVars
           \/ /\ call.arg = "failed"
              /\ \/ FailNodeAndCancelDownstream(n)
                 \/ status[n] \in Terminal /\ UNCHANGED storeVars
           \/ /\ call.arg \notin {"done", "failed"}
              /\ \/ UpdateNodeStatus(n, call.read, call.arg)
                 \/ status[n] # call.read /\ UNCHANGED storeVars
        /\ call' = NoCall
        /\ UNCHANGED <<batch, job, thread, leased, toStop>>

\* Mutant of TerminateDAG: the threads are listed after the nodes were cancelled.
TerminateThenList ==
    /\ "terminate" \in Tools
    /\ TerminateRun
    /\ toStop' = {spawningThread[n] : n \in {m \in Node : status'[m] \notin Terminal}} \ {None}
    /\ UNCHANGED <<batch, job, thread, call, leased>>

TerminateDAG ==
    /\ "terminate" \in Tools
    /\ TerminateRun
    /\ toStop' = {spawningThread[n] : n \in Node} \ {None}
    /\ UNCHANGED <<batch, job, thread, call, leased>>

StopSpawnedAgentThread(t) ==
    /\ t \in toStop
    /\ toStop' = toStop \ {t}
    /\ Stopped(t, FALSE)
    /\ UNCHANGED <<storeVars, batch, job, call, leased>>

ToolStep ==
    \/ StartTool
    \/ \E n \in Node, agent \in Agent : DispatchRead(n, agent)
    \/ BlockDispatchIncomplete
    \/ AssignAndEnqueueDispatch
    \/ \E n \in Node, to \in NodeStatus : UpdateRead(n, to)
    \/ UpdateWrite
    \/ TerminateDAG
    \/ \E t \in Thread : StopSpawnedAgentThread(t)

EngineNext ==
    \/ \E w \in Worker : WorkerStep(w) \/ Crash(w)
    \/ \E t \in Thread : TurnEnds(t) \/ ProjectDAGTurnCompleted(t)
    \/ ReclaimOnce
    \/ \E k \in Wakeup : Expire(k)
    \/ ToolStep

EngineSpec == EngineInit /\ [][EngineNext]_vars

\* The dispatchers and the reclaimer are tickers, a turn ends, its event is
\* delivered, a tool call in progress goes on, time passes and the caller starts
\* the run and dispatches a node that is ready and has no assignee.  Nothing
\* else is promised: no tool call, crash or restart need ever happen.
Fairness ==
    /\ \A w \in Worker : WF_vars(WorkerStep(w))
    /\ \A t \in Thread : WF_vars(TurnEnds(t)) /\ WF_vars(ProjectDAGTurnCompleted(t))
    /\ \A t \in Thread : WF_vars(StopSpawnedAgentThread(t))
    /\ WF_vars(ReclaimOnce)
    /\ \A k \in Wakeup : WF_vars(Expire(k))
    /\ WF_vars(StartTool)
    /\ WF_vars(BlockDispatchIncomplete \/ AssignAndEnqueueDispatch \/ UpdateWrite)
    /\ \A n \in Node : WF_vars(/\ status[n] = "ready" /\ assignedTo[n] = None
                               /\ \E agent \in Agent : DispatchRead(n, agent))

FairSpec == EngineSpec /\ Fairness

(***************************************************************************)
(* Properties.                                                             *)
(***************************************************************************)

\* The processes only ever touch the run, the nodes and the wakeups through the
\* transactions of the store: what is proved of TaskDagStore holds here.
StoreSpec == Spec

\* One agent works on a node: a thread with a prompt is the one the node has
\* recorded, whatever crashes, expired leases and second dispatches do, because
\* the spawn is recorded before the prompt (LaunchAgentWithSpawnRecord).
SingleAgent ==
    \A t \in Thread : thread[t].state \in {"working", "ok", "bad"} =>
        spawningThread[thread[t].node] = t

\* No thread is left over: one that was launched and has no prompt is still in
\* the hands of the dispatcher that launched it (as long as nothing crashes and
\* stopping a thread works).
NoStrayThread ==
    \A t \in Thread : thread[t].state = "launched" =>
        \E w \in Worker : job[w].t = t /\ job[w].pc \in {"record", "prompt"}

\* After task_terminate_dag has stopped what it listed, no agent of the run works
\* on: a thread launched during the termination cannot be recorded any more, and
\* one recorded before it is on the list (terminateRunTx, runSpawnedThreadIDs).
TerminatedQuiet ==
    runStatus = "cancelled" /\ toStop = {} =>
        \A t \in Thread : thread[t].state # "working"

\* The end of a turn is not lost: once it is projected, its node has ended or a
\* repair wakeup was queued, even when the turn ends before the dispatcher wrote
\* running (advanceNodeDone, advanceNodeFailedWithReason).
TurnNotLost ==
    \A t \in Thread : thread[t].state = "projected" =>
        LET n == thread[t].node
        IN  \/ status[n] \in Terminal
            \/ wstatus[RetryKey(n)] # "absent" \/ wstatus[CompensationKey(n)] # "absent"

\* A dispatch wakeup that was sent has done its work: its node is running or has
\* ended (markLaunched after the running write); only replan leaves it waiting.
SentIsTaken ==
    \A n \in Node : OnFailure[n] # "replan" /\ OnHard[n] # "replan" =>
        \A k \in Wakeup : NodeOf(k) = n /\ wstatus[k] = "sent" =>
            status[n] \notin {"pending", "ready"}

\* An automation node is executed by one dispatcher at a time: two dispatchers
\* that hold two wakeups of it cannot both win the running write, and an expired
\* claim is not taken over while the node runs (ReclaimStaleDispatchingWakeups).
AutomationExclusive ==
    \A v, w \in Worker :
        /\ v # w
        /\ job[v].pc \in {"execute", "complete"} /\ job[w].pc \in {"execute", "complete"}
        => Target(v) # Target(w)

\* Every run comes to an end, through retries, store errors in the completion of
\* a node and races of the projection with the dispatcher, as long as no lease is
\* lost, nothing crashes and prompts arrive; only a failure that could not be
\* written is left to the operator, as a compensation wakeup.
RunEnds ==
    (runStatus = "running") ~>
        \/ runStatus \in Finished
        \/ \E n \in Node : wstatus[CompensationKey(n)] # "absent"

(***************************************************************************)
(* What the documentation or a comment says and the program does not do;   *)
(* TLC finds these, and TurnNotLost with Dispatchable pending, violated.   *)
(***************************************************************************)

\* The sweep is for half-written dispatches ("扫描历史半写 runtime node"): it leaves
\* alone a node that waits for its dependencies
\* (MarkDispatchIncompleteNodesWithoutActiveWakeup).
SweepSparesWaiting ==
    [][\A n \in Node : status[n] = "pending" /\ (\E d \in DependsOn[n] : status[d] # "done")
          => status'[n] # "dispatch_incomplete"]_vars

\* running means that an executor has taken over ("executor 已接管"): a running
\* agent node has an agent that works or has worked for it
\* (dispatchRecordedAgentSpawn after a failed prompt).
RunningHasAgent ==
    \A n \in Node : status[n] = "running" /\ n \notin Automation =>
        \E t \in Thread : /\ spawningThread[n] = t
                          /\ thread[t].state \in {"working", "ok", "bad", "projected"}

\* A claim whose lease has expired is reclaimed, "只依赖 lease_expires_at"
\* (the SQL excludes the wakeup a running node points to).
StaleClaimReclaimed ==
    \A k \in Wakeup :
        (wstatus[k] = "dispatching" /\ lease[k] = "expired") ~> (wstatus[k] # "dispatching")

=============================================================================

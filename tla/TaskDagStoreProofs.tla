------------------------- MODULE TaskDagStoreProofs -------------------------
(***************************************************************************)
(* Proofs about TaskDagStore, for every DAG, every set of agents, workers  *)
(* and threads and every bound.                                            *)
(***************************************************************************)
EXTENDS TaskDagStore, TLAPS

(***************************************************************************)
(* Type correctness.                                                       *)
(***************************************************************************)

\* The keys the store builds are wakeups of the node they are built for.
LEMMA KeyTypes ==
    /\ \A n \in Node : /\ StartKey(n) \in Wakeup /\ NodeOf(StartKey(n)) = n
                       /\ RetryKey(n) \in Wakeup /\ NodeOf(RetryKey(n)) = n
                       /\ CompensationKey(n) \in Wakeup /\ NodeOf(CompensationKey(n)) = n
    /\ \A n \in Node, a \in Agent : ManualKey(n, a) \in Wakeup /\ NodeOf(ManualKey(n, a)) = n
    /\ \A k \in Wakeup : NodeOf(k) \in Node
  BY DEF StartKey, RetryKey, CompensationKey, ManualKey, NodeOf, Wakeup, Slot

\* Inserting wakeups keeps the types of the wakeup table.
LEMMA EnqueueType ==
  ASSUME TypeOK, NEW S, Enqueue(S)
  PROVE  /\ wstatus' \in [Wakeup -> WakeupStatus]
         /\ attempt' \in [Wakeup -> Nat]
         /\ claimedBy' \in [Wakeup -> Worker \cup {None}]
         /\ lease' \in [Wakeup -> {"none", "live", "expired"}]
  BY DEF TypeOK, Enqueue, WakeupStatus

\* Releasing claims keeps the types of the wakeup table.
LEMMA ReleaseType ==
  ASSUME TypeOK, NEW S, NEW s \in WakeupStatus, Release(S, s)
  PROVE  /\ wstatus' \in [Wakeup -> WakeupStatus]
         /\ attempt' \in [Wakeup -> Nat]
         /\ claimedBy' \in [Wakeup -> Worker \cup {None}]
         /\ lease' \in [Wakeup -> {"none", "live", "expired"}]
  BY DEF TypeOK, Release

\* Finalising a run gives it a status of the table.
LEMMA FinalizedType ==
  ASSUME TypeOK, NEW st
  PROVE  FinalizedRun(st) \in RunStatus
  BY DEF TypeOK, FinalizedRun, RunStatus, Finished

\* Failing a node keeps the types of the node table.
LEMMA FailNodeType ==
  ASSUME TypeOK, NEW n \in Node, FailNodeTx(n)
  PROVE  /\ runStatus' \in RunStatus
         /\ status' \in [Node -> NodeStatus]
         /\ UNCHANGED <<assignedTo, activeWakeup, spawningThread, config>>
  BY FinalizedType DEF TypeOK, FailNodeTx, NodeStatus, Terminal

\* One proof per transaction, grouped as Next is.
LEMMA RunStepType ==
  ASSUME TypeOK, RunStep
  PROVE  TypeOK'
<1>1. CASE StartDAG
  <2>1. status' \in [Node -> NodeStatus] /\ runStatus' \in RunStatus /\ assignedTo' = Assignee
    BY <1>1 DEF StartDAG, NodeStatus, RunStatus
  <2>2. PICK S : Enqueue(S)
    BY <1>1 DEF StartDAG
  <2> QED
    BY <1>1, <2>1, <2>2, EnqueueType, NodeAssumption DEF StartDAG, TypeOK
<1>2. CASE RestartDAG
  <2>1. PICK S : Enqueue(S)
    BY <1>2 DEF RestartDAG
  <2> QED
    BY <1>2, <2>1, EnqueueType DEF RestartDAG, TypeOK, nodeVars
<1>3. CASE TerminateRun
  <2>1. PICK S : Release(S, "failed")
    BY <1>3 DEF TerminateRun
  <2>2. status' \in [Node -> NodeStatus] /\ activeWakeup' \in [Node -> Wakeup \cup {None}]
    BY <1>3 DEF TerminateRun, TypeOK, NodeStatus, Terminal
  <2>3. runStatus' \in RunStatus
    BY <1>3 DEF TerminateRun, RunStatus, Finished
  <2>4. "failed" \in WakeupStatus
    BY DEF WakeupStatus
  <2> QED
    BY <1>3, <2>1, <2>2, <2>3, <2>4, ReleaseType DEF TerminateRun, TypeOK
<1> QED
  BY <1>1, <1>2, <1>3 DEF RunStep

LEMMA SweepStepType ==
  ASSUME TypeOK, SweepStep
  PROVE  TypeOK'
<1>1. CASE ReclaimStaleDispatchingWakeups
  <2>1. PICK S : Release(S, "pending")
    BY <1>1 DEF ReclaimStaleDispatchingWakeups
  <2>2. "pending" \in WakeupStatus
    BY DEF WakeupStatus
  <2> QED
    BY <1>1, <2>1, <2>2, ReleaseType DEF ReclaimStaleDispatchingWakeups, TypeOK, nodeVars
<1>2. CASE MarkDispatchIncompleteNodesWithoutActiveWakeup
  BY <1>2 DEF MarkDispatchIncompleteNodesWithoutActiveWakeup, TypeOK, NodeStatus, wakeupVars
<1> QED
  BY <1>1, <1>2 DEF SweepStep

LEMMA NodeStepType ==
  ASSUME TypeOK, NEW n \in Node, NodeStep(n)
  PROVE  TypeOK'
<1>1. ASSUME NEW k, NEW a, CompleteNodeAndScheduleDownstream(n, k, a)
      PROVE  TypeOK'
  <2>1. PICK S : Enqueue(S)
    BY <1>1 DEF CompleteNodeAndScheduleDownstream
  <2>2. PICK st : runStatus' = FinalizedRun(st)
    BY <1>1 DEF CompleteNodeAndScheduleDownstream
  <2>3. status' \in [Node -> NodeStatus] /\ activeWakeup' \in [Node -> Wakeup \cup {None}]
    BY <1>1 DEF CompleteNodeAndScheduleDownstream, TypeOK, NodeStatus, Terminal
  <2>4. runStatus' \in RunStatus
    BY <2>2, FinalizedType
  <2>5. UNCHANGED <<assignedTo, spawningThread, config>>
    BY <1>1 DEF CompleteNodeAndScheduleDownstream
  <2> QED
    BY <2>1, <2>3, <2>4, <2>5, EnqueueType DEF TypeOK
<1>2. CASE FailNodeAndCancelDownstream(n)
  BY <1>2, FailNodeType DEF FailNodeAndCancelDownstream, TypeOK, wakeupVars
<1>3. ASSUME NEW tr \in LegalTransition, UpdateNodeStatus(n, tr[1], tr[2])
      PROVE  TypeOK'
  <2>1. tr[2] \in NodeStatus
    BY DEF LegalTransition, NodeStatus, Terminal
  <2> QED
    BY <1>3, <2>1 DEF UpdateNodeStatus, TypeOK, wakeupVars
<1>4. ASSUME NEW agent \in Agent, AssignNodeAndEnqueueWakeup(n, agent)
      PROVE  TypeOK'
  BY <1>4, EnqueueType DEF AssignNodeAndEnqueueWakeup, TypeOK
<1>5. ASSUME NEW agent \in Agent, MarkDispatchIncompleteIfMissingWakeup(n, agent)
      PROVE  TypeOK'
  BY <1>5 DEF MarkDispatchIncompleteIfMissingWakeup, TypeOK, NodeStatus, wakeupVars
<1>6. CASE EnqueueTurnCompleteRetry(n)
  BY <1>6, EnqueueType DEF EnqueueTurnCompleteRetry, TypeOK, nodeVars
<1>7. CASE EnqueueTerminalFailureCompensation(n)
  BY <1>7, EnqueueType DEF EnqueueTerminalFailureCompensation, TypeOK, nodeVars
<1> QED
  BY <1>1, <1>2, <1>3, <1>4, <1>5, <1>6, <1>7 DEF NodeStep

LEMMA ClaimStepType ==
  ASSUME TypeOK, NEW k \in Wakeup, NEW w \in Worker, NEW a, ClaimStep(k, w, a)
  PROVE  TypeOK'
<1>0. NodeOf(k) \in Node /\ {"pending", "sent", "failed"} \subseteq WakeupStatus
  BY KeyTypes DEF WakeupStatus
<1>1. CASE MarkWakeupSent(k, w, a)
  BY <1>0, <1>1 DEF MarkWakeupSent, TypeOK, nodeVars
<1>2. CASE RetryWakeup(k, w, a)
  BY <1>0, <1>2, ReleaseType DEF RetryWakeup, TypeOK, nodeVars
<1>3. CASE RetryWakeupWithNodeConfigPatch(k, w, a, config[NodeOf(k)])
  BY <1>0, <1>3, ReleaseType DEF RetryWakeupWithNodeConfigPatch, TypeOK
<1>4. CASE FailWakeup(k, w, a)
  BY <1>0, <1>4, ReleaseType DEF FailWakeup, TypeOK, nodeVars
<1>5. CASE FailWakeupAndFailNodeAndCancelDownstream(k, w, a)
  BY <1>0, <1>5, ReleaseType, FailNodeType DEF FailWakeupAndFailNodeAndCancelDownstream, TypeOK
<1>6. ASSUME NEW t \in Thread, RecordNodeSpawn(k, w, a, t)
      PROVE  TypeOK'
  BY <1>0, <1>6 DEF RecordNodeSpawn, TypeOK, wakeupVars
<1>7. CASE UpdateRunningNodeStatus(k, w, a)
  BY <1>0, <1>7 DEF UpdateRunningNodeStatus, TypeOK, wakeupVars, NodeStatus
<1> QED
  BY <1>1, <1>2, <1>3, <1>4, <1>5, <1>6, <1>7 DEF ClaimStep

\* Every transaction keeps every column within its domain.
THEOREM TypeInvariance == Spec => []TypeOK
<1>1. Init => TypeOK
  BY DEF Init, TypeOK, RunStatus, NodeStatus, WakeupStatus
<1>2. TypeOK /\ [Next]_storeVars => TypeOK'
  <2> SUFFICES ASSUME TypeOK, [Next]_storeVars PROVE TypeOK'
    OBVIOUS
  <2>1. ASSUME NEW w \in Worker, NEW S \in SUBSET Wakeup, ClaimDueWakeups(w, S)
        PROVE  TypeOK'
    BY <2>1 DEF ClaimDueWakeups, TypeOK, WakeupStatus, nodeVars
  <2>2. ASSUME NEW k \in Wakeup, LeaseExpires(k)
        PROVE  TypeOK'
    BY <2>2 DEF LeaseExpires, TypeOK, nodeVars
  <2>3. CASE UNCHANGED storeVars
    BY <2>3 DEF storeVars, nodeVars, wakeupVars, TypeOK
  <2> QED
    BY <2>1, <2>2, <2>3, RunStepType, SweepStepType, NodeStepType, ClaimStepType DEF Next
<1> QED
  BY <1>1, <1>2, PTL DEF Spec

(***************************************************************************)
(* What a transaction may do to the run's and the nodes' statuses.  Four   *)
(* of them write the terminal statuses done and failed or touch the run;   *)
(* all the others only move a node that is not terminal.                   *)
(***************************************************************************)
PlainStep ==
    /\ runStatus' = runStatus
    /\ \A m \in Node :
         \/ status'[m] = status[m]
         \/ /\ status[m] \notin Terminal \cup {"absent"}
            /\ status'[m] \in {"ready", "running", "retrying", "cancelled", "dispatch_incomplete"}

LEMMA RunStepEffect ==
  ASSUME TypeOK, RunStep
  PROVE  StartDAG \/ TerminateRun \/ PlainStep
  BY DEF RunStep, RestartDAG, PlainStep, nodeVars

LEMMA SweepStepEffect ==
  ASSUME TypeOK, SweepStep
  PROVE  PlainStep
<1>1. CASE ReclaimStaleDispatchingWakeups
  BY <1>1 DEF ReclaimStaleDispatchingWakeups, PlainStep, nodeVars
<1>2. CASE MarkDispatchIncompleteNodesWithoutActiveWakeup
  BY <1>2 DEF MarkDispatchIncompleteNodesWithoutActiveWakeup, DispatchIncomplete, PlainStep,
              TypeOK, Terminal
<1> QED
  BY <1>1, <1>2 DEF SweepStep

LEMMA NodeStepEffect ==
  ASSUME TypeOK, NEW n \in Node, NodeStep(n)
  PROVE  \/ \E k \in Wakeup \cup {None}, a \in Nat : CompleteNodeAndScheduleDownstream(n, k, a)
         \/ FailNodeTx(n)
         \/ PlainStep
<1>1. CASE CompleteNodeAndScheduleDownstream(n, None, 0)
  BY <1>1
<1>2. ASSUME NEW k \in Wakeup, CompleteNodeAndScheduleDownstream(n, k, attempt[k])
      PROVE  \E kk \in Wakeup \cup {None}, a \in Nat : CompleteNodeAndScheduleDownstream(n, kk, a)
  BY <1>2 DEF TypeOK
<1>3. CASE FailNodeAndCancelDownstream(n)
  BY <1>3 DEF FailNodeAndCancelDownstream
<1>4. ASSUME NEW tr \in LegalTransition, UpdateNodeStatus(n, tr[1], tr[2])
      PROVE  PlainStep
  <2>1. /\ tr[1] \notin Terminal \cup {"absent"}
        /\ tr[2] \notin {"done", "failed"} =>
             tr[2] \in {"ready", "running", "retrying", "cancelled", "dispatch_incomplete"}
    BY DEF LegalTransition, Terminal
  <2> QED
    BY <1>4, <2>1 DEF UpdateNodeStatus, PlainStep, TypeOK
<1>5. ASSUME NEW agent \in Agent, AssignNodeAndEnqueueWakeup(n, agent)
      PROVE  PlainStep
  BY <1>5 DEF AssignNodeAndEnqueueWakeup, PlainStep
<1>6. ASSUME NEW agent \in Agent, MarkDispatchIncompleteIfMissingWakeup(n, agent)
      PROVE  PlainStep
  BY <1>6 DEF MarkDispatchIncompleteIfMissingWakeup, DispatchIncomplete, PlainStep, TypeOK, Terminal
<1>7. CASE EnqueueTurnCompleteRetry(n)
  BY <1>7 DEF EnqueueTurnCompleteRetry, PlainStep, nodeVars
<1>8. CASE EnqueueTerminalFailureCompensation(n)
  BY <1>8 DEF EnqueueTerminalFailureCompensation, PlainStep, nodeVars
<1> QED
  BY <1>1, <1>2, <1>3, <1>4, <1>5, <1>6, <1>7, <1>8 DEF NodeStep

LEMMA ClaimStepEffect ==
  ASSUME TypeOK, NEW k \in Wakeup, NEW w \in Worker, NEW a, ClaimStep(k, w, a)
  PROVE  FailNodeTx(NodeOf(k)) \/ PlainStep
<1>1. CASE MarkWakeupSent(k, w, a)
  BY <1>1 DEF MarkWakeupSent, PlainStep, nodeVars
<1>2. CASE RetryWakeup(k, w, a)
  BY <1>2 DEF RetryWakeup, PlainStep, nodeVars
<1>3. CASE RetryWakeupWithNodeConfigPatch(k, w, a, config[NodeOf(k)])
  BY <1>3 DEF RetryWakeupWithNodeConfigPatch, PlainStep
<1>4. CASE FailWakeup(k, w, a)
  BY <1>4 DEF FailWakeup, PlainStep, nodeVars
<1>5. CASE FailWakeupAndFailNodeAndCancelDownstream(k, w, a)
  BY <1>5 DEF FailWakeupAndFailNodeAndCancelDownstream
<1>6. ASSUME NEW t \in Thread, RecordNodeSpawn(k, w, a, t)
      PROVE  PlainStep
  BY <1>6 DEF RecordNodeSpawn, PlainStep
<1>7. CASE UpdateRunningNodeStatus(k, w, a)
  BY <1>7, KeyTypes DEF UpdateRunningNodeStatus, PlainStep, TypeOK, Terminal
<1> QED
  BY <1>1, <1>2, <1>3, <1>4, <1>5, <1>6, <1>7 DEF ClaimStep

LEMMA NodeEffect ==
  ASSUME TypeOK, [Next]_storeVars
  PROVE  \/ StartDAG
         \/ TerminateRun
         \/ \E n \in Node, k \in Wakeup \cup {None}, a \in Nat :
               CompleteNodeAndScheduleDownstream(n, k, a)
         \/ \E n \in Node : FailNodeTx(n)
         \/ PlainStep
<1>1. ASSUME NEW w \in Worker, NEW S \in SUBSET Wakeup, ClaimDueWakeups(w, S)
      PROVE  PlainStep
  BY <1>1 DEF ClaimDueWakeups, PlainStep, nodeVars
<1>2. ASSUME NEW k \in Wakeup, LeaseExpires(k)
      PROVE  PlainStep
  BY <1>2 DEF LeaseExpires, PlainStep, nodeVars
<1>3. CASE UNCHANGED storeVars
  BY <1>3 DEF storeVars, nodeVars, PlainStep
<1> QED
  BY <1>1, <1>2, <1>3, RunStepEffect, SweepStepEffect, NodeStepEffect, ClaimStepEffect, KeyTypes
  DEF Next

(***************************************************************************)
(* What a transaction may do to one wakeup: nothing, or one of six moves.  *)
(***************************************************************************)
Untouched(k) ==
    wstatus'[k] = wstatus[k] /\ attempt'[k] = attempt[k] /\ lease'[k] = lease[k]
Enqueued(k) ==
    /\ wstatus[k] = "absent" /\ wstatus'[k] = "pending"
    /\ attempt'[k] = attempt[k] /\ lease'[k] = lease[k]
    /\ StartDAG \/ \E n \in Node : status[n] # "absent"
Claimed(k) ==
    /\ wstatus[k] = "pending" /\ wstatus'[k] = "dispatching"
    /\ attempt'[k] = attempt[k] + 1 /\ lease'[k] = "live"
Expired(k) ==
    /\ wstatus[k] = "dispatching" /\ wstatus'[k] = "dispatching"
    /\ attempt[k] <= MaxExpiries
    /\ attempt'[k] = attempt[k] /\ lease'[k] = "expired"
Sent(k) ==
    /\ wstatus[k] = "dispatching" /\ wstatus'[k] = "sent"
    /\ attempt'[k] = attempt[k] /\ lease'[k] = lease[k]
Requeued(k) ==
    /\ wstatus[k] = "dispatching" /\ wstatus'[k] = "pending"
    /\ attempt[k] < MaxAttempts \/ attempt[k] < DefaultAttempts \/ lease[k] = "expired"
    /\ attempt'[k] = attempt[k] /\ lease'[k] = "none"
Failed(k) ==
    /\ wstatus[k] \in {"pending", "dispatching", "sent"} /\ wstatus'[k] = "failed"
    /\ attempt'[k] = attempt[k] /\ lease'[k] = "none"

Moved(k) ==
    Untouched(k) \/ Enqueued(k) \/ Claimed(k) \/ Expired(k) \/ Sent(k) \/ Requeued(k) \/ Failed(k)

\* Inserting wakeups moves each of them from absent to pending or not at all.
LEMMA EnqueueMoves ==
  ASSUME TypeOK, NEW S, Enqueue(S), StartDAG \/ \E n \in Node : status[n] # "absent",
         NEW k \in Wakeup
  PROVE  Moved(k)
  BY DEF TypeOK, Enqueue, Moved, Untouched, Enqueued

\* A claimed wakeup that fails under its fence.
LEMMA FailReleaseMoves ==
  ASSUME TypeOK, NEW q \in Wakeup, NEW w, NEW a, FenceHolds(q, w, a), Release({q}, "failed"),
         NEW k \in Wakeup
  PROVE  Moved(k)
  BY DEF TypeOK, FenceHolds, Release, Moved, Untouched, Failed

LEMMA RunStepMoves ==
  ASSUME TypeOK, Bookkeeping, RunStep, NEW k \in Wakeup
  PROVE  Moved(k)
<1>1. CASE StartDAG
  <2>1. PICK S : Enqueue(S)
    BY <1>1 DEF StartDAG
  <2> QED
    BY <1>1, <2>1, EnqueueMoves
<1>2. CASE RestartDAG
  <2>1. PICK S : Enqueue(S)
    BY <1>2 DEF RestartDAG
  <2>2. CASE \E n \in Node : status[n] # "absent"
    BY <2>1, <2>2, EnqueueMoves
  <2>3. CASE \A n \in Node : status[n] = "absent"
    <3>1. NodeOf(k) \in Node /\ runStatus = "running"
      BY <1>2, KeyTypes DEF RestartDAG
    <3> QED
      BY <2>3, <3>1 DEF Bookkeeping
  <2> QED
    BY <2>2, <2>3
<1>3. CASE TerminateRun
  BY <1>3 DEF TerminateRun, Release, TypeOK, Moved, Untouched, Failed
<1> QED
  BY <1>1, <1>2, <1>3 DEF RunStep

LEMMA SweepStepMoves ==
  ASSUME TypeOK, SweepStep, NEW k \in Wakeup
  PROVE  Moved(k)
<1>1. CASE ReclaimStaleDispatchingWakeups
  BY <1>1 DEF ReclaimStaleDispatchingWakeups, Release, TypeOK, Moved, Untouched, Requeued
<1>2. CASE MarkDispatchIncompleteNodesWithoutActiveWakeup
  BY <1>2 DEF MarkDispatchIncompleteNodesWithoutActiveWakeup, wakeupVars, Moved, Untouched
<1> QED
  BY <1>1, <1>2 DEF SweepStep

LEMMA NodeStepMoves ==
  ASSUME TypeOK, NEW n \in Node, NodeStep(n), NEW k \in Wakeup
  PROVE  Moved(k)
<1>1. ASSUME NEW q, NEW a, CompleteNodeAndScheduleDownstream(n, q, a)
      PROVE  Moved(k)
  <2>1. PICK S : Enqueue(S)
    BY <1>1 DEF CompleteNodeAndScheduleDownstream
  <2>2. status[n] # "absent"
    BY <1>1 DEF CompleteNodeAndScheduleDownstream
  <2> QED
    BY <2>1, <2>2, EnqueueMoves
<1>2. CASE FailNodeAndCancelDownstream(n)
  BY <1>2 DEF FailNodeAndCancelDownstream, wakeupVars, Moved, Untouched
<1>3. ASSUME NEW tr \in LegalTransition, UpdateNodeStatus(n, tr[1], tr[2])
      PROVE  Moved(k)
  BY <1>3 DEF UpdateNodeStatus, wakeupVars, Moved, Untouched
<1>4. ASSUME NEW agent \in Agent, AssignNodeAndEnqueueWakeup(n, agent)
      PROVE  Moved(k)
  <2>1. status[n] # "absent" /\ Enqueue({ManualKey(n, agent)})
    BY <1>4 DEF AssignNodeAndEnqueueWakeup
  <2> QED
    BY <2>1, EnqueueMoves
<1>5. ASSUME NEW agent \in Agent, MarkDispatchIncompleteIfMissingWakeup(n, agent)
      PROVE  Moved(k)
  BY <1>5 DEF MarkDispatchIncompleteIfMissingWakeup, wakeupVars, Moved, Untouched
<1>6. CASE EnqueueTurnCompleteRetry(n)
  BY <1>6, EnqueueMoves DEF EnqueueTurnCompleteRetry
<1>7. CASE EnqueueTerminalFailureCompensation(n)
  BY <1>7, EnqueueMoves DEF EnqueueTerminalFailureCompensation
<1> QED
  BY <1>1, <1>2, <1>3, <1>4, <1>5, <1>6, <1>7 DEF NodeStep

LEMMA ClaimStepMoves ==
  ASSUME TypeOK, NEW q \in Wakeup, NEW w \in Worker, ClaimStep(q, w, attempt[q]), NEW k \in Wakeup
  PROVE  Moved(k)
<1>1. CASE MarkWakeupSent(q, w, attempt[q])
  BY <1>1 DEF MarkWakeupSent, FenceHolds, TypeOK, Moved, Untouched, Sent
<1>2. CASE RetryWakeup(q, w, attempt[q])
  BY <1>2 DEF RetryWakeup, FenceHolds, Release, TypeOK, Moved, Untouched, Requeued
<1>3. CASE RetryWakeupWithNodeConfigPatch(q, w, attempt[q], config[NodeOf(q)])
  BY <1>3 DEF RetryWakeupWithNodeConfigPatch, FenceHolds, Release, TypeOK, Moved, Untouched, Requeued
<1>4. CASE FailWakeup(q, w, attempt[q])
  BY <1>4, FailReleaseMoves DEF FailWakeup
<1>5. CASE FailWakeupAndFailNodeAndCancelDownstream(q, w, attempt[q])
  BY <1>5, FailReleaseMoves DEF FailWakeupAndFailNodeAndCancelDownstream
<1>6. ASSUME NEW t \in Thread, RecordNodeSpawn(q, w, attempt[q], t)
      PROVE  Moved(k)
  BY <1>6 DEF RecordNodeSpawn, wakeupVars, Moved, Untouched
<1>7. CASE UpdateRunningNodeStatus(q, w, attempt[q])
  BY <1>7 DEF UpdateRunningNodeStatus, wakeupVars, Moved, Untouched
<1> QED
  BY <1>1, <1>2, <1>3, <1>4, <1>5, <1>6, <1>7 DEF ClaimStep

LEMMA WakeupEffect ==
  ASSUME TypeOK, Bookkeeping, [Next]_storeVars, NEW k \in Wakeup
  PROVE  Moved(k)
<1>1. ASSUME NEW w \in Worker, NEW S \in SUBSET Wakeup, ClaimDueWakeups(w, S)
      PROVE  Moved(k)
  BY <1>1 DEF ClaimDueWakeups, Claimable, TypeOK, Moved, Untouched, Claimed
<1>2. ASSUME NEW q \in Wakeup, LeaseExpires(q)
      PROVE  Moved(k)
  BY <1>2 DEF LeaseExpires, TypeOK, Moved, Untouched, Expired
<1>3. CASE UNCHANGED storeVars
  BY <1>3 DEF storeVars, wakeupVars, Moved, Untouched
<1> QED
  BY <1>1, <1>2, <1>3, RunStepMoves, SweepStepMoves, NodeStepMoves, ClaimStepMoves DEF Next

(***************************************************************************)
(* The bookkeeping invariant and what it gives at once.                    *)
(***************************************************************************)

\* The run and its rows appear together and never disappear.
LEMMA RowsStep ==
  ASSUME TypeOK, Bookkeeping, [Next]_storeVars
  PROVE  /\ runStatus' = "absent" => runStatus = "absent" /\ ~ StartDAG
         /\ runStatus' = "absent" => \A n \in Node : status'[n] = "absent"
         /\ runStatus' # "absent" => \A n \in Node : status'[n] # "absent"
<1>1. CASE StartDAG
  BY <1>1 DEF StartDAG
<1>2. CASE TerminateRun
  BY <1>2 DEF TerminateRun, Bookkeeping, Finished
<1>3. ASSUME NEW n \in Node, NEW k, NEW a, CompleteNodeAndScheduleDownstream(n, k, a)
      PROVE  /\ runStatus = "running" /\ runStatus' # "absent"
             /\ \A m \in Node : status'[m] # "absent"
  <2>1. runStatus = "running"
    BY <1>3 DEF CompleteNodeAndScheduleDownstream
  <2>2. runStatus' # "absent"
    BY <1>3, <2>1 DEF CompleteNodeAndScheduleDownstream, FinalizedRun
  <2>3. \A m \in Node : status'[m] # "absent"
    BY <1>3, <2>1 DEF CompleteNodeAndScheduleDownstream, Bookkeeping, TypeOK
  <2> QED
    BY <2>1, <2>2, <2>3
<1>4. ASSUME NEW n \in Node, FailNodeTx(n)
      PROVE  /\ runStatus # "absent" /\ runStatus' # "absent"
             /\ \A m \in Node : status'[m] # "absent"
  <2>1. runStatus # "absent"
    BY <1>4 DEF FailNodeTx, Bookkeeping
  <2>2. runStatus' # "absent"
    BY <1>4, <2>1 DEF FailNodeTx, FinalizedRun
  <2>3. \A m \in Node : status'[m] # "absent"
    BY <1>4, <2>1 DEF FailNodeTx, Bookkeeping
  <2> QED
    BY <2>1, <2>2, <2>3
<1>5. CASE PlainStep /\ ~ StartDAG
  BY <1>5 DEF PlainStep, Bookkeeping
<1>6. StartDAG => runStatus' # "absent"
  BY DEF StartDAG
<1> QED
  BY <1>1, <1>2, <1>3, <1>4, <1>5, <1>6, NodeEffect DEF Bookkeeping, TerminateRun

\* A wakeup's attempts, as one fact per wakeup.
Bounded(k) ==
    /\ lease[k] = "expired" => attempt[k] <= MaxExpiries
    /\ wstatus[k] \in {"absent", "pending"} =>
          \E b \in {MaxAttempts, DefaultAttempts, MaxExpiries + 1, 1} : attempt[k] < b

LEMMA BoundedStep ==
  ASSUME TypeOK, TypeOK', NEW k \in Wakeup, Bounded(k), Moved(k)
  PROVE  Bounded(k)'
<1> USE BoundAssumption
<1>0. attempt[k] \in Nat /\ attempt'[k] \in Nat
  BY DEF TypeOK
<1>1. CASE Untouched(k)
  BY <1>0, <1>1 DEF Untouched, Bounded
<1>2. CASE Enqueued(k)
  BY <1>0, <1>2 DEF Enqueued, Bounded
<1>3. CASE Claimed(k)
  BY <1>0, <1>3 DEF Claimed, Bounded
<1>4. CASE Expired(k)
  BY <1>0, <1>4 DEF Expired, Bounded
<1>5. CASE Sent(k)
  BY <1>0, <1>5 DEF Sent, Bounded
<1>6. CASE Requeued(k)
  BY <1>0, <1>6 DEF Requeued, Bounded
<1>7. CASE Failed(k)
  BY <1>0, <1>7 DEF Failed, Bounded
<1> QED
  BY <1>1, <1>2, <1>3, <1>4, <1>5, <1>6, <1>7 DEF Moved

LEMMA BookkeepingStep ==
  ASSUME TypeOK, TypeOK', Bookkeeping, [Next]_storeVars
  PROVE  Bookkeeping'
<1>1. \A k \in Wakeup : Moved(k)
  BY WakeupEffect
<1>2. \A k \in Wakeup : Bounded(k)'
  <2> TAKE k \in Wakeup
  <2>1. Bounded(k)
    BY DEF Bookkeeping, Bounded
  <2> QED
    BY <1>1, <2>1, BoundedStep
<1>3. runStatus' = "absent" => \A k \in Wakeup : wstatus'[k] = "absent"
  <2> SUFFICES ASSUME runStatus' = "absent", NEW k \in Wakeup
               PROVE  wstatus'[k] = "absent"
    OBVIOUS
  <2>1. wstatus[k] = "absent" /\ ~ StartDAG /\ \A n \in Node : status[n] = "absent"
    BY RowsStep DEF Bookkeeping
  <2> QED
    BY <1>1, <2>1 DEF Moved, Untouched, Enqueued, Claimed, Expired, Sent, Requeued, Failed
<1> QED
  BY <1>2, <1>3, RowsStep DEF Bookkeeping, Bounded

\* Rows exist exactly while the run does, and the attempts stay bounded.
THEOREM BookkeepingInvariance == Spec => []Bookkeeping
<1>1. Init => Bookkeeping
  BY BoundAssumption DEF Init, Bookkeeping
<1>2. TypeOK /\ TypeOK' /\ Bookkeeping /\ [Next]_storeVars => Bookkeeping'
  BY BookkeepingStep
<1> QED
  BY <1>1, <1>2, TypeInvariance, PTL DEF Spec

LEMMA AttemptStep ==
  ASSUME TypeOK, TypeOK', Bookkeeping, AttemptBudget, [Next]_storeVars
  PROVE  AttemptBudget'
<1> SUFFICES ASSUME NEW k \in Wakeup
             PROVE  \E b \in {MaxAttempts, DefaultAttempts, MaxExpiries + 1, 1} : attempt'[k] <= b
  BY DEF AttemptBudget
<1>1. attempt[k] \in Nat /\ attempt'[k] \in Nat
  BY DEF TypeOK
<1>2. CASE attempt'[k] = attempt[k]
  BY <1>2 DEF AttemptBudget
<1>3. CASE Claimed(k)
  BY <1>1, <1>3, BoundAssumption DEF Claimed, Bookkeeping
<1> QED
  BY <1>2, <1>3, WakeupEffect DEF Moved, Untouched, Enqueued, Expired, Sent, Requeued, Failed

\* No wakeup is claimed more often than the retry limits and the expired
\* leases account for.
THEOREM AttemptsBounded == Spec => []AttemptBudget
<1>1. Init => AttemptBudget
  BY BoundAssumption DEF Init, AttemptBudget
<1>2. TypeOK /\ TypeOK' /\ Bookkeeping /\ AttemptBudget /\ [Next]_storeVars => AttemptBudget'
  BY AttemptStep
<1> QED
  BY <1>1, <1>2, TypeInvariance, BookkeepingInvariance, PTL DEF Spec

LEMMA SettledStep ==
  ASSUME TypeOK, Bookkeeping, [Next]_storeVars, NEW k \in Wakeup
  PROVE  /\ wstatus[k] = "failed" => wstatus'[k] = "failed"
         /\ wstatus[k] = "sent" => wstatus'[k] \in {"sent", "failed"}
  BY WakeupEffect DEF Moved, Untouched, Enqueued, Claimed, Expired, Sent, Requeued, Failed

\* A wakeup that was sent or failed is never queued or claimed again.
THEOREM SettledForever == Spec => SettledWakeup
<1>1. TypeOK /\ Bookkeeping /\ [Next]_storeVars =>
        [\A k \in Wakeup :
          /\ wstatus[k] = "failed" => wstatus'[k] = "failed"
          /\ wstatus[k] = "sent" => wstatus'[k] \in {"sent", "failed"}]_storeVars
  BY SettledStep
<1> QED
  BY <1>1, TypeInvariance, BookkeepingInvariance, PTL DEF Spec, SettledWakeup

(***************************************************************************)
(* Terminal statuses.                                                      *)
(***************************************************************************)
LEMMA TerminalStep ==
  ASSUME TypeOK, Bookkeeping, [Next]_storeVars, NEW m \in Node, status[m] \in Terminal
  PROVE  status'[m] = status[m]
<1>1. CASE StartDAG
  BY <1>1 DEF StartDAG, Bookkeeping, Terminal
<1>2. CASE TerminateRun
  BY <1>2 DEF TerminateRun
<1>3. ASSUME NEW n \in Node, NEW k, NEW a, CompleteNodeAndScheduleDownstream(n, k, a)
      PROVE  status'[m] = status[m]
  BY <1>3 DEF CompleteNodeAndScheduleDownstream, Satisfied, Terminal, TypeOK
<1>4. ASSUME NEW n \in Node, FailNodeTx(n)
      PROVE  status'[m] = status[m]
  BY <1>4 DEF FailNodeTx, Terminal
<1>5. CASE PlainStep
  BY <1>5 DEF PlainStep
<1> QED
  BY <1>1, <1>2, <1>3, <1>4, <1>5, NodeEffect

\* A node that is done, failed, cancelled or skipped stays so.
THEOREM TerminalForever == Spec => TerminalFrozen
<1>1. TypeOK /\ Bookkeeping /\ [Next]_storeVars =>
        [\A n \in Node : status[n] \in Terminal => status'[n] = status[n]]_storeVars
  BY TerminalStep
<1> QED
  BY <1>1, TypeInvariance, BookkeepingInvariance, PTL DEF Spec, TerminalFrozen

(***************************************************************************)
(* The verdict of the run.                                                 *)
(***************************************************************************)

\* What maybeFinalizeRunTx writes agrees with the statuses it read.
LEMMA FinalizedVerdict ==
  ASSUME NEW st, runStatus = "running"
  PROVE  LET v == FinalizedRun(st) IN
         /\ v \in Finished => \A n \in Node : st[n] \in Terminal
         /\ v = "succeeded" => \A n \in Node : st[n] \in {"done", "skipped"}
         /\ v = "failed" => \E n \in Node : st[n] = "failed"
  BY DEF FinalizedRun, Finished, Terminal

LEMMA VerdictStep ==
  ASSUME TypeOK, TypeOK', Bookkeeping, RunVerdict, [Next]_storeVars
  PROVE  RunVerdict'
<1>1. CASE StartDAG
  BY <1>1 DEF StartDAG, RunVerdict, Finished
<1>2. CASE TerminateRun
  BY <1>2 DEF TerminateRun, RunVerdict, Terminal
<1>3. ASSUME NEW n \in Node, NEW k, NEW a, CompleteNodeAndScheduleDownstream(n, k, a)
      PROVE  RunVerdict'
  <2>1. runStatus' = FinalizedRun(status') /\ runStatus = "running"
    BY <1>3 DEF CompleteNodeAndScheduleDownstream
  <2> QED
    BY <2>1, FinalizedVerdict DEF RunVerdict
<1>4. ASSUME NEW n \in Node, FailNodeTx(n)
      PROVE  RunVerdict'
  <2>1. runStatus' = FinalizedRun(status') /\ status[n] \notin Terminal \cup {"absent"}
    BY <1>4 DEF FailNodeTx
  <2>2. runStatus = "running"
    BY <2>1 DEF RunVerdict, Bookkeeping, TypeOK, RunStatus
  <2> QED
    BY <2>1, <2>2, FinalizedVerdict DEF RunVerdict
<1>5. CASE PlainStep
  <2>1. CASE runStatus \in Finished
    <3>1. \A m \in Node : status'[m] = status[m]
      BY <1>5, <2>1 DEF PlainStep, RunVerdict
    <3> QED
      BY <1>5, <3>1 DEF PlainStep, RunVerdict
  <2>2. CASE runStatus \notin Finished
    BY <1>5, <2>2 DEF PlainStep, RunVerdict, Finished
  <2> QED
    BY <2>1, <2>2
<1> QED
  BY <1>1, <1>2, <1>3, <1>4, <1>5, NodeEffect

\* The verdict of a finished run is what its nodes say.
THEOREM VerdictSound == Spec => []RunVerdict
<1>1. Init => RunVerdict
  BY DEF Init, RunVerdict, Finished
<1>2. TypeOK /\ TypeOK' /\ Bookkeeping /\ RunVerdict /\ [Next]_storeVars => RunVerdict'
  BY VerdictStep
<1> QED
  BY <1>1, <1>2, TypeInvariance, BookkeepingInvariance, PTL DEF Spec

\* A child thread is recorded only on a node that is not terminal.
LEMMA ThreadEffect ==
  ASSUME TypeOK, [Next]_storeVars
  PROVE  spawningThread' = spawningThread \/ \E n \in Node : status[n] \notin Terminal
<1>1. RunStep => spawningThread' = spawningThread
  BY DEF RunStep, StartDAG, RestartDAG, TerminateRun, nodeVars
<1>2. SweepStep => spawningThread' = spawningThread
  BY DEF SweepStep, ReclaimStaleDispatchingWakeups, MarkDispatchIncompleteNodesWithoutActiveWakeup,
         nodeVars
<1>3. ASSUME NEW n \in Node, NodeStep(n)
      PROVE  spawningThread' = spawningThread
  BY <1>3 DEF NodeStep, CompleteNodeAndScheduleDownstream, FailNodeAndCancelDownstream, FailNodeTx,
         UpdateNodeStatus, AssignNodeAndEnqueueWakeup, MarkDispatchIncompleteIfMissingWakeup,
         EnqueueTurnCompleteRetry, EnqueueTerminalFailureCompensation, nodeVars
<1>4. ASSUME NEW k \in Wakeup, NEW w \in Worker, ClaimStep(k, w, attempt[k])
      PROVE  spawningThread' = spawningThread \/ status[NodeOf(k)] \notin Terminal
  BY <1>4 DEF ClaimStep, MarkWakeupSent, RetryWakeup, RetryWakeupWithNodeConfigPatch, FailWakeup,
         FailWakeupAndFailNodeAndCancelDownstream, FailNodeTx, RecordNodeSpawn,
         UpdateRunningNodeStatus, nodeVars
<1>5. ASSUME NEW w \in Worker, NEW S \in SUBSET Wakeup, ClaimDueWakeups(w, S)
      PROVE  spawningThread' = spawningThread
  BY <1>5 DEF ClaimDueWakeups, nodeVars
<1>6. ASSUME NEW k \in Wakeup, LeaseExpires(k)
      PROVE  spawningThread' = spawningThread
  BY <1>6 DEF LeaseExpires, nodeVars
<1>7. CASE UNCHANGED storeVars
  BY <1>7 DEF storeVars, nodeVars
<1> QED
  BY <1>1, <1>2, <1>3, <1>4, <1>5, <1>6, <1>7, KeyTypes DEF Next

LEMMA FinishedStep ==
  ASSUME TypeOK, TypeOK', Bookkeeping, RunVerdict, [Next]_storeVars, runStatus \in Finished
  PROVE  runStatus' = runStatus /\ status' = status /\ spawningThread' = spawningThread
<1>1. \A n \in Node : status[n] \in Terminal
  BY DEF RunVerdict
<1>2. status' = status
  BY <1>1, TerminalStep DEF TypeOK
<1>3. spawningThread' = spawningThread
  BY <1>1, ThreadEffect
<1>4. runStatus' = runStatus
  <2>1. CASE TerminateRun
    BY <2>1 DEF TerminateRun, Finished
  <2>2. ~ StartDAG
    BY DEF StartDAG, Finished
  <2>3. ASSUME NEW n \in Node, NEW k, NEW a, CompleteNodeAndScheduleDownstream(n, k, a)
        PROVE  FALSE
    BY <2>3 DEF CompleteNodeAndScheduleDownstream, Finished
  <2>4. ASSUME NEW n \in Node, FailNodeTx(n)
        PROVE  FALSE
    BY <1>1, <2>4 DEF FailNodeTx
  <2> QED
    BY <2>1, <2>2, <2>3, <2>4, NodeEffect DEF PlainStep
<1> QED
  BY <1>2, <1>3, <1>4

\* Nothing that arrives late changes a finished run.
THEOREM FinishedForever == Spec => FinishedRunFrozen
<1>1. TypeOK /\ TypeOK' /\ Bookkeeping /\ RunVerdict /\ [Next]_storeVars =>
        [(runStatus \in Finished) =>
          /\ runStatus' = runStatus
          /\ status' = status
          /\ spawningThread' = spawningThread]_storeVars
  BY FinishedStep
<1> QED
  BY <1>1, TypeInvariance, BookkeepingInvariance, VerdictSound, PTL DEF Spec, FinishedRunFrozen

(***************************************************************************)
(* Dependencies.                                                           *)
(***************************************************************************)

\* What lies below a node below n lies below n.
LEMMA DownstreamTransitive ==
  ASSUME NEW n \in Node, NEW m \in Downstream[n]
  PROVE  m \in Node /\ Downstream[m] \subseteq Downstream[n]
<1>1. m \in Node /\ \A S \in SUBSET Node : DownstreamClosed(n, S) => m \in S
  BY DEF Downstream
<1>2. ASSUME NEW x \in Downstream[m]
      PROVE  x \in Downstream[n]
  <2>1. x \in Node /\ \A S \in SUBSET Node : DownstreamClosed(m, S) => x \in S
    BY <1>1, <1>2 DEF Downstream
  <2>2. ASSUME NEW S \in SUBSET Node, DownstreamClosed(n, S)
        PROVE  x \in S
    <3>1. DownstreamClosed(m, S)
      BY <1>1, <2>2 DEF DownstreamClosed
    <3> QED
      BY <2>1, <3>1
  <2> QED
    BY <2>1, <2>2 DEF Downstream
<1> QED
  BY <1>1, <1>2

LEMMA CascadeStep ==
  ASSUME TypeOK, TypeOK', Bookkeeping, NoPendingBelowFailed, [Next]_storeVars
  PROVE  NoPendingBelowFailed'
<1> SUFFICES ASSUME NEW p \in Node, status'[p] = "failed", NEW m \in Downstream[p]
             PROVE  status'[m] # "pending"
  BY DEF NoPendingBelowFailed
<1>0. m \in Node
  BY DownstreamTransitive
<1>1. CASE StartDAG
  BY <1>1 DEF StartDAG
<1>2. CASE TerminateRun
  BY <1>0, <1>2 DEF TerminateRun, Terminal
<1>3. ASSUME NEW n \in Node, NEW k, NEW a, CompleteNodeAndScheduleDownstream(n, k, a)
      PROVE  status'[m] # "pending"
  BY <1>0, <1>3 DEF CompleteNodeAndScheduleDownstream, NoPendingBelowFailed, TypeOK
<1>4. ASSUME NEW n \in Node, FailNodeTx(n)
      PROVE  status'[m] # "pending"
  <2>1. CASE p = n \/ p \in Downstream[n]
    <3>1. m \in Downstream[n]
      BY <2>1, DownstreamTransitive
    <3> QED
      BY <1>0, <1>4, <3>1 DEF FailNodeTx
  <2>2. CASE ~ (p = n \/ p \in Downstream[n])
    <3>1. status[p] = "failed"
      BY <1>4, <2>2 DEF FailNodeTx
    <3> QED
      BY <1>0, <1>4, <3>1 DEF FailNodeTx, NoPendingBelowFailed
  <2> QED
    BY <2>1, <2>2
<1>5. CASE PlainStep
  BY <1>0, <1>5 DEF PlainStep, NoPendingBelowFailed
<1> QED
  BY <1>1, <1>2, <1>3, <1>4, <1>5, NodeEffect

\* No node waits for a dependency that has failed, however far above it.
THEOREM CascadeComplete == Spec => []NoPendingBelowFailed
<1>1. Init => NoPendingBelowFailed
  BY DEF Init, NoPendingBelowFailed
<1>2. TypeOK /\ TypeOK' /\ Bookkeeping /\ NoPendingBelowFailed /\ [Next]_storeVars
      => NoPendingBelowFailed'
  BY CascadeStep
<1> QED
  BY <1>1, <1>2, TypeInvariance, BookkeepingInvariance, PTL DEF Spec

LEMMA PromotionStep ==
  ASSUME TypeOK, TypeOK', Bookkeeping, NoLostPromotion, [Next]_storeVars
  PROVE  NoLostPromotion'
<1> SUFFICES ASSUME NEW m \in Node, status'[m] = "pending"
             PROVE  \E d \in DependsOn[m] : status'[d] # "done"
  BY DEF NoLostPromotion
<1>0. DependsOn[m] \subseteq Node
  BY NodeAssumption
<1>1. CASE StartDAG
  BY <1>0, <1>1 DEF StartDAG
<1>2. CASE TerminateRun
  BY <1>2 DEF TerminateRun, Terminal
<1>3. ASSUME NEW n \in Node, NEW k, NEW a, CompleteNodeAndScheduleDownstream(n, k, a)
      PROVE  \E d \in DependsOn[m] : status'[d] # "done"
  <2> DEFINE st == [status EXCEPT ![n] = "done"]
  <2>1. status' = [x \in Node |-> IF x \in Satisfied(n, st) THEN "ready" ELSE st[x]]
    BY <1>3 DEF CompleteNodeAndScheduleDownstream
  <2>2. m \notin Satisfied(n, st) /\ st[m] = "pending" /\ status[m] = "pending" /\ m # n
    BY <2>1 DEF TypeOK
  <2>3. PICK d \in DependsOn[m] : st[d] # "done"
    <3>1. CASE n \in DependsOn[m]
      BY <2>2, <3>1 DEF Satisfied
    <3>2. CASE n \notin DependsOn[m]
      <4>1. PICK d \in DependsOn[m] : status[d] # "done"
        BY <2>2 DEF NoLostPromotion
      <4> QED
        BY <1>0, <3>2, <4>1 DEF TypeOK
    <3> QED
      BY <3>1, <3>2
  <2> QED
    BY <1>0, <2>1, <2>3
<1>4. ASSUME NEW n \in Node, FailNodeTx(n)
      PROVE  \E d \in DependsOn[m] : status'[d] # "done"
  <2>1. status[m] = "pending"
    BY <1>4 DEF FailNodeTx
  <2>2. PICK d \in DependsOn[m] : status[d] # "done"
    BY <2>1 DEF NoLostPromotion
  <2> QED
    BY <1>0, <1>4, <2>2 DEF FailNodeTx
<1>5. CASE PlainStep
  <2>1. PICK d \in DependsOn[m] : status[d] # "done"
    BY <1>5 DEF PlainStep, NoLostPromotion
  <2> QED
    BY <1>0, <1>5, <2>1 DEF PlainStep
<1> QED
  BY <1>1, <1>2, <1>3, <1>4, <1>5, NodeEffect

\* The last dependency to be done promotes its dependents, in whatever order
\* the dependencies complete.
THEOREM PromotionComplete == Spec => []NoLostPromotion
<1>1. Init => NoLostPromotion
  BY DEF Init, NoLostPromotion
<1>2. TypeOK /\ TypeOK' /\ Bookkeeping /\ NoLostPromotion /\ [Next]_storeVars => NoLostPromotion'
  BY PromotionStep
<1> QED
  BY <1>1, <1>2, TypeInvariance, BookkeepingInvariance, PTL DEF Spec

\* A downstream key is inserted by one transaction only, and for a node whose
\* dependencies are all done.
QueuedBy(m) == \E n \in Node, k \in Wakeup \cup {None}, a \in Nat :
    /\ CompleteNodeAndScheduleDownstream(n, k, a)
    /\ m \in Satisfied(n, [status EXCEPT ![n] = "done"])

StartKept(m) == wstatus'[StartKey(m)] # "absent" =>
                   wstatus[StartKey(m)] # "absent" \/ QueuedBy(m)

LEMMA OtherKeysKeepStart ==
  ASSUME TypeOK, NEW S, NEW m \in Node, StartKey(m) \notin S, Enqueue(S)
  PROVE  StartKept(m)
  BY KeyTypes DEF Enqueue, StartKept

LEMMA DistinctKeys ==
  /\ \A n \in Node, m \in Node, agent \in Agent : StartKey(m) # ManualKey(n, agent)
  /\ \A n \in Node, m \in Node : StartKey(m) # RetryKey(n) /\ StartKey(m) # CompensationKey(n)
  BY SlotAssumption DEF StartKey, ManualKey, RetryKey, CompensationKey

LEMMA RootKeys ==
  ASSUME NEW st, NEW as \in [Node -> Agent \cup {None}], NEW m \in Node
  PROVE  StartKey(m) \notin RootWakeups(st, as)
  BY DistinctKeys, NodeAssumption DEF RootWakeups

LEMMA RunStepStart ==
  ASSUME TypeOK, RunStep, NEW m \in Node
  PROVE  StartKept(m)
<1>1. CASE StartDAG
  <2>1. PICK st : Enqueue(RootWakeups(st, Assignee))
    BY <1>1 DEF StartDAG
  <2> QED
    BY <2>1, RootKeys, NodeAssumption, OtherKeysKeepStart
<1>2. CASE RestartDAG
  BY <1>2, RootKeys, OtherKeysKeepStart DEF RestartDAG, TypeOK
<1>3. CASE TerminateRun
  BY <1>3, KeyTypes DEF TerminateRun, Release, StartKept
<1> QED
  BY <1>1, <1>2, <1>3 DEF RunStep

LEMMA NodeStepStart ==
  ASSUME TypeOK, NEW n \in Node, NodeStep(n), NEW m \in Node
  PROVE  StartKept(m)
<1>1. ASSUME NEW k \in Wakeup \cup {None}, NEW a \in Nat, CompleteNodeAndScheduleDownstream(n, k, a)
      PROVE  StartKept(m)
  <2> DEFINE up == Satisfied(n, [status EXCEPT ![n] = "done"])
             S == {StartKey(x) : x \in {y \in up : y \in AutoDispatch /\ assignedTo[y] # None}}
  <2>1. Enqueue(S)
    BY <1>1 DEF CompleteNodeAndScheduleDownstream
  <2>2. CASE StartKey(m) \in S
    <3>1. m \in up
      BY <2>2 DEF StartKey
    <3> QED
      BY <1>1, <3>1 DEF StartKept, QueuedBy
  <2>3. CASE StartKey(m) \notin S
    BY <2>1, <2>3, OtherKeysKeepStart
  <2> QED
    BY <2>2, <2>3
<1>2. CASE FailNodeAndCancelDownstream(n)
  BY <1>2 DEF FailNodeAndCancelDownstream, wakeupVars, StartKept
<1>3. ASSUME NEW tr \in LegalTransition, UpdateNodeStatus(n, tr[1], tr[2])
      PROVE  StartKept(m)
  BY <1>3 DEF UpdateNodeStatus, wakeupVars, StartKept
<1>4. ASSUME NEW agent \in Agent, AssignNodeAndEnqueueWakeup(n, agent)
      PROVE  StartKept(m)
  BY <1>4, DistinctKeys, OtherKeysKeepStart DEF AssignNodeAndEnqueueWakeup
<1>5. ASSUME NEW agent \in Agent, MarkDispatchIncompleteIfMissingWakeup(n, agent)
      PROVE  StartKept(m)
  BY <1>5 DEF MarkDispatchIncompleteIfMissingWakeup, wakeupVars, StartKept
<1>6. CASE EnqueueTurnCompleteRetry(n)
  BY <1>6, DistinctKeys, OtherKeysKeepStart DEF EnqueueTurnCompleteRetry
<1>7. CASE EnqueueTerminalFailureCompensation(n)
  BY <1>7, DistinctKeys, OtherKeysKeepStart DEF EnqueueTerminalFailureCompensation
<1>8. \A k \in Wakeup : attempt[k] \in Nat
  BY DEF TypeOK
<1> QED
  BY <1>1, <1>2, <1>3, <1>4, <1>5, <1>6, <1>7, <1>8 DEF NodeStep

\* The steps of the dispatchers and of the reclaimer insert no wakeup.
LEMMA ClaimsKeepStart ==
  ASSUME TypeOK, NEW q \in Wakeup, NEW w \in Worker, ClaimStep(q, w, attempt[q]), NEW m \in Node
  PROVE  StartKept(m)
  BY ClaimStepMoves, KeyTypes
  DEF ClaimStep, StartKept, MarkWakeupSent, RetryWakeup, RetryWakeupWithNodeConfigPatch, FailWakeup,
      FailWakeupAndFailNodeAndCancelDownstream, RecordNodeSpawn, UpdateRunningNodeStatus,
      FenceHolds, Release, wakeupVars, TypeOK

LEMMA StartEffect ==
  ASSUME TypeOK, [Next]_storeVars, NEW m \in Node
  PROVE  StartKept(m)
<1>1. SweepStep => StartKept(m)
  BY KeyTypes DEF SweepStep, ReclaimStaleDispatchingWakeups, Release,
     MarkDispatchIncompleteNodesWithoutActiveWakeup, wakeupVars, StartKept
<1>2. ASSUME NEW w \in Worker, NEW S \in SUBSET Wakeup, ClaimDueWakeups(w, S)
      PROVE  StartKept(m)
  BY <1>2, KeyTypes DEF ClaimDueWakeups, Claimable, StartKept
<1>3. ASSUME NEW q \in Wakeup, LeaseExpires(q)
      PROVE  StartKept(m)
  BY <1>3 DEF LeaseExpires, StartKept
<1>4. CASE UNCHANGED storeVars
  BY <1>4 DEF storeVars, wakeupVars, StartKept
<1> QED
  BY <1>1, <1>2, <1>3, <1>4, RunStepStart, NodeStepStart, ClaimsKeepStart DEF Next

LEMMA StartStep ==
  ASSUME TypeOK, TypeOK', Bookkeeping, StartAfterDependencies, [Next]_storeVars
  PROVE  StartAfterDependencies'
<1> SUFFICES ASSUME NEW m \in Node, wstatus'[StartKey(m)] # "absent", NEW d \in DependsOn[m]
             PROVE  status'[d] = "done"
  BY DEF StartAfterDependencies
<1>0. d \in Node
  BY NodeAssumption
<1>1. CASE wstatus[StartKey(m)] # "absent"
  BY <1>0, <1>1, TerminalStep DEF StartAfterDependencies, Terminal
<1>2. CASE QueuedBy(m)
  <2>1. PICK n \in Node, k \in Wakeup \cup {None}, a \in Nat :
          /\ CompleteNodeAndScheduleDownstream(n, k, a)
          /\ m \in Satisfied(n, [status EXCEPT ![n] = "done"])
    BY <1>2 DEF QueuedBy
  <2> DEFINE st == [status EXCEPT ![n] = "done"]
  <2>2. st[d] = "done"
    BY <2>1 DEF Satisfied
  <2>3. d \notin Satisfied(n, st)
    BY <2>2 DEF Satisfied
  <2>4. status' = [x \in Node |-> IF x \in Satisfied(n, st) THEN "ready" ELSE st[x]]
    BY <2>1 DEF CompleteNodeAndScheduleDownstream
  <2> QED
    BY <1>0, <2>2, <2>3, <2>4
<1> QED
  BY <1>1, <1>2, StartEffect DEF StartKept

\* A downstream wakeup exists only for a node whose dependencies are all done.
THEOREM StartOrder == Spec => []StartAfterDependencies
<1>1. Init => StartAfterDependencies
  BY KeyTypes DEF Init, StartAfterDependencies
<1>2. TypeOK /\ TypeOK' /\ Bookkeeping /\ StartAfterDependencies /\ [Next]_storeVars
      => StartAfterDependencies'
  BY StartStep
<1> QED
  BY <1>1, <1>2, TypeInvariance, BookkeepingInvariance, PTL DEF Spec

=============================================================================

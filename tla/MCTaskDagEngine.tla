--------------------------- MODULE MCTaskDagEngine ---------------------------
(***************************************************************************)
(* TaskDagEngine on small DAGs.                                            *)
(***************************************************************************)
EXTENDS TaskDagEngine, TLC

CONSTANTS r, s, x, y, w1, w2, t1, t2, t3

\* One node.
OneDependsOn == r :> {}
OneAssignee == r :> x

\* A chain of two nodes, the second with or without an assignee.
ChainDependsOn == (r :> {}) @@ (s :> {r})
ChainAssignee == (r :> x) @@ (s :> x)
HeadAssignee == (r :> x) @@ (s :> None)

NoStrategy == [n \in Node |-> "none"]
PatchStrategy == [n \in Node |-> "patch"]
MixedStrategy == (r :> "patch") @@ (s :> "retry")
ReplanStrategy == [n \in Node |-> "replan"]

Symmetry == Permutations(Thread) \cup Permutations(Worker)
=============================================================================

--------------------------- MODULE MCTaskDagStore ---------------------------
(***************************************************************************)
(* TaskDagStore on small DAGs.                                             *)
(***************************************************************************)
EXTENDS TaskDagStore, TLC

CONSTANTS r, s, p, j, q, x

\* A diamond with a tail: r above s and p, both above j, j above q.
DiamondDependsOn == (r :> {}) @@ (s :> {r}) @@ (p :> {r}) @@ (j :> {s, p}) @@ (q :> {j})
DiamondAssignee == (r :> x) @@ (s :> None) @@ (p :> x) @@ (j :> x) @@ (q :> None)

\* A chain of two nodes.
ChainDependsOn == (r :> {}) @@ (s :> {r})
ChainAssignee == (r :> x) @@ (s :> x)
\* One node.
SingleDependsOn == r :> {}
SingleAssignee == r :> x
=============================================================================

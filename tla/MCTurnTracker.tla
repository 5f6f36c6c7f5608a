---------------------------- MODULE MCTurnTracker ----------------------------
(* Small instances of TurnTracker.                                         *)
EXTENDS TurnTracker

CONSTANTS t1, a1, a2, q1, q2

=============================================================================

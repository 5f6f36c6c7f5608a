---------------------------- MODULE MCCronScheduler ----------------------------
(***************************************************************************)
(* CronScheduler on small instances.                                       *)
(***************************************************************************)
EXTENDS CronScheduler

CONSTANTS j1, p1
=============================================================================

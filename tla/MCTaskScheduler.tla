-------------------------- MODULE MCTaskScheduler --------------------------
(* Instances of TaskScheduler for TLC. *)
EXTENDS TaskScheduler, TLC

CONSTANTS t1, t2, none
=============================================================================

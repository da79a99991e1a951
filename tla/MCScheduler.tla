---------------------------- MODULE MCScheduler ----------------------------
(***************************************************************************)
(* Instances of Scheduler: two processors, of which either may be the boot *)
(* processor, its kernel thread and the user threads it loads.             *)
(***************************************************************************)
EXTENDS Scheduler

CONSTANTS u1, u2

MCUsers == {u1, u2}
BothIds == {0, 1}
=============================================================================

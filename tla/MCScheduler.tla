---------------------------- MODULE MCScheduler ----------------------------
(***************************************************************************)
(* Instances of Scheduler for TLC.  The unit is a quarter of an interval.  *)
(***************************************************************************)
EXTENDS Scheduler

\* A round fires three quarters of an interval early, or a quarter late.
Around == {-3, 1}
=============================================================================

---------------------------- MODULE MCScheduler ----------------------------
(* A small scheduler: every caller may make any call at any time.          *)
EXTENDS Scheduler
=============================================================================

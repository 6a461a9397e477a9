-------------------------- MODULE MCHappensBefore --------------------------
(* Goroutines on one key of the HappenceBeforeMachine.                     *)
EXTENDS HappensBefore
=============================================================================

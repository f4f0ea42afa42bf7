------------------------------ MODULE MCTimers ------------------------------
(* Timers for TLC.                                                         *)
EXTENDS Timers
============================================================================

------------------------------ MODULE MCTimers ------------------------------
(* A clock that wraps twice, a timer of five milliseconds, passes of up to  *)
(* three.                                                                   *)
EXTENDS Timers
=============================================================================

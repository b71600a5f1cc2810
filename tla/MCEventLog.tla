----------------------------- MODULE MCEventLog -----------------------------
(* A ring of a few slots that wraps, a page smaller than the ring.         *)
EXTENDS EventLog
=============================================================================

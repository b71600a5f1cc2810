------------------------------ MODULE MCPower ------------------------------
(* Two buttons in a sequence, one gate.  A parked tick is longer than the  *)
(* others.                                                                 *)
EXTENDS Power, TLC

CONSTANTS b1, b2
MCSequence == <<b1, b2>>
MCTickOf == [active |-> 1, idle |-> 1, parked |-> 2]
=============================================================================

-------------------------- MODULE MCConfigTransfer --------------------------
(* A phone with two screens and a phone with one; configurations of one and *)
(* of two blocks.                                                           *)
EXTENDS ConfigTransfer

CONSTANTS p1, p2, c1, c2, c3
MCClientOf == [c \in Callers |-> IF c = c3 THEN p2 ELSE p1]
=============================================================================

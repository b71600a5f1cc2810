------------------------------ MODULE MCReach ------------------------------
(* Two boards, two attempts at a time, and one tap and one Disconnect of the *)
(* rider, at any moment and on either board.                                 *)
EXTENDS Reach

=============================================================================

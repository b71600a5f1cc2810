----------------------------- MODULE MCSession -----------------------------
(* Phones are interchangeable. *)
EXTENDS Session, TLC

AnyPhone == Permutations(Keys)
=============================================================================

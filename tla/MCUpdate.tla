------------------------------ MODULE MCUpdate ------------------------------
(* A factory image, two signed releases (one of two blocks), and an image  *)
(* the release key never signed, offered under its own digest and under    *)
(* that of a release.                                                      *)
EXTENDS Update, TLC

CONSTANTS shipped, release, large, unsigned

MCSize == [image \in Images |-> IF image = large THEN 2 ELSE 1]

MCBundles ==
  {[header |-> image, image |-> image] : image \in {release, large, unsigned}}
  \cup {[header |-> release, image |-> unsigned]}

\* The phones are interchangeable.
AnyPhone == Permutations(Phones)
=============================================================================

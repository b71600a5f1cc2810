------------------------------ MODULE MCInput ------------------------------
(* Two buttons, with a chord and sequences on both of them, and            *)
(* configuration writes that swap the sequences and the timing: a gap that *)
(* a double press fits in and, for runs of short presses, a quick one.     *)
EXTENDS Input

Chord == [type |-> "chord", buttons |-> <<1, 2>>, window |-> 1]
Sequence(buttons, window) == [type |-> "sequence", buttons |-> buttons, window |-> window]

Unused == [type |-> "none", buttons |-> <<>>, window |-> 0]

Steady == [combos |-> <<Chord, Sequence(<<1, 2>>, 4), Unused>>, debounce |-> 1, long |-> 5, gap |-> 4]
Quick == [combos |-> <<Sequence(<<2, 2, 1>>, 6), Chord, Sequence(<<2, 1>>, 2)>>, debounce |-> 0, long |-> 3, gap |-> 1]

MCConfigs == {Steady, Quick}
=============================================================================

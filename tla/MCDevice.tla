------------------------------ MODULE MCDevice ------------------------------
(* The ignition, and an indicator that joins the hazards and follows a     *)
(* level.                                                                  *)
EXTENDS Device

CONSTANT Shape

Base ==
  [ is_ignition      |-> {0},
    is_starter       |-> {},
    indicator        |-> [c \in Channel |-> IF c = 1 THEN "left" ELSE "none"],
    hazard_member    |-> {1},
    on_with_ignition |-> {},
    alternate        |-> [c \in Channel |-> None],
    interlock        |-> FALSE,
    turn_auto_cancel |-> 0 ]

NoHazards == [Base EXCEPT !.hazard_member = {}]

MCConfigs ==
  CASE Shape = "one" -> {Base}
    [] Shape = "two" -> {Base, NoHazards}

MCCodes == {<<"a">>}
MCBackoffTicks == <<1, 2, 3>>

\* Phone-as-key, with a cheat-code as the way back in.
MCOwnerConfig ==
  [ immobilizer_enabled |-> TRUE, methods |-> {"phone"},
    switch_input |-> FALSE, code |-> <<"a">> ]
=============================================================================

------------------------------- MODULE MCLock -------------------------------
(* Four channels: ignition, starter, an indicator and a running light that *)
(* joins the hazards.                                                      *)
EXTENDS Lock

NoAlternate == [c \in Channel |-> None]

Base ==
  [ is_ignition      |-> {0},
    is_starter       |-> {1},
    indicator        |-> [c \in Channel |-> IF c = 2 THEN "left" ELSE "none"],
    hazard_member    |-> {2, 3},
    on_with_ignition |-> {3},
    alternate        |-> NoAlternate,
    interlock        |-> FALSE,
    turn_auto_cancel |-> 1 ]

NoIgnition == [Base EXCEPT !.is_ignition = {}]

MCConfigs == {Base, NoIgnition}

MCCodes == {<<"a", "b">>}
MCBackoffTicks == <<1, 2, 3>>
=============================================================================

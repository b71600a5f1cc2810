------------------------------- MODULE MCDiag -------------------------------
(* Three channels: the ignition with two indicators, with a hi/lo pair of   *)
(* which one is the brake light, with a lamp and a starter, or with an      *)
(* indicator and a running light that joins the hazards.                    *)
EXTENDS Diag

NoAlternate == [c \in Channel |-> None]
NoSide == [c \in Channel |-> "none"]

Base ==
  [ is_ignition      |-> {0},
    is_starter       |-> {},
    indicator        |-> NoSide,
    hazard_member    |-> {},
    on_with_ignition |-> {},
    alternate        |-> NoAlternate,
    interlock        |-> FALSE,
    turn_auto_cancel |-> 1 ]

Turns == [Base EXCEPT !.indicator = [@ EXCEPT ![1] = "left", ![2] = "right"],
                      !.hazard_member = {1, 2}]
HiLo == [Base EXCEPT !.alternate = [@ EXCEPT ![1] = 2, ![2] = 1]]
Crank == [Base EXCEPT !.is_starter = {2}, !.interlock = TRUE]
Drl == [Base EXCEPT !.indicator = [@ EXCEPT ![1] = "left"],
                    !.hazard_member = {1, 2}, !.on_with_ignition = {2}]

MCConfigs == {Turns, HiLo, Crank, Drl}

First(behaviour) ==
  [ essential |-> {}, is_brake |-> {}, opens |-> "lit",
    behaviour |-> [c \in Channel |-> IF c = 1 THEN behaviour ELSE "toggle"] ]

MCWiring ==
  [cf \in MCConfigs |->
     IF cf = HiLo THEN [First("flasher") EXCEPT !.is_brake = {1}]
     ELSE IF cf = Crank THEN [First("toggle") EXCEPT !.essential = {1}]
     ELSE First("blink")]

Detecting ==
  [ open_load             |-> [c \in Channel |-> 2],
    overcurrent           |-> [c \in Channel |-> 6],
    lv_cutoff             |-> 2,
    lv_cutoff_hysteresis  |-> 1,
    engine_run            |-> 5,
    engine_run_hysteresis |-> 4,
    run_detection         |-> TRUE ]

MCDiagConfigs == {Detecting, [Detecting EXCEPT !.run_detection = FALSE]}
MCLearnRequests == {{2}}
=============================================================================

---------------------------- MODULE Immobilizer ----------------------------
(***************************************************************************)
(* What the immobilizer promises the rider, without cheat-codes, methods,  *)
(* timers or channels: three phases, a key and an engine.  Lock implements *)
(* it.                                                                     *)
(***************************************************************************)
VARIABLES
  phase,     \* "off" (no immobilizer), "open" or "locked"
  live,      \* the ignition is on
  running    \* the engine is running

Init == phase = "off" /\ live = FALSE /\ running = FALSE

\* Outside a lock the key and the engine do as they please.
Ride ==
  /\ phase # "locked"
  /\ live' \in BOOLEAN
  /\ running' \in BOOLEAN
  /\ UNCHANGED phase

\* Only a dead engine is locked, and only with the key turned off.
Engage ==
  /\ phase = "open" /\ ~ running
  /\ phase' = "locked" /\ live' = FALSE
  /\ UNCHANGED running

\* A key of the owner's opens the lock and turns the ignition on.
Release ==
  /\ phase = "locked"
  /\ phase' = "open" /\ live' = TRUE
  /\ UNCHANGED running

\* The owner switches the immobilizer on or off, and moves nothing else:
\* enabling never locks, disabling a locked bike leaves it dark.
Enable == phase = "off" /\ phase' = "open" /\ UNCHANGED <<live, running>>
Disable == phase # "off" /\ phase' = "off" /\ UNCHANGED <<live, running>>

Next == Ride \/ Engage \/ Release \/ Enable \/ Disable

Spec == Init /\ [][Next]_<<phase, live, running>>
=============================================================================

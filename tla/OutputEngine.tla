---------------------------- MODULE OutputEngine ----------------------------
(***************************************************************************)
(* mc_output.c, the one layer through which every output change goes, as   *)
(* functions from an engine record to the engine record a call leaves      *)
(* behind.  The operators have no state of their own: Output, Lock and     *)
(* Device keep the record in a variable and compose the calls.             *)
(*                                                                         *)
(* A configuration keeps the role flags of mc_output_channel_config_t as   *)
(* sets of channels.  commanded_on, which the code stores inside the       *)
(* configuration, is the field "commanded" of the engine: the persistence  *)
(* of the two together is modelled in Device.  Names, PWM duty, behaviour  *)
(* patterns and the hardware layer carry no control and are left out.      *)
(* Time is relative: "deadline" counts the ticks left until the            *)
(* auto-cancel of a channel expires, 0 meaning that none is pending.       *)
(***************************************************************************)
EXTENDS Integers, FiniteSets

CONSTANT NumChannels        \* MC_OUTPUT_COUNT

ASSUME NumChannelsAssumption == NumChannels \in Nat \ {0}

Channel == 0 .. (NumChannels - 1)

None == -1                  \* the code's "no such channel"

Sides == {"none", "left", "right"}
Sources == {"local", "remote"}

OutputConfig ==
  [ is_ignition      : SUBSET Channel,
    is_starter       : SUBSET Channel,
    indicator        : [Channel -> Sides],
    hazard_member    : SUBSET Channel,
    on_with_ignition : SUBSET Channel,
    alternate        : [Channel -> Channel \cup {None}],
    interlock        : BOOLEAN,          \* starter_interlock_input >= 0
    turn_auto_cancel : Nat ]

Engine ==
  [ config            : OutputConfig,
    commanded         : SUBSET Channel,
    deadline          : [Channel -> Nat],
    hazard_active     : BOOLEAN,
    hazard_saved      : SUBSET Channel,
    engine_running    : BOOLEAN,
    interlock_engaged : BOOLEAN,
    immobilized       : BOOLEAN ]

AtMostOne(S) == \A c, d \in S : c = d

\* mc_output_config_validate() accepts the configuration.
ValidOutputConfig(cfg) ==
  /\ AtMostOne(cfg.is_ignition)
  /\ AtMostOne(cfg.is_starter)
  /\ \A c \in Channel :
       LET p == cfg.alternate[c]
       IN  p # None =>
             /\ p # c
             /\ cfg.alternate[p] = c
             /\ ~ (c \in cfg.on_with_ignition /\ p \in cfg.on_with_ignition)

\* The mc_output_find_*_channel() scans: the lowest channel of a set.
FirstChannel(S) ==
  IF S = {} THEN None ELSE CHOOSE c \in S : \A d \in S : c <= d

FindIndicator(cfg, side) ==
  FirstChannel({c \in Channel : cfg.indicator[c] = side})

OnSide(cfg) == {c \in Channel : cfg.indicator[c] # "none"}

\* Channels that only mc_output_set() ever switches on: neither hazard mode
\* nor a key-on edge drives them raw.
Plain(cfg) == Channel \ (cfg.hazard_member \cup cfg.on_with_ignition)

OppositeSide(side) == IF side = "left" THEN "right" ELSE "left"

\* mc_output_init() on a configuration whose commanded_on flags are "on":
\* a zeroed engine, restored by mc_output_restore_from_config().
InitEngine(cfg, on) ==
  [ config            |-> cfg,
    commanded         |-> on,
    deadline          |-> [c \in Channel |-> 0],
    hazard_active     |-> FALSE,
    hazard_saved      |-> {},
    engine_running    |-> FALSE,
    interlock_engaged |-> FALSE,
    immobilized       |-> FALSE ]

-----------------------------------------------------------------------------
(* The pieces of mc_output_set()                                           *)

SetRaw(o, ch, on) ==
  [o EXCEPT !.commanded = IF on THEN @ \cup {ch} ELSE @ \ {ch}]

ClearDeadlines(o, S) ==
  [o EXCEPT !.deadline = [c \in Channel |-> IF c \in S THEN 0 ELSE @[c]]]

\* Mutant: the hazards end without a new auto-cancel window.
NotRearmed(o, ch) == 0

\* An indicator that the end of the hazards relights is given a fresh
\* auto-cancel window; any other member has none.
Rearmed(o, ch) ==
  IF ch \in o.hazard_saved \cap OnSide(o.config)
  THEN o.config.turn_auto_cancel ELSE 0

\* Every member but "except" goes back to its saved state.
EndHazardMode(o, except) ==
  LET back == o.config.hazard_member \ {except}
  IN  IF ~ o.hazard_active THEN o
      ELSE [o EXCEPT
              !.hazard_active = FALSE,
              !.commanded = (@ \ back) \cup (back \cap o.hazard_saved),
              !.deadline = [c \in Channel |->
                              IF c \in back THEN Rearmed(o, c) ELSE @[c]]]

\* Key on: the companions that are still dark light up, raw.
IgnitionOn(o) ==
  LET lit == o.config.on_with_ignition \ (o.config.is_ignition \cup o.commanded)
  IN  [ClearDeadlines(o, lit) EXCEPT !.commanded = @ \cup lit]

\* Mutant: key off leaves the hazards "running" over a dark group.
IgnitionOffKeepsHazards(o) ==
  LET others == Channel \ o.config.is_ignition
  IN  [ClearDeadlines(o, others) EXCEPT !.commanded = @ \ others]

\* Key off: hazard mode ends and everything but the ignition goes out.
IgnitionOff(o) ==
  LET others == Channel \ o.config.is_ignition
  IN  [ClearDeadlines(o, others) EXCEPT !.hazard_active = FALSE,
                                        !.commanded = @ \ others]

\* Mutant: neither the opposite indicator nor the partner is dropped.
NothingDropped(o, ch) == o

\* Turn exclusion: the first indicator of the other side goes out.
DropOpposite(o, ch) ==
  LET opp == FindIndicator(o.config, OppositeSide(o.config.indicator[ch]))
  IN  IF opp \in o.commanded \ {ch}
      THEN ClearDeadlines(SetRaw(o, opp, FALSE), {opp})
      ELSE o

\* Pair exclusion: the alternate of the channel goes out.
DropPartner(o, ch) ==
  SetRaw(o, o.config.alternate[ch], FALSE)

ArmAutoCancel(o, ch, on) ==
  [o EXCEPT !.deadline[ch] = IF on THEN o.config.turn_auto_cancel ELSE 0]

\* Mutant: the immobilizer is not asked.
PermittedUnlessStarter(o, ch, on, source) ==
  on /\ ch \in o.config.is_starter =>
    source = "local" /\ ~ o.engine_running /\ (o.config.interlock => o.interlock_engaged)

\* mc_output_set() refuses to switch on anything while immobilized, and the
\* starter remotely, with the engine running or without its interlock.
\* Switching off is never refused.
Permitted(o, ch, on, source) ==
  on => /\ ~ o.immobilized
        /\ ch \in o.config.is_starter =>
             /\ source = "local"
             /\ ~ o.engine_running
             /\ o.config.interlock => o.interlock_engaged

\* An accepted command first makes room: it leaves hazard mode, drops the
\* opposite indicator and the partner.
Cleared(o, ch, on) ==
  LET o1 == IF ch \in o.config.hazard_member THEN EndHazardMode(o, ch) ELSE o
      o2 == IF on /\ ch \in OnSide(o.config) THEN DropOpposite(o1, ch) ELSE o1
  IN  IF on THEN DropPartner(o2, ch) ELSE o2

\* Then the channel is set, and the auto-cancel of an indicator armed.
Commanded(o, ch, on) ==
  IF ch \in OnSide(o.config) THEN ArmAutoCancel(SetRaw(o, ch, on), ch, on)
  ELSE SetRaw(o, ch, on)

\* The ignition follows its edges.
KeyEdge(was, o, ch, on) ==
  IF ch \notin was.config.is_ignition \/ (ch \in was.commanded) = on THEN o
  ELSE IF on THEN IgnitionOn(o) ELSE IgnitionOff(o)

ApplySet(o, ch, on) ==
  LET ready == Cleared(o, ch, on)
  IN  KeyEdge(ready, Commanded(ready, ch, on), ch, on)

-----------------------------------------------------------------------------
(* The calls                                                               *)

OutputSet(o, ch, on, source) ==
  IF Permitted(o, ch, on, source) THEN ApplySet(o, ch, on) ELSE o

\* mc_output_alternate_press(): light whichever member of the pair is dark.
NextOfPair(o, ch) == IF ch \in o.commanded THEN o.config.alternate[ch] ELSE ch

AlternatePress(o, ch, source) ==
  IF o.config.alternate[ch] = None THEN o
  ELSE OutputSet(o, NextOfPair(o, ch), TRUE, source)

\* Mutant: the states of the members are not saved.
StartHazardModeUnsaved(o) ==
  [ClearDeadlines(o, o.config.hazard_member) EXCEPT
     !.hazard_saved = {},
     !.commanded = @ \cup o.config.hazard_member,
     !.hazard_active = TRUE]

StartHazardMode(o) ==
  [ClearDeadlines(o, o.config.hazard_member) EXCEPT
     !.hazard_saved = o.config.hazard_member \cap o.commanded,
     !.commanded = @ \cup o.config.hazard_member,
     !.hazard_active = TRUE]

\* mc_output_hazard_press(): not gated by the immobilizer.
HazardPress(o) ==
  IF o.config.hazard_member = {} THEN o
  ELSE IF o.hazard_active THEN EndHazardMode(o, None)
  ELSE StartHazardMode(o)

\* mc_output_tick(): a deadline that expires switches its channel off, raw.
OutputTick(o) ==
  [o EXCEPT
     !.commanded = {c \in @ : o.deadline[c] # 1},
     !.deadline = [c \in Channel |-> IF @[c] > 0 THEN @[c] - 1 ELSE 0]]

\* Mutant: the rising edge is not acted upon.
SetEngineRunningOnly(o, running) == [o EXCEPT !.engine_running = running]

\* mc_output_set_engine_running(): the rising edge drops the starter.
SetEngineRunning(o, running) ==
  [o EXCEPT !.engine_running = running,
            !.commanded = IF running /\ ~ o.engine_running
                          THEN @ \ o.config.is_starter ELSE @]

SetInterlockEngaged(o, engaged) == [o EXCEPT !.interlock_engaged = engaged]

SetImmobilized(o, immobilized) == [o EXCEPT !.immobilized = immobilized]

\* mc_lock.c's ignition_is_live().
IgnitionLive(o) == FirstChannel(o.config.is_ignition) \in o.commanded
=============================================================================

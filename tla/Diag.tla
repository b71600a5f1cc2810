-------------------------------- MODULE Diag --------------------------------
(***************************************************************************)
(* What the outputs really drive, and mc_diag.c, which watches them.       *)
(*                                                                         *)
(* Output keeps what is commanded.  Here every call of it also drives the  *)
(* hardware the way apply_hal_state() does: through the blink phase, the   *)
(* attention burst of a brake light and the low-voltage cutoff.  The tick  *)
(* of mc_diag samples one driven channel at a time, finds whether the      *)
(* engine runs and whether the battery is too low, and tells the outputs.  *)
(* The currents and the battery voltage are what the calibrated readings   *)
(* may be; the calibration itself and PWM duty are left out.               *)
(***************************************************************************)
EXTENDS Output

CONSTANTS
  Wiring,         \* what each of Configs says of the drive
  DiagConfigs,    \* the diagnostics configurations a board may be given
  Currents,       \* the calibrated current of a driven channel
  Voltages,       \* the calibrated battery voltage
  LearnRequests,  \* the channels a LEARN request names: one, or all (0xFF)
  Watched         \* the channel whose history is kept

Behaviours == {"toggle", "momentary", "blink", "flasher"}
Faults == {"none", "open_load", "overcurrent"}
Bursts == {"lit", "dark", "solid"}

\* mc_output_channel_config_t, and how a burst opens: lit, dark if its pulses
\* have no on time, solid if there are no pulses.
DriveConfig ==
  [ essential : SUBSET Channel,
    is_brake  : SUBSET Channel,
    behaviour : [Channel -> Behaviours],
    opens     : Bursts ]

DiagConfig ==
  [ open_load               : [Channel -> Nat],
    overcurrent             : [Channel -> Nat],
    lv_cutoff               : Nat,
    lv_cutoff_hysteresis    : Nat,
    engine_run              : Nat,
    engine_run_hysteresis   : Nat,
    run_detection           : BOOLEAN ]

ASSUME DiagAssumption ==
  /\ Wiring \in [Configs -> DriveConfig]
  /\ DiagConfigs \subseteq DiagConfig
  /\ Currents \subseteq Nat
  /\ Voltages \subseteq Nat
  /\ LearnRequests \subseteq SUBSET Channel
  /\ Watched \in Channel

\* What apply_hal_state() looks at, and the levels it left.
Drive ==
  [ level     : [Channel -> BOOLEAN],
    blink     : BOOLEAN,
    burst     : [Channel -> Bursts],
    lv_cutoff : BOOLEAN ]

\* mc_diag_t
DiagRecord ==
  [ config           : DiagConfig,
    current          : [Channel -> Nat],
    fault            : [Channel -> Faults],
    cursor           : Channel,
    engine_running   : BOOLEAN,
    lv_cutoff_active : BOOLEAN ]

VARIABLES
  drive,    \* the levels of the hardware and what makes them differ from
            \* commanded_on: blink phase, bursts, lv_cutoff
  diag,     \* mc_diag_t
  stored,   \* s_config.diagnostics, the copy that is persisted
  dark      \* history: for how many samplings, up to a round, the watched
            \* channel has not been driven

diagVars == <<vars, drive, diag, stored, dark>>

-----------------------------------------------------------------------------
(* The drive of mc_output.c                                                *)

WiringOf(o) == Wiring[o.config]

\* mc_output_channel_is_essential(): what the cutoff may not shed.
Essential(o) ==
  WiringOf(o).essential \cup o.config.is_ignition \cup WiringOf(o).is_brake

\* compute_driven_on(): hazards make a member blink, whatever it does alone.
DrivenOn(o, d, ch) ==
  /\ ch \in o.commanded
  /\ IF o.hazard_active /\ ch \in o.config.hazard_member THEN d.blink
     ELSE /\ WiringOf(o).behaviour[ch] = "blink" => d.blink
          /\ WiringOf(o).behaviour[ch] = "flasher" => d.burst[ch] # "dark"

\* mc_output_get_actual_state() at the time of the last tick.
Actual(o, d, ch) ==
  (d.lv_cutoff => ch \in Essential(o)) /\ DrivenOn(o, d, ch)

\* apply_hal_state() on the channels S.
ApplyHal(o, d, S) ==
  [d EXCEPT !.level = [c \in Channel |-> IF c \in S THEN Actual(o, d, c) ELSE @[c]]]

\* set_commanded_on_raw() on the channels S took "was" to "o": a flasher that
\* comes on begins its burst.
RawSet(was, o, d, S) ==
  LET begun == {c \in S \cap (o.commanded \ was.commanded) :
                  WiringOf(o).behaviour[c] = "flasher"}
  IN  ApplyHal(o,
        [d EXCEPT !.burst = [c \in Channel |-> IF c \in begun THEN WiringOf(o).opens ELSE @[c]]],
        S)

Flipped(was, o) ==
  (was.commanded \ o.commanded) \cup (o.commanded \ was.commanded)

Follow(was, o, d) == RawSet(was, o, d, Flipped(was, o))

\* mc_output_set(), step by step: room is made, the channel is set, and the
\* key is followed.
DriveSet(o, d, ch, state, source) ==
  LET ready == Cleared(o, ch, state)
      set   == Commanded(ready, ch, state)
      d1    == Follow(o, ready, d)
      d2    == RawSet(ready, set, d1, {ch})
  IN  IF Permitted(o, ch, state, source)
      THEN Follow(set, KeyEdge(ready, set, ch, state), d2) ELSE d

DriveAlternate(o, d, ch, source) ==
  IF o.config.alternate[ch] = None THEN d
  ELSE DriveSet(o, d, NextOfPair(o, ch), TRUE, source)

\* mc_output_hazard_press(): the group is lit before hazard mode is flagged.
DriveHazard(o, d) ==
  LET pressed == HazardPress(o)
  IN  IF o.hazard_active THEN Follow(o, pressed, d)
      ELSE RawSet(o, [pressed EXCEPT !.hazard_active = FALSE], d,
                  o.config.hazard_member)

\* mc_output_set_lv_cutoff()
SetLvCutoff(o, d, cutoff) ==
  IF d.lv_cutoff = cutoff THEN d
  ELSE ApplyHal(o, [d EXCEPT !.lv_cutoff = cutoff], Channel)

-----------------------------------------------------------------------------
(* mc_diag.c                                                               *)

ValidDiagConfig(cf) == \A c \in Channel : cf.open_load[c] < cf.overcurrent[c]

\* mc_diag_init()
InitDiag(cf) ==
  [ config           |-> cf,
    current          |-> [c \in Channel |-> 0],
    fault            |-> [c \in Channel |-> "none"],
    cursor           |-> 0,
    engine_running   |-> FALSE,
    lv_cutoff_active |-> FALSE ]

\* How far the round-robin stands before a channel.
Ahead(cursor, ch) ==
  IF cursor <= ch THEN ch - cursor ELSE ch - cursor + NumChannels

Classify(cf, ch, current) ==
  IF current < cf.open_load[ch] THEN "open_load"
  ELSE IF current > cf.overcurrent[ch] THEN "overcurrent" ELSE "none"

\* A dark channel reads zero and has no fault; one that was not reached keeps
\* what it had.
Taken(g, energized, reached, reading) ==
  [g EXCEPT
    !.current = [c \in Channel |-> IF c \notin reached THEN @[c]
                                   ELSE IF c \in energized THEN reading ELSE 0],
    !.fault   = [c \in Channel |-> IF c \notin reached THEN @[c]
                                   ELSE IF c \in energized
                                        THEN Classify(g.config, c, reading) ELSE "none"]]

\* Mutant: the scan stops at a dark channel that has a fault to clear.
SampleSkipsDark(g, energized, reading) ==
  LET reached == {c \in energized : \A e \in energized :
                    Ahead(g.cursor, c) <= Ahead(g.cursor, e)}
  IN  [Taken(g, energized, reached, reading) EXCEPT
         !.cursor = IF reached = {} THEN @
                    ELSE LET c == CHOOSE c \in reached : TRUE
                         IN  IF c = NumChannels - 1 THEN 0 ELSE c + 1]

\* The round-robin of mc_diag_tick(): from the cursor, past the dark channels,
\* up to the first one that is driven; a whole round if none is.
Sample(g, energized, reading) ==
  LET reached == {c \in Channel : \A e \in energized :
                    Ahead(g.cursor, c) <= Ahead(g.cursor, e)}
      sampled == FirstChannel(reached \cap energized)
  IN  [Taken(g, energized, reached, reading) EXCEPT
         !.cursor = IF sampled = None THEN @
                    ELSE IF sampled = NumChannels - 1 THEN 0 ELSE sampled + 1]

\* The engine is taken to run by the charging voltage, never with an assigned
\* ignition that is off.
Running(g, o, battery) ==
  /\ g.config.run_detection
  /\ IF g.engine_running
     THEN battery >= g.config.engine_run - g.config.engine_run_hysteresis
     ELSE battery >= g.config.engine_run
  /\ o.config.is_ignition # {} => IgnitionLive(o)

\* Mutant: a battery that sags under a running engine is cut off.
CutoffWhileRunning(g, running, battery) ==
  IF g.lv_cutoff_active
  THEN battery < g.config.lv_cutoff + g.config.lv_cutoff_hysteresis
  ELSE battery > 0 /\ battery < g.config.lv_cutoff

\* The low-voltage cutoff, with its hysteresis; a zero is an unread battery.
Cutoff(g, running, battery) ==
  /\ ~ running
  /\ IF g.lv_cutoff_active
     THEN battery < g.config.lv_cutoff + g.config.lv_cutoff_hysteresis
     ELSE battery > 0 /\ battery < g.config.lv_cutoff

\* mc_diag_learn() on the channels S: half of what each one draws.
Learn(g, S, reading) ==
  [g EXCEPT !.config.open_load =
     [c \in Channel |-> IF c \in S THEN reading[c] \div 2 ELSE @[c]]]

Energized == {c \in Channel : Actual(engine, drive, c)}
-----------------------------------------------------------------------------
(* The outputs, driven                                                     *)

\* mc_output_restore_from_config(): at time 0 every channel is driven as its
\* saved state says, a pattern from its beginning.
DiagInit ==
  /\ Init
  /\ LET cold == [ level     |-> [c \in Channel |-> FALSE],
                   blink     |-> TRUE,
                   burst     |-> [c \in Channel |-> WiringOf(engine).opens],
                   lv_cutoff |-> FALSE ]
     IN  drive = ApplyHal(engine, cold, Channel)
  /\ stored \in DiagConfigs
  /\ diag = InitDiag(stored)
  /\ dark = 0

DrivenCommand(ch, state, source) ==
  /\ Command(ch, state, source)
  /\ drive' = DriveSet(engine, drive, ch, state, source)
  /\ UNCHANGED <<diag, stored, dark>>

DrivenAlternate(ch) ==
  /\ Alternate(ch)
  /\ drive' = DriveAlternate(engine, drive, ch, "local")
  /\ UNCHANGED <<diag, stored, dark>>

DrivenHazard ==
  /\ Hazard
  /\ drive' = DriveHazard(engine, drive)
  /\ UNCHANGED <<diag, stored, dark>>

\* A burst goes through its pulses and ends solid (49 days later the clock
\* wraps into it again, which is left out).
Pulses(burst) ==
  {b \in [Channel -> Bursts] :
     \A c \in Channel : (burst[c] = "solid" \/ WiringOf(engine).behaviour[c] # "flasher")
                        => b[c] = burst[c]}

\* mc_output_tick(): the only place where the time of the patterns advances;
\* every channel is driven anew.
DrivenTick ==
  /\ Tick
  /\ \E blink \in BOOLEAN, burst \in Pulses(drive.burst) :
       drive' = ApplyHal(engine',
                         [drive EXCEPT !.blink = blink, !.burst = burst], Channel)
  /\ UNCHANGED <<diag, stored, dark>>

\* Reported by a board that has an interlock input.
DrivenInterlock(engaged) ==
  /\ cfg.interlock
  /\ InterlockMoved(engaged)
  /\ UNCHANGED <<drive, diag, stored, dark>>

\* mc_diag_tick(): sample, look at the battery, tell the outputs.
DiagTick(reading, battery) ==
  LET running == Running(diag, engine, battery)
      cutoff  == Cutoff(diag, running, battery)
  IN  /\ EngineDetected(running)
      /\ drive' = SetLvCutoff(engine', Follow(engine, engine', drive), cutoff)
      /\ diag' = [Sample(diag, Energized, reading) EXCEPT
                    !.engine_running = running, !.lv_cutoff_active = cutoff]
      /\ dark' = IF Watched \in Energized THEN 0
                 ELSE IF dark < NumChannels THEN dark + 1 ELSE dark
      /\ UNCHANGED stored

-----------------------------------------------------------------------------
(* The phone's requests                                                    *)

\* DIAG_SET_CONFIG refuses thresholds that exclude an overcurrent.
DiagSetConfig(cf) ==
  /\ ValidDiagConfig(cf)
  /\ diag' = [diag EXCEPT !.config = cf]
  /\ stored' = cf
  /\ UNCHANGED <<vars, drive, dark>>

\* config_commit() takes any.
ConfigImport(cf) ==
  /\ diag' = [diag EXCEPT !.config = cf]
  /\ stored' = cf
  /\ UNCHANGED <<vars, drive, dark>>

\* Mutant: what was learnt is not copied to the configuration that is saved.
DiagLearnUnsaved(S) ==
  /\ S \cap Energized # {}
  /\ \E reading \in [S \cap Energized -> Currents] :
       diag' = Learn(diag, S \cap Energized, reading)
  /\ UNCHANGED <<vars, drive, dark, stored>>

\* DIAG_LEARN of channels none of which is driven is rejected.
DiagLearn(S) ==
  /\ S \cap Energized # {}
  /\ \E reading \in [S \cap Energized -> Currents] :
       diag' = Learn(diag, S \cap Energized, reading)
  /\ stored' = diag'.config
  /\ UNCHANGED <<vars, drive, dark>>

DiagNext ==
  \/ \E ch \in Channel, state \in BOOLEAN, source \in Sources :
       DrivenCommand(ch, state, source)
  \/ \E ch \in Channel : DrivenAlternate(ch)
  \/ DrivenHazard
  \/ DrivenTick
  \/ \E engaged \in BOOLEAN : DrivenInterlock(engaged)
  \/ \E reading \in Currents, battery \in Voltages : DiagTick(reading, battery)
  \/ \E cf \in DiagConfigs : DiagSetConfig(cf) \/ ConfigImport(cf)
  \/ \E S \in LearnRequests : DiagLearn(S)

DiagSpec == DiagInit /\ [][DiagNext]_diagVars

-----------------------------------------------------------------------------

DiagTypeOK ==
  /\ drive \in Drive
  /\ diag \in DiagRecord
  /\ stored \in DiagConfig
  /\ dark \in 0 .. NumChannels

\* The channels whose level does not depend on the time.
Steady(c) ==
  WiringOf(engine).behaviour[c] \in {"toggle", "momentary"} /\ c \notin cfg.hazard_member

Shed(c) == drive.lv_cutoff /\ c \notin Essential(engine)

\* The hardware follows the engine between the ticks as well: a steady channel
\* is driven exactly when it is commanded and not shed, and nothing else of
\* any channel is ever driven.
LevelsFollow ==
  \A c \in Channel :
    /\ drive.level[c] => c \in on /\ ~ Shed(c)
    /\ Steady(c) /\ c \in on /\ ~ Shed(c) => drive.level[c]

\* What mc_diag remembers having pushed is what the outputs hold, and what it
\* decides by is what will be loaded at the next boot.
CopiesAgree ==
  /\ diag.engine_running = engine.engine_running
  /\ diag.lv_cutoff_active = drive.lv_cutoff
  /\ diag.config = stored

DiagSound == DiagTypeOK /\ LevelsFollow /\ CopiesAgree

\* Ride-safe failure: a light the rider switched on stays lit while the engine
\* runs, whatever the battery does, and the ignition, the brake light and what
\* is marked essential stay lit even if it does not.
RideKeepsLights ==
  \A c \in on :
    Steady(c) /\ (engine.engine_running \/ c \in Essential(engine)) => drive.level[c]

\* A channel that has been dark for one round of samplings shows neither a
\* current nor a fault, however many of the others are driven.
DarkReadsNothing ==
  dark = NumChannels => diag.current[Watched] = 0 /\ diag.fault[Watched] = "none"
=============================================================================

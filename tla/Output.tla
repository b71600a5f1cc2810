------------------------------- MODULE Output -------------------------------
(***************************************************************************)
(* The output engine on its own: one engine record, called in any order by *)
(* the button dispatch, the BLE session, the tick and the diagnostics.     *)
(* The configuration is any one of Configs and stays fixed; the            *)
(* immobilizer belongs to Lock and configuration writes to Device.  A      *)
(* reset is no action: it leads to an initial state.                       *)
(***************************************************************************)
EXTENDS OutputEngine

CONSTANT Configs            \* the configurations a board may be given

ASSUME ConfigsAssumption ==
  \A cfg \in Configs : cfg \in OutputConfig /\ ValidOutputConfig(cfg)

VARIABLES
  engine,   \* mc_output_engine_t
  prior,    \* history: {what was on when the hazards started}, until a call
            \* other than a tick touches the outputs; {} otherwise
  asked,    \* history: the lit channels that a command lit and nothing put out
  restored  \* history: the channels that are lit, or will be when the hazards
            \* end, because they were in flash and no command touched them

vars == <<engine, prior, asked, restored>>

cfg == engine.config
on  == engine.commanded

\* The board boots with whatever states were saved: a configuration written
\* later keeps the states that were reached under the one before it.
Init ==
  /\ \E c \in Configs, saved \in SUBSET Channel : engine = InitEngine(c, saved)
  /\ prior = {}
  /\ asked = {}
  /\ restored = on

\* What is lit, and what will be again when the hazards end.
Held(o) == o.commanded \cup IF o.hazard_active THEN o.hazard_saved ELSE {}

\* A call that lights the channels "ask" at somebody's request, after putting
\* out whatever is not in "room".
Credit(ask, room) ==
  /\ asked' = ((asked \cap room) \cup ask) \cap on'
  /\ restored' = (restored \ ask) \cap Held(engine')

Uncredited == Credit({}, on)

Credited(ch, state, source) ==
  IF Permitted(engine, ch, state, source)
  THEN Credit({ch}, Cleared(engine, ch, state).commanded)
  ELSE UNCHANGED <<asked, restored>>

\* SET_OUTPUT over BLE, or a toggle, brake or momentary binding.
Command(ch, state, source) ==
  /\ engine' = OutputSet(engine, ch, state, source)
  /\ prior' = {}
  /\ Credited(ch, state, source)

\* A "512 + N" button binding.
Alternate(ch) ==
  /\ engine' = AlternatePress(engine, ch, "local")
  /\ prior' = {}
  /\ IF cfg.alternate[ch] = None THEN UNCHANGED <<asked, restored>>
     ELSE Credited(NextOfPair(engine, ch), TRUE, "local")

Hazard ==
  /\ engine' = HazardPress(engine)
  /\ prior' = IF engine'.hazard_active /\ ~ engine.hazard_active
              THEN {on} ELSE {}
  /\ Uncredited

Tick ==
  /\ engine' = OutputTick(engine)
  /\ prior' = {before \cap engine'.commanded : before \in prior}
  /\ Uncredited

\* mc_diag_tick() reports what it derived from the battery voltage.
EngineDetected(running) ==
  /\ engine' = SetEngineRunning(engine, running)
  /\ prior' = {}
  /\ Uncredited

InterlockMoved(engaged) ==
  /\ engine' = SetInterlockEngaged(engine, engaged)
  /\ UNCHANGED <<prior, asked, restored>>

Next ==
  \/ \E ch \in Channel, state \in BOOLEAN, source \in Sources :
       Command(ch, state, source)
  \/ \E ch \in Channel : Alternate(ch)
  \/ Hazard
  \/ Tick
  \/ \E running \in BOOLEAN : EngineDetected(running)
  \/ \E engaged \in BOOLEAN : InterlockMoved(engaged)

Spec == Init /\ [][Next]_vars

-----------------------------------------------------------------------------

TypeOK ==
  /\ engine \in Engine
  /\ cfg \in Configs
  /\ prior \in SUBSET SUBSET Channel
  /\ asked \in SUBSET on
  /\ restored \in SUBSET Held(engine)

\* Starter protection: a starter is never left engaged against a running
\* engine, whichever of the two comes first (validate_starter_command() at
\* command time, the rising edge afterwards), also one that came lit out of
\* flash; unless the key or the hazards drive it raw, without asking.
StarterProtected ==
  engine.engine_running => on \cap cfg.is_starter \cap (Plain(cfg) \cup asked) = {}

\* Of an alternating pair a member that a command lit never has its partner
\* beside it: neither one that a command lit, nor one that only commands and
\* the flash can light.  What the key or the hazards light raw may join it.
PairExclusive ==
  \A c \in asked : cfg.alternate[c] \notin asked \cup (on \cap Plain(cfg))

\* Two indicators, the only ones of their sides.
Opposed(cf, c, d) ==
  /\ c # d
  /\ {c, d} \subseteq OnSide(cf)
  /\ \A e \in OnSide(cf) :
       /\ cf.indicator[e] = cf.indicator[c] => e = c
       /\ cf.indicator[e] = cf.indicator[d] => e = d

\* And neither of them lit by the key, both or none in the hazard group.
Signals(cf, c, d) ==
  /\ Opposed(cf, c, d)
  /\ {c, d} \cap cf.on_with_ignition = {}
  /\ c \in cf.hazard_member <=> d \in cf.hazard_member

\* Both directions are never signalled together by commands; and outside a
\* hazard stop not at all, also right after one, when the hazards give back
\* what they borrowed: unless the board booted with both of them (a reset
\* during the hazards leaves that in flash) and nobody touched either since.
TurnExclusive ==
  \A c, d \in Channel :
    /\ Opposed(cfg, c, d) => ~ {c, d} \subseteq asked
    /\ Signals(cfg, c, d) /\ {c, d} \subseteq on /\ ~ engine.hazard_active
       => {c, d} \subseteq restored

\* What is never lit together, of a well-formed engine.
EngineSound == TypeOK /\ StarterProtected /\ PairExclusive /\ TurnExclusive

\* The indicators that must end by themselves: lit by a command, or by the
\* end of the hazards, but not raw by the key or out of flash.
Timed == OnSide(cfg) \cap (asked \cup (Channel \ (cfg.on_with_ignition \cup restored)))

\* No signal is left latched on: outside a hazard stop every one of them that
\* is lit has an auto-cancel pending, also one that the end of the hazards
\* relit.
IndicatorArmed ==
  \A c \in Timed :
    (c \in on /\ ~ engine.hazard_active /\ cfg.turn_auto_cancel > 0)
    => engine.deadline[c] > 0

\* A member that nothing but hazard mode, its own command and its own
\* opposite indicator can reach.
Undisturbed(c) ==
  /\ cfg.alternate[c] = None
  /\ c \notin cfg.is_starter
  /\ c \in OnSide(cfg) =>
       \A d \in OnSide(cfg) : d \in cfg.hazard_member

\* The status wire never reports running hazards over a dark group.
HazardsVisible ==
  engine.hazard_active =>
    \A c \in cfg.hazard_member : Undisturbed(c) => c \in on

\* Hazards borrow the group: started and stopped with nothing but time in
\* between, they leave every channel as it was, minus signals that timed out.
HazardsBorrow ==
  [][Hazard /\ engine.hazard_active => \A before \in prior : on' = before]_vars
=============================================================================

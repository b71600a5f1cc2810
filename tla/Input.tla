------------------------------- MODULE Input -------------------------------
(***************************************************************************)
(* The handlebar buttons: debouncing, short, long and double presses,      *)
(* chords and sequences, as app_task polls them.                           *)
(*                                                                         *)
(* A step is one turn of app_task: mc_input_poll() on a sample of every    *)
(* button, after which the loop pops every event.  Nothing else touches    *)
(* the engine but a configuration write, here between two polls: the       *)
(* NimBLE task may make it in the middle of one, which is not modelled.    *)
(* Times are absolute, from boot.                                          *)
(***************************************************************************)
EXTENDS Integers, FiniteSets, Sequences

CONSTANTS
  ButtonCount,  \* MC_INPUT_COUNT
  ComboCount,   \* MC_COMBO_MAX_DEFS
  Configs,      \* the configurations a phone may write
  QueueLen,     \* MC_INPUT_EVENT_QUEUE_LEN
  Intervals,    \* the time between two polls
  MaxTime       \* bound: the time after boot

Button == 1 .. ButtonCount
Combo == 1 .. ComboCount

\* A chord or a sequence; "none" fills the slots above combo_count.
Definition == [type : {"chord", "sequence", "none"}, buttons : Seq(Button), window : Nat]
Configuration == [combos : [Combo -> Definition], debounce : Nat, long : Nat, gap : Nat]

\* The queue holds what one poll can queue, one press of a button and one event
\* of a combo: 8 and 8 of 16.
ASSUME InputAssumption ==
  /\ ButtonCount \in Nat /\ ComboCount \in Nat
  /\ Configs \subseteq Configuration /\ Configs # {}
  /\ \A d \in Configs : \A c \in Combo : d.combos[c].type # "none" => d.combos[c].buttons # <<>>
  /\ QueueLen \in Nat /\ ButtonCount + ComboCount <= QueueLen
  /\ Intervals \subseteq Nat \ {0}
  /\ MaxTime \in Nat

VARIABLES
  now,     \* now_ms of the last poll
  config,  \* the timing and the combos of the engine's own copy of the configuration
  button,  \* mc_button_state_t of each button
  combo,   \* mc_combo_state_t of each combo
  open,    \* history: the presses not told yet, oldest first: was a chord fired on it
  shorts,  \* history: the short presses since a sequence last fired
  wrong    \* history: the kinds of events that the presses did not explain

engine == <<config, button, combo>>
history == <<open, shorts, wrong>>
inputVars == <<now, engine, history>>

Up == [raw |-> FALSE, stable |-> FALSE, raw_change |-> 0, press_start |-> 0,
       long_fired |-> FALSE, pending |-> FALSE, last_release |-> 0, consumed |-> FALSE]
Fresh == [progress |-> 0, start |-> 0, fired |-> FALSE]

InputInit ==
  /\ now = 0
  /\ config \in Configs
  /\ button = [b \in Button |-> Up]
  /\ combo = [c \in Combo |-> Fresh]
  /\ open = [b \in Button |-> <<>>]
  /\ shorts = [c \in Combo |-> <<>>]
  /\ wrong = {}

-----------------------------------------------------------------------------
(* One button in a poll at time t                                          *)

Settles(st, raw, t) ==
  raw = st.raw /\ raw # st.stable /\ t - st.raw_change >= config.debounce

\* The second tap is over within the gap of the first.
Doubles(st, raw, t) ==
  /\ Settles(st, raw, t) /\ ~ raw
  /\ ~ st.long_fired
  /\ st.pending /\ t - st.last_release < config.gap + 1

\* The second tap is over past the gap, but the first poll that can see that
\* the gap is over is this one.
Overtakes(st, raw, t) ==
  /\ Settles(st, raw, t) /\ ~ raw
  /\ ~ st.long_fired
  /\ st.pending /\ ~ t - st.last_release < config.gap + 1

\* Mutant: chord suppression outlives the press.
PressDownConsumed(st, t) ==
  [st EXCEPT !.stable = TRUE, !.press_start = t, !.long_fired = FALSE]

\* A debounced press-down is a fresh gesture.
PressDown(st, t) ==
  [st EXCEPT !.stable = TRUE, !.press_start = t, !.long_fired = FALSE, !.consumed = FALSE]

Release(st, t) ==
  IF st.long_fired THEN [st EXCEPT !.stable = FALSE]
  ELSE IF st.pending /\ t - st.last_release < config.gap + 1
  THEN [st EXCEPT !.stable = FALSE, !.pending = FALSE]
  ELSE [st EXCEPT !.stable = FALSE, !.pending = TRUE, !.last_release = t]

Sampled(st, raw, t) ==
  IF raw # st.raw THEN [st EXCEPT !.raw = raw, !.raw_change = t]
  ELSE IF ~ Settles(st, raw, t) THEN st
  ELSE IF raw THEN PressDown(st, t) ELSE Release(st, t)

Longs(st, t) == st.stable /\ ~ st.long_fired /\ t - st.press_start >= config.long

Held(st, t) == IF Longs(st, t) THEN [st EXCEPT !.long_fired = TRUE, !.pending = FALSE] ELSE st

Shorts(st, t) == st.pending /\ t - st.last_release >= config.gap

Expired(st, t) == IF Shorts(st, t) THEN [st EXCEPT !.pending = FALSE] ELSE st

-----------------------------------------------------------------------------
(* The matcher of sequences, fed by short presses                          *)

\* Mutant: the window is not looked at.
TimelyAlways(cs, def, t) == cs.progress

\* The progress left when the window is up.
Timely(cs, def, t) ==
  IF cs.progress > 0 /\ t - cs.start >= def.window THEN 0 ELSE cs.progress

Completes(cs, def, b, t) ==
  /\ def.type = "sequence"
  /\ def.buttons[Timely(cs, def, t) + 1] = b
  /\ Timely(cs, def, t) + 1 >= Len(def.buttons)

\* A wrong button starts the sequence again when it is its first.
Matched(cs, def, b, t) ==
  LET progress == Timely(cs, def, t)
  IN  IF def.type # "sequence" THEN cs
      ELSE IF Completes(cs, def, b, t) THEN [cs EXCEPT !.progress = 0]
      ELSE IF def.buttons[progress + 1] = b
      THEN [cs EXCEPT !.progress = progress + 1, !.start = IF progress = 0 THEN t ELSE @]
      ELSE IF def.buttons[1] = b THEN [cs EXCEPT !.progress = 1, !.start = t]
      ELSE [cs EXCEPT !.progress = 0]

-----------------------------------------------------------------------------
(* Chords                                                                  *)

ChordHeld(def, bs) == def.type = "chord" /\ \A k \in DOMAIN def.buttons : bs[def.buttons[k]].stable

\* All down within the window, once for a hold.
ChordFires(cs, def, bs) ==
  /\ ChordHeld(def, bs)
  /\ ~ cs.fired
  /\ \A j, k \in DOMAIN def.buttons :
       bs[def.buttons[j]].press_start - bs[def.buttons[k]].press_start <= def.window

ChordState(cs, def, bs) ==
  IF def.type = "chord"
  THEN [cs EXCEPT !.fired = ChordHeld(def, bs) /\ (@ \/ ChordFires(cs, def, bs))] ELSE cs

Members(cs, bs) ==
  {b \in Button : \E c \in Combo :
     ChordFires(cs[c], config.combos[c], bs) /\ \E k \in DOMAIN config.combos[c].buttons : config.combos[c].buttons[k] = b}

-----------------------------------------------------------------------------
(* A poll: the buttons in order, then the chords                           *)

\* What is computed on the way: the engine, the number of events queued, the
\* history.
Begun == [button |-> button, combo |-> combo, queued |-> 0,
          open |-> open, shorts |-> shorts, wrong |-> wrong]

\* The press an event stands for: a short one for the tap that has waited, the
\* oldest of the open presses, a long or a double one for the latest.
StandsFor(presses, type) == presses[IF type = "short" THEN 1 ELSE Len(presses)]

\* The gap of a tap ends while the button is already down again.
Overshadowed(presses, type) == type = "short" /\ Len(presses) > 1

\* The open presses explain an event, and it is suppressed when a chord was fired
\* on the very press it stands for; an overshadowed tap has the mark of the press
\* that is down, against mc_input.h:46.
Explained(presses, type, suppressed) ==
  /\ presses # <<>>
  /\ suppressed = IF Overshadowed(presses, type) THEN presses[Len(presses)]
                  ELSE StandsFor(presses, type)
  /\ type = "long" => Len(presses) = 1
  /\ type = "double" => Len(presses) = 2

\* emit_press(): when the queue is full the event is dropped.
Emit(s, b, type) ==
  IF s.queued >= QueueLen THEN s
  ELSE [s EXCEPT !.queued = @ + 1,
                 !.open[b] = IF type = "short" /\ @ # <<>> THEN Tail(@) ELSE <<>>,
                 !.wrong = IF Explained(s.open[b], type, s.button[b].consumed)
                           THEN @ ELSE @ \cup {"press"}]

GoesDown(s, b, raw, t) == Settles(s.button[b], raw, t) /\ raw

\* The tap that waits gives way to what follows it, untold.
Lose(s, b) == [s EXCEPT !.open[b] = Tail(@)]

SampleStep(s, b, raw, t) ==
  LET st == s.button[b]
      told == IF Doubles(st, raw, t) THEN Emit(s, b, "double")
              ELSE IF Overtakes(st, raw, t) THEN Lose(s, b) ELSE s
  IN  [told EXCEPT !.button[b] = Sampled(st, raw, t),
                   !.open[b] = IF GoesDown(s, b, raw, t) THEN Append(@, FALSE) ELSE @]

LongStep(s, b, t) ==
  LET kept == IF s.button[b].pending THEN Lose(s, b) ELSE s
      told == IF Longs(s.button[b], t) THEN Emit(kept, b, "long") ELSE s
  IN  [told EXCEPT !.button[b] = Held(@, t)]

\* The latest short presses, as many as the sequence has.
Recent(run, def, b, t) ==
  LET longer == Append(run, [button |-> b, at |-> t])
      n == Len(def.buttons)
  IN  IF Len(longer) > n THEN Tail(longer) ELSE longer

\* The latest k short presses of the run are the first k of the sequence, within
\* its window: that counts from the first of them, which is in every window.
Follows(run, def, k) ==
  LET first == Len(run) - k
  IN  /\ k <= Len(run)
      /\ \A j \in 1 .. k : run[first + j].button = def.buttons[j]
      /\ k > 1 => run[Len(run)].at - run[first + 1].at < def.window

ShortStep(s, b, t) ==
  IF ~ Shorts(s.button[b], t) THEN s
  ELSE LET told == Emit(s, b, "short")
           done == {c \in Combo : Completes(s.combo[c], config.combos[c], b, t)}
           run == [c \in Combo |-> Recent(s.shorts[c], config.combos[c], b, t)]
       IN  [told EXCEPT
              !.button[b] = Expired(@, t),
              !.combo = [c \in Combo |-> Matched(@[c], config.combos[c], b, t)],
              !.queued = @ + Cardinality(done),
              !.shorts = [c \in Combo |-> IF c \in done THEN <<>> ELSE run[c]],
              !.wrong = IF \A c \in done : Follows(run[c], config.combos[c], Len(config.combos[c].buttons))
                        THEN @ ELSE @ \cup {"sequence"}]

ButtonStep(s, b, raws, t) ==
  ShortStep(LongStep(SampleStep(s, b, raws[b], t), b, t), b, t)

\* The engine after the first b buttons.
Polled(raws, t) ==
  LET polled[b \in 0 .. ButtonCount] ==
        IF b = 0 THEN Begun ELSE ButtonStep(polled[b - 1], b, raws, t)
  IN  polled

Poll(raws, t) ==
  LET s == Polled(raws, t)[ButtonCount]
      chorded == Members(s.combo, s.button)
  IN  [s EXCEPT
         !.button = [b \in Button |-> IF b \in chorded THEN [@[b] EXCEPT !.consumed = TRUE] ELSE @[b]],
         !.combo = [c \in Combo |-> ChordState(@[c], config.combos[c], s.button)],
         !.open = [b \in Button |-> IF b \in chorded /\ @[b] # <<>>
                                    THEN [@[b] EXCEPT ![Len(@[b])] = TRUE] ELSE @[b]]]

\* A turn of the loop: the events are popped before the next one.
Loop ==
  \E d \in Intervals, raws \in [Button -> BOOLEAN] :
    /\ now + d <= MaxTime
    /\ now' = now + d
    /\ LET s == Poll(raws, now + d)
       IN  /\ button' = s.button
           /\ combo' = s.combo
           /\ open' = s.open
           /\ shorts' = s.shorts
           /\ wrong' = s.wrong
    /\ UNCHANGED config

\* mc_input_set_config(): the buttons keep their state but the chord mark.
SetConfig ==
  \E d \in Configs :
    /\ config' = d
    /\ combo' = [c \in Combo |-> Fresh]
    /\ button' = [b \in Button |-> [button[b] EXCEPT !.consumed = FALSE]]
    /\ open' = [b \in Button |-> [i \in DOMAIN open[b] |-> FALSE]]
    /\ shorts' = [c \in Combo |-> <<>>]
    /\ UNCHANGED <<now, wrong>>

InputNext == Loop \/ SetConfig

InputSpec == InputInit /\ [][InputNext]_inputVars

-----------------------------------------------------------------------------
(* Properties                                                              *)

InputTypeOK ==
  /\ now \in 0 .. MaxTime
  /\ config \in Configs
  /\ button \in [Button -> [raw : BOOLEAN, stable : BOOLEAN, raw_change : 0 .. MaxTime,
                            press_start : 0 .. MaxTime, long_fired : BOOLEAN, pending : BOOLEAN,
                            last_release : 0 .. MaxTime, consumed : BOOLEAN]]
  /\ combo \in [Combo -> [progress : Nat, start : 0 .. MaxTime, fired : BOOLEAN]]
  /\ open \in [Button -> Seq(BOOLEAN)]
  /\ wrong \subseteq {"press", "sequence"}

\* The presses of b the engine still has to tell: the tap that may become a
\* double press, and the one that is held and is not a long press yet.
Owed(b) ==
  (IF button[b].pending THEN 1 ELSE 0)
  + (IF button[b].stable /\ ~ button[b].long_fired THEN 1 ELSE 0)

\* mc_power may slow the loop when nothing is in flight.
ActivityPending ==
  \/ \E b \in Button : button[b].raw \/ button[b].stable \/ button[b].pending
  \/ \E c \in Combo : config.combos[c].type # "none" /\ (combo[c].progress > 0 \/ combo[c].fired)

\* Whatever the order of taps, holds, chords and configuration writes, every
\* event the loop gets stands for presses that were not told before (the unlock
\* code is fed by them): a short for the oldest tap, a long for one press, a
\* double for two.  It is suppressed when a chord was fired on the press it stands
\* for, and only then, but for a tap whose gap ends while the button is down
\* again.  No press goes untold except a tap that still waits when the next press
\* becomes long, or ends past the gap before any poll saw the gap end.  While a
\* press is still to be told the board does not slow down.
PressesTold ==
  /\ InputTypeOK
  /\ "press" \notin wrong
  /\ \A b \in Button : Len(open[b]) = Owed(b) /\ (open[b] # <<>> => ActivityPending)

\* The first button comes back later in the sequence: the matcher, which never
\* goes back, may miss it (A, A, B after A, A, A).
Recurs(def) == \E j \in 2 .. Len(def.buttons) : def.buttons[j] = def.buttons[1]

\* A sequence is as far as the latest short presses follow it and no further,
\* and it fires when they follow it to the end and only then: the press of
\* another button starts it again, a late press does not finish it.
SequenceTracks ==
  /\ "sequence" \notin wrong
  /\ \A c \in Combo : config.combos[c].type = "sequence" =>
       /\ Follows(shorts[c], config.combos[c], combo[c].progress)
       /\ ~ Recurs(config.combos[c]) =>
            \A k \in combo[c].progress + 1 .. Len(config.combos[c].buttons) :
              ~ Follows(shorts[c], config.combos[c], k)

=============================================================================

------------------------------- MODULE Power -------------------------------
(***************************************************************************)
(* How the board slows down and how a button wakes it: the power policy,   *)
(* the wait at the end of app_task's loop, and the button interrupts that  *)
(* mask themselves and are re-enabled by the loop.                         *)
(*                                                                         *)
(* Three actors: the loop, the interrupt, which may come between any two   *)
(* steps of it, and the rider and phones, who press buttons and raise and  *)
(* lower the inputs of the policy at any time.                             *)
(*                                                                         *)
(* Of mc_input there is what the policy is told: where the gesture of each *)
(* button is, and how far one sequence of presses has been matched.        *)
(***************************************************************************)
EXTENDS Integers, FiniteSets, Sequences

CONSTANTS
  Buttons,      \* the buttons
  Gates,        \* what holds the board awake besides the buttons
  Sequence,     \* combos[]: the buttons of one sequence, <<>> for none
  IdleAfter,    \* config.idle_after_ms
  ParkedAfter,  \* config.parked_after_ms
  TickOf        \* MC_POWER_TICK_*_MS of each level

Level == {"active", "idle", "parked"}

ASSUME PowerAssumption ==
  /\ Sequence \in Seq(Buttons)
  /\ IdleAfter \in Nat /\ ParkedAfter \in Nat /\ IdleAfter <= ParkedAfter
  /\ TickOf \in [Level -> Nat \ {0}]

VARIABLES
  level,      \* s_power.state; the profile is a function of it
  quiet,      \* now_ms - last_active_ms, as far as parked_after_ms
  held,       \* s_locks_held: light sleep is refused
  pc,         \* where the loop is
  todo,       \* rearm: the masked buttons still to be looked at
  rearmed,    \* rearm: those whose interrupt was enabled
  notified,   \* the notification that ends the loop's wait
  enabled,    \* the buttons whose interrupt is enabled
  masked,     \* s_masked
  down,       \* the buttons whose pin is low
  gesture,    \* mc_input: none, down, or gap after a tap
  progress,   \* mc_input: the presses of the sequence matched so far
  gates,      \* the gates that are up
  connected,  \* gatt_svr_connection_count() > 0
  late,       \* history: the gates raised since the policy last looked
  raced       \* history: the interrupts that came between re-enabling and unmasking

policy == <<level, quiet, held>>
loop == <<pc, todo, rearmed>>
wake == <<notified, enabled, masked>>
input == <<gesture, progress>>
world == <<down, gates, connected>>
vars == <<policy, loop, wake, input, world, late, raced>>

SleepAllowed(l) == l # "active"

Init ==
  /\ level = "active" /\ quiet = 0 /\ held = TRUE
  /\ pc = "rearm" /\ todo = {} /\ rearmed = {}
  /\ notified = FALSE /\ enabled = Buttons /\ masked = {}
  /\ down \in SUBSET Buttons
  /\ gesture = [b \in Buttons |-> "none"] /\ progress = 0
  /\ gates = {} /\ connected = FALSE
  /\ late = {} /\ raced = {}

-----------------------------------------------------------------------------
(* input_hal_gpio: the interrupt and the re-arming                         *)

\* The pin of an enabled interrupt is low: the handler masks it and notifies.
Interrupt(b) ==
  /\ b \in enabled /\ b \in down
  /\ enabled' = enabled \ {b}
  /\ masked' = masked \cup {b}
  /\ notified' = TRUE
  /\ raced' = IF b \in rearmed THEN raced \cup {b} ELSE raced
  /\ UNCHANGED <<policy, loop, input, world, late>>

RearmBegin ==
  /\ pc = "rearm"
  /\ todo' = masked
  /\ pc' = IF masked = {} THEN "poll" ELSE "check"
  /\ UNCHANGED <<policy, rearmed, wake, input, world, late, raced>>

\* A pin that is still low stays masked.
RearmCheck(b) ==
  /\ pc = "check" /\ b \in todo
  /\ todo' = todo \ {b}
  /\ IF b \in down
     THEN UNCHANGED <<enabled, rearmed>>
     ELSE enabled' = enabled \cup {b} /\ rearmed' = rearmed \cup {b}
  /\ UNCHANGED <<policy, pc, notified, masked, input, world, late, raced>>

\* Mutant: the buttons that were found pressed are taken off the mask as well.
UnmaskedAll == {}

\* gpio_intr_enable() comes first, the mask second.
Unmasked == masked \ rearmed

RearmEnd ==
  /\ pc = "check" /\ todo = {}
  /\ masked' = Unmasked
  /\ rearmed' = {}
  /\ pc' = "poll"
  /\ UNCHANGED <<policy, todo, notified, enabled, input, world, late, raced>>

-----------------------------------------------------------------------------
(* mc_input, as far as the policy sees it                                  *)

\* A short press feeds the matcher; p is its progress, 0 when the window is up.
After(p, b) ==
  IF Sequence = <<>> THEN 0
  ELSE IF Sequence[p + 1] = b THEN (IF p + 1 = Len(Sequence) THEN 0 ELSE p + 1)
  ELSE IF Sequence[1] = b THEN 1 ELSE 0

\* What a poll makes of the gesture of b: a tap waits for a second one, a bounce
\* or a long press does not; the gap ends in a short press.
Outcomes(b) ==
  IF b \in down THEN {"down"}
  ELSE CASE gesture[b] = "down" -> {"gap", "none"}
         [] gesture[b] = "gap" -> {"gap", "none"}
         [] OTHER -> {"none"}

Resolved(b, g) == gesture[b] = "gap" /\ g = "none"

\* mc_input_activity_pending()
InputPending(g, p) == p > 0 \/ \E b \in Buttons : g[b] # "none"

-----------------------------------------------------------------------------
(* The policy                                                              *)

HoldAwake(g, p) == InputPending(g, p) \/ gates # {}

\* Mutant: the shorter time is looked at first.
LevelAtIdle(idle) ==
  IF connected \/ idle >= IdleAfter THEN "idle"
  ELSE IF idle >= ParkedAfter THEN "parked"
  ELSE "active"

LevelAt(idle) ==
  IF connected THEN "idle"
  ELSE IF idle >= ParkedAfter THEN "parked"
  ELSE IF idle >= IdleAfter THEN "idle"
  ELSE "active"

\* mc_power_tick() and power_hal_apply()
Tick(g, p) ==
  /\ level' = IF HoldAwake(g, p) THEN "active" ELSE LevelAt(quiet)
  /\ quiet' = IF HoldAwake(g, p) THEN 0 ELSE quiet
  /\ held' = ~ SleepAllowed(level')

\* A turn of the loop: the sample, and the policy at the end.  Of two gaps that
\* end together one is told a poll later.
Turn ==
  /\ pc = "poll"
  /\ \E g \in [Buttons -> {"none", "down", "gap"}] :
       /\ \A b \in Buttons : g[b] \in Outcomes(b)
       /\ \/ /\ \A b \in Buttons : ~ Resolved(b, g[b])
             /\ progress' = progress
          \/ \E b \in Buttons, p \in {progress, 0} :
               /\ {b} = {other \in Buttons : Resolved(other, g[other])}
               /\ progress' = After(p, b)
       /\ Tick(g, progress')
       /\ gesture' = g
  /\ late' = {}
  /\ pc' = "wait"
  /\ UNCHANGED <<todo, rearmed, wake, world, raced>>

\* ulTaskNotifyTake() returns at once when a notification came meanwhile.
Wake ==
  /\ pc = "wait" /\ notified
  /\ notified' = FALSE
  /\ pc' = "rearm"
  /\ UNCHANGED <<policy, todo, rearmed, enabled, masked, input, world, late, raced>>

Timeout ==
  /\ pc = "wait" /\ ~ notified
  /\ quiet' = IF quiet + TickOf[level] > ParkedAfter THEN ParkedAfter ELSE quiet + TickOf[level]
  /\ pc' = "rearm"
  /\ UNCHANGED <<level, held, todo, rearmed, wake, input, world, late, raced>>

-----------------------------------------------------------------------------
(* The rider and the phones                                                *)

Press(b) ==
  /\ b \notin down
  /\ down' = down \cup {b}
  /\ UNCHANGED <<policy, loop, wake, input, gates, connected, late, raced>>

LetGo(b) ==
  /\ b \in down
  /\ down' = down \ {b}
  /\ UNCHANGED <<policy, loop, wake, input, gates, connected, late, raced>>

Raise(g) ==
  /\ g \notin gates
  /\ gates' = gates \cup {g}
  /\ late' = late \cup {g}
  /\ UNCHANGED <<policy, loop, wake, input, down, connected, raced>>

Lower(g) ==
  /\ g \in gates
  /\ gates' = gates \ {g}
  /\ UNCHANGED <<policy, loop, wake, input, down, connected, late, raced>>

ConnectionChange ==
  /\ connected' = ~ connected
  /\ UNCHANGED <<policy, loop, wake, input, down, gates, late, raced>>

-----------------------------------------------------------------------------
AppTask == RearmBegin \/ (\E b \in Buttons : RearmCheck(b)) \/ RearmEnd \/ Turn \/ Wake \/ Timeout

Environment ==
  \/ \E b \in Buttons : Press(b) \/ LetGo(b)
  \/ \E g \in Gates : Raise(g) \/ Lower(g)
  \/ ConnectionChange

Next == AppTask \/ (\E b \in Buttons : Interrupt(b)) \/ Environment

Spec == Init /\ [][Next]_vars

\* The loop runs, an interrupt is served, and the gap after a tap ends.
FairSpec ==
  /\ Spec
  /\ WF_vars(AppTask)
  /\ \A b \in Buttons : WF_vars(Interrupt(b))
  /\ \A b \in Buttons : SF_vars(Turn /\ gesture'[b] # "gap")

-----------------------------------------------------------------------------
(* Properties                                                              *)

TypeOK ==
  /\ level \in Level /\ quiet \in 0 .. ParkedAfter /\ held \in BOOLEAN
  /\ pc \in {"rearm", "check", "poll", "wait"}
  /\ todo \subseteq Buttons /\ rearmed \subseteq Buttons
  /\ notified \in BOOLEAN /\ enabled \subseteq Buttons /\ masked \subseteq Buttons
  /\ gesture \in [Buttons -> {"none", "down", "gap"}]
  /\ progress \in 0 .. Len(Sequence)
  /\ down \subseteq Buttons /\ gates \subseteq Gates /\ connected \in BOOLEAN

\* A button whose interrupt is off is one the loop will enable again, however
\* the presses and the interrupts fall between the steps of the re-arming:
\* unless the button was pressed just after it was enabled and before it was
\* taken off the mask.  Then it never wakes the board again.
WakeOwed == \A b \in Buttons \ enabled : b \in masked \cup raced

\* The loop waits asleep only with nothing to do: no press is in flight, no
\* sequence is half matched, and what drives an output, runs the engine or
\* moves an update was raised after the policy last looked.
SleepsIdle ==
  ~ held => gates \subseteq late /\ ~ InputPending(gesture, progress)

\* A board may sleep, and is woken by any button.
PowerSound == TypeOK /\ SleepsIdle /\ WakeOwed

LeftAlone == gates = {} /\ ~ connected /\ down = {}

\* A board that is left alone, with no sequence half matched, ends up parked
\* and stays so.
Parks == <>[](LeftAlone /\ progress = 0) => <>[](level = "parked" /\ ~ held)

=============================================================================

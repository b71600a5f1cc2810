------------------------------- MODULE Timers -------------------------------
(***************************************************************************)
(* The timers of the core on the millisecond clock of the board, a uint32  *)
(* that wraps: which pass of app_task's loop finds that a timer has run    *)
(* out.  (The other modules tell time in ticks since the start of a timer.) *)
(*                                                                         *)
(* The loop reads the clock once, when a pass begins; the NimBLE task may  *)
(* start a timer at any point of the pass.  A behaviour watches one timer; *)
(* only the quiet period looks at another one, the backoff that has begun  *)
(* with it.                                                                *)
(***************************************************************************)
EXTENDS Integers

CONSTANTS
  Wrap,     \* 2^32: the clock counts modulo Wrap
  Period,   \* how long the watched timer is to run
  Backoffs, \* backoff_duration_ms(): what a wrong entry may cost, nothing at first
  Pass,     \* bound: the longest pass of the loop, its wait included
  MaxUptime   \* bound: when the board is switched off

ASSUME TimersAssumption ==
  /\ Wrap \in Nat \ {0} /\ Period \in Nat \ {0} /\ Pass \in Nat \ {0} /\ MaxUptime \in Nat
  /\ Period + Pass < Wrap \div 2
  /\ Backoffs \subseteq 0 .. Period

VARIABLES
  watched,  \* the timer
  time,     \* milliseconds since boot
  read,     \* when the loop read the clock in this pass
  ticked,   \* when it had read it for the last mc_output_tick()
  at,       \* where the loop stands
  running,  \* the timer runs
  from,     \* the time of the reading it was started with
  backoff,  \* backoff_active, beside the quiet period
  until,    \* when that backoff ends: backoff_until_ms before it is cut to 32 bits
  ended     \* history: how long it had run when it was ended last

timersLoop == <<read, ticked, at>>
timer == <<running, from, ended>>
penalty == <<backoff, until>>
timersVars == <<watched, time, timersLoop, timer, penalty>>

\* parked_since_ms, entry_start_ms, last_attempt_ms and dirty_since_ms are
\* starts; turn_auto_cancel_deadline_ms and backoff_until_ms are ends.
Starts == {"grace", "window", "quiet", "save"}
Ends == {"turn", "backoff"}

TimersInit ==
  /\ watched \in Starts \cup Ends
  /\ time = 0 /\ read = 0 /\ ticked = 0 /\ at = "wait"
  /\ running = FALSE /\ from = 0 /\ ended = {}
  /\ backoff = FALSE /\ until = 0

-----------------------------------------------------------------------------
(* What the code computes on the clock                                     *)

Clock(ms) == ms % Wrap
Deadline == Clock(from + Period)

\* Mutant: the end is computed and compared.
ElapsedSum(now, since) == now >= Clock(since + Period)

\* mc_elapsed_at_least()
Elapsed(now, since) == (now - since) % Wrap >= Period

\* (int32_t)(now_ms - deadline) >= 0
Reached(now, deadline) == (now - deadline) % Wrap < Wrap \div 2

\* The backoff is looked at first.
Holds == backoff /\ ~ Clock(read) >= Clock(until)

RunOut ==
  \/ /\ watched \in Starts /\ Elapsed(Clock(read), Clock(from))
     /\ watched = "quiet" => ~ Holds
  \/ watched = "turn" /\ Deadline # 0 /\ Reached(Clock(read), Deadline)
  \/ watched = "backoff" /\ Clock(read) >= Deadline

\* The loop looks whether the timer has run out.
Look ==
  /\ IF running /\ RunOut
     THEN running' = FALSE /\ ended' = {read - from} /\ UNCHANGED from
     ELSE UNCHANGED timer
  /\ backoff' = Holds
  /\ UNCHANGED until

-----------------------------------------------------------------------------
Elapse ==
  /\ time < MaxUptime /\ time - read < Pass
  /\ time' = time + 1
  /\ UNCHANGED <<watched, timersLoop, timer, penalty>>

Begin ==
  /\ at = "wait"
  /\ at' = "tick" /\ read' = time
  /\ UNCHANGED <<watched, time, ticked, timer, penalty>>

\* mc_output_tick() and mc_lock_tick()
TimersTick ==
  /\ at = "tick"
  /\ at' = "events" /\ ticked' = read
  /\ IF watched = "save" THEN UNCHANGED <<timer, penalty>> ELSE Look
  /\ UNCHANGED <<watched, time, read>>

\* mc_persist_should_flush(), and the save that follows
Flush ==
  /\ at = "events"
  /\ at' = "wait"
  /\ IF watched = "save" THEN Look ELSE UNCHANGED <<timer, penalty>>
  /\ UNCHANGED <<watched, time, read, ticked>>

\* A mark of a change reads the clock.  A turn signal uses the reading of the
\* last tick, but that of its caller when the end of the hazards re-arms it: the
\* last tick's for a phone, the loop's for a button, past the tick.  The others
\* use the loop's.  Commands and marks come from both tasks.
Stamps ==
  CASE watched = "save" -> {time}
    [] watched = "turn" -> {ticked} \cup (IF at = "events" THEN {read} ELSE {})
    [] OTHER -> IF at = "events" THEN {read} ELSE {}

\* A wrong entry, which no backoff lets in, starts the quiet period again and
\* may start a backoff with it.
Start ==
  /\ from' \in Stamps
  /\ watched \in {"save", "turn", "quiet"} \/ ~ running
  /\ running' = TRUE /\ ended' = {}
  /\ IF watched = "quiet"
     THEN /\ ~ backoff
          /\ \E cost \in Backoffs : backoff' = (cost > 0) /\ until' = from' + cost
     ELSE UNCHANGED penalty
  /\ UNCHANGED <<watched, time, timersLoop>>

\* The reason for it is gone; a change stays marked.
Stop ==
  /\ running /\ watched # "save"
  /\ running' = FALSE /\ backoff' = FALSE
  /\ UNCHANGED <<watched, time, timersLoop, from, ended, until>>

TimersNext == Elapse \/ Begin \/ TimersTick \/ Flush \/ Start \/ Stop

TimersSpec == TimersInit /\ [][TimersNext]_timersVars

-----------------------------------------------------------------------------
(* What must hold                                                          *)

Early == \E age \in ended : age < Period

\* Looked at in this pass, and it should have ended.
Looked == IF watched = "save" THEN at = "wait" ELSE at \in {"events", "wait"}
Overdue == running /\ Looked /\ read - from >= Period

\* The turn signal's deadline that reads as none.
Unseen == watched = "turn" /\ Deadline = 0

\* A change marked in the pass that saved it.
MarkedInPass == watched = "save" /\ \E age \in ended : age < 0

\* A backoff in whose course the clock wraps, or just after whose end.
Wrapping == watched = "backoff" /\ Clock(from) + Period + Pass >= Wrap

\* A quiet period whose backoff is due so shortly before the clock wraps that no
\* pass may see it over: the backoff holds both for another turn of the clock.
HeldOver == watched = "quiet" /\ until > from /\ Clock(until) + Pass >= Wrap

\* A timer ends in the first pass that begins when it is due, and in none
\* before, whenever the clock wraps: the grace of the auto-lock, the window of
\* an entry, the quiet period, the debounce of a save, the cancelling of a turn
\* signal, and the backoff, but for the four gaps above.
TimersServed ==
  /\ watched \in Starts \cup Ends /\ at \in {"wait", "tick", "events"}
  /\ ~ (Unseen \/ MarkedInPass \/ Wrapping \/ HeldOver) => ~ Early /\ ~ Overdue

=============================================================================

----------------------------- MODULE BoardProofs -----------------------------
(***************************************************************************)
(* Theorems of what app_task's loop does around the engines it drives: the *)
(* timers on the clock of the board, the power policy, the buttons it      *)
(* polls, and the event log that it shares with the NimBLE task.           *)
(***************************************************************************)
EXTENDS Timers, Power, Input, EventLog, FiniteSetTheorems, SequenceTheorems, TLAPS

(***************************************************************************)
(* Timers end when they are due on the clock of the board, which counts    *)
(* milliseconds modulo 2^32: for every period and every length of a pass   *)
(* below half of its range, and at any time since boot.                    *)
(***************************************************************************)

\* uint32_t.
Wide == Wrap = 4294967296

Types ==
  /\ watched \in Starts \cup Ends
  /\ time \in Nat /\ read \in Nat /\ ticked \in Nat /\ from \in Nat
  /\ at \in {"wait", "tick", "events"}
  /\ running \in BOOLEAN
  /\ ended \subseteq Int
  /\ backoff \in BOOLEAN /\ until \in Nat

\* The readings of the clock: a timer is started with the loop's last reading,
\* with that of its last tick, or with one of its own.
Readings ==
  /\ ticked <= read /\ read <= ticked + Pass
  /\ read <= time /\ time <= read + Pass
  /\ at # "tick" => ticked = read
  /\ from <= time
  /\ watched # "save" => from <= read
  /\ watched = "turn" => from <= ticked

\* The timers that the code reads right.
Kept == ~ Unseen /\ ~ Wrapping /\ ~ HeldOver

\* A timer that runs is at most one pass late, and not at all once the loop has
\* looked at it; one that has ended was due, or marked in the pass that saved it.
Ages ==
  /\ running => ended = {}
  /\ running /\ Kept => read - from < Period + Pass
  /\ running /\ Kept /\ Looked => read - from < Period
  /\ Kept => \A age \in ended : age >= Period \/ (watched = "save" /\ age < 0)

\* A backoff begins with the quiet period and is over before it, at most a pass
\* late and not at all once the loop has looked.
Penalties ==
  /\ until <= from + Period /\ (watched # "quiet" => until = 0)
  /\ backoff => watched = "quiet" /\ from < until
  /\ backoff /\ Kept => read < until + Pass
  /\ backoff /\ Kept /\ Looked => read < until

IInv == Types /\ Readings /\ Ages /\ Penalties

-----------------------------------------------------------------------------
(* The arithmetic of the clock                                             *)

\* What mc_elapsed_at_least() computes is the time that has passed, or a huge
\* one when the start lies ahead.
LEMMA ElapsedExact ==
  ASSUME Wide, NEW a \in Nat, NEW b \in Nat,
         a - b < Period + Pass, b - a <= Pass
  PROVE  Elapsed(Clock(a), Clock(b)) <=> a - b >= Period \/ a < b
<1>. USE TimersAssumption DEF Wide
<1>1. Period \in Nat /\ Pass \in Nat /\ Period > 0 /\ Period + Pass < 2147483648
  BY SMT
<1>2. ((a % 4294967296) - (b % 4294967296)) % 4294967296
        = IF a < b THEN (a - b) + 4294967296 ELSE a - b
  BY <1>1, SMTT(30)
<1>. QED  BY <1>1, <1>2, SMT DEF Elapsed, Clock

\* The comparison of the turn signal's deadline is exact around the deadline.
LEMMA ReachedExact ==
  ASSUME Wide, NEW a \in Nat, NEW b \in Nat,
         a - b < Pass, b - a <= Period
  PROVE  Reached(Clock(a), Clock(b)) <=> a >= b
<1>. USE TimersAssumption DEF Wide
<1>1. Period \in Nat /\ Pass \in Nat /\ Period > 0 /\ Period + Pass < 2147483648
  BY SMT
<1>2. ((a % 4294967296) - (b % 4294967296)) % 4294967296
        = IF a < b THEN (a - b) + 4294967296 ELSE a - b
  BY <1>1, SMTT(30)
<1>. QED  BY <1>1, <1>2, SMT DEF Reached, Clock

\* The plain comparison of the backoff is exact as long as the clock does not
\* wrap.
LEMMA BackoffExact ==
  ASSUME Wide, NEW a \in Nat, NEW b \in Nat,
         b <= a, a - b < Period + Pass,
         Clock(b) + Period + Pass < Wrap
  PROVE  Clock(a) >= Clock(b + Period) <=> a - b >= Period
<1>. USE TimersAssumption DEF Wide
<1>1. Period \in Nat /\ Pass \in Nat /\ Period > 0 /\ Period + Pass < 2147483648
  BY SMT
<1>2. (b % 4294967296) + Period + Pass < 4294967296
  BY SMT DEF Clock
<1>3. a % 4294967296 = (b % 4294967296) + (a - b)
  BY <1>1, <1>2, SMTT(30)
<1>4. (b + Period) % 4294967296 = (b % 4294967296) + Period
  BY <1>1, <1>2, SMTT(30)
<1>. QED  BY <1>1, <1>3, <1>4, SMTT(30) DEF Clock

\* So is that of the backoff beside a quiet period.
LEMMA HoldsExact ==
  ASSUME Wide, Types, Penalties, Kept, Holds
  PROVE  read < until
<1>. USE TimersAssumption DEF Wide
<1>1. /\ watched = "quiet" /\ from < until /\ read < until + Pass
      /\ read \in Nat /\ until \in Nat /\ from \in Nat
  BY DEF Holds, Penalties, Types
<1>2. SUFFICES ASSUME read >= until PROVE FALSE
  BY <1>1
<1>3. (until % 4294967296) + Pass < 4294967296
  BY <1>1, SMT DEF Kept, HeldOver, Clock
<1>4. read % 4294967296 = (until % 4294967296) + (read - until)
  BY <1>1, <1>2, <1>3, SMTT(30)
<1>5. ~ read % 4294967296 >= until % 4294967296
  BY DEF Holds, Clock
<1>. QED  BY <1>1, <1>2, <1>4, <1>5, SMT

\* The loop finds a timer run out in the first pass in which it is due, and a
\* save also when the mark is later than the loop's reading.
LEMMA RunOutExact ==
  ASSUME Wide, Types, Readings, Penalties, Kept, read - from < Period + Pass
  PROVE  RunOut <=> read - from >= Period \/ read < from
<1>. USE TimersAssumption DEF Types
<1>1. Period \in Nat /\ Pass \in Nat /\ Period > 0
  OBVIOUS
<1>2. from - read <= Pass /\ (watched # "save" => from <= read)
  BY <1>1 DEF Readings
<1>3. CASE watched \in Starts
  <2>1. Elapsed(Clock(read), Clock(from)) <=> read - from >= Period \/ read < from
    BY <1>2, ElapsedExact
  <2>2. watched = "quiet" /\ Holds => read < from + Period
    BY <1>1, HoldsExact DEF Penalties
  <2>3. watched = "quiet" /\ read < from => FALSE
    BY <1>2
  <2>. QED  BY <1>1, <1>3, <2>1, <2>2, <2>3 DEF RunOut, Starts, Ends
<1>4. CASE watched = "turn"
  <2>1. from + Period \in Nat /\ read - (from + Period) < Pass /\ (from + Period) - read <= Period
    BY <1>1, <1>2, <1>4
  <2>2. Reached(Clock(read), Clock(from + Period)) <=> read >= from + Period
    BY <2>1, ReachedExact
  <2>3. Deadline # 0
    BY <1>4 DEF Kept, Unseen
  <2>4. RunOut <=> read >= from + Period
    BY <1>4, <2>2, <2>3 DEF RunOut, Deadline, Starts
  <2>. QED  BY <1>1, <1>2, <1>4, <2>4
<1>5. CASE watched = "backoff"
  <2>1. Clock(from) + Period + Pass < Wrap
    <3>1. Clock(from) \in Nat
      BY SMT DEF Clock, Wide
    <3>. QED  BY <1>1, <1>5, <3>1, SMT DEF Kept, Wrapping, Wide
  <2>2. Clock(read) >= Clock(from + Period) <=> read - from >= Period
    BY <1>2, <1>5, <2>1, BackoffExact
  <2>3. RunOut <=> read - from >= Period
    BY <1>5, <2>2 DEF RunOut, Deadline, Starts
  <2>. QED  BY <1>2, <1>5, <2>3
<1>. QED  BY <1>3, <1>4, <1>5 DEF Types, Ends

-----------------------------------------------------------------------------
(* The invariant                                                           *)

LEMMA InitIInv == TimersInit => IInv
<1>. SUFFICES ASSUME TimersInit PROVE IInv
  OBVIOUS
<1>1. Types
  BY DEF TimersInit, Types
<1>2. Readings
  BY TimersAssumption DEF TimersInit, Readings
<1>3. Ages
  BY DEF TimersInit, Ages
<1>4. Penalties
  BY TimersAssumption DEF TimersInit, Penalties
<1>. QED  BY <1>1, <1>2, <1>3, <1>4 DEF IInv

\* Time passes, but not beyond the longest pass.
LEMMA ElapseIInv == IInv /\ Elapse => IInv'
<1>. SUFFICES ASSUME IInv, Elapse PROVE IInv'
  OBVIOUS
<1>. USE TimersAssumption DEF IInv, Elapse, timersLoop, timer, penalty
<1>1. Types'
  BY DEF Types
<1>2. Readings'
  BY DEF Types, Readings
<1>3. Ages'
  BY DEF Ages, Kept, Looked, Unseen, Wrapping, HeldOver, Deadline
<1>4. Penalties'
  BY DEF Penalties, Kept, Looked, Unseen, Wrapping, HeldOver, Deadline
<1>. QED  BY <1>1, <1>2, <1>3, <1>4

\* The pass that begins has seen every timer at most a pass ago.
LEMMA BeginIInv == IInv /\ Begin => IInv'
<1>. SUFFICES ASSUME IInv, Begin PROVE IInv'
  OBVIOUS
<1>. USE TimersAssumption DEF IInv, Begin, timer, penalty
<1>1. Types'
  BY DEF Types
<1>2. Readings'
  BY DEF Types, Readings
<1>3. Ages'
  BY DEF Types, Readings, Ages, Kept, Looked, Unseen, Wrapping, HeldOver, Deadline
<1>4. Penalties'
  BY DEF Types, Readings, Penalties, Kept, Looked, Unseen, Wrapping, HeldOver, Deadline
<1>. QED  BY <1>1, <1>2, <1>3, <1>4

\* What the loop looks at ends if and only if it is due.
LEMMA LookAges ==
  ASSUME Wide, IInv, Look,
         watched' = watched, read' = read, from' = from
  PROVE  /\ Types => running' \in BOOLEAN /\ ended' \subseteq Int
         /\ backoff' \in BOOLEAN /\ until' = until /\ (backoff' => backoff)
         /\ backoff' /\ Kept' => read' < until'
         /\ running' => ended' = {}
         /\ running' /\ Kept' => read' - from' < Period
         /\ Kept' => \A age \in ended' : age >= Period \/ (watched' = "save" /\ age < 0)
<1>. USE TimersAssumption DEF IInv
<1>0. Kept' <=> Kept
  BY DEF Look, Kept, Unseen, Wrapping, HeldOver, Deadline
<1>3. /\ backoff' \in BOOLEAN /\ until' = until /\ (backoff' => backoff)
      /\ (backoff' /\ Kept' => read' < until')
  <2>1. backoff' = Holds /\ until' = until /\ Holds \in BOOLEAN
    BY DEF Look, Holds
  <2>2. Holds => backoff
    BY DEF Holds
  <2>3. Holds /\ Kept => read < until
    BY HoldsExact
  <2>. QED  BY <1>0, <2>1, <2>2, <2>3
<1>1. CASE running /\ RunOut
  <2>1. running' = FALSE /\ ended' = {read - from}
    BY <1>1 DEF Look
  <2>2. Kept => read - from >= Period \/ (watched = "save" /\ read - from < 0)
    <3>. SUFFICES ASSUME Kept PROVE read - from >= Period \/ (watched = "save" /\ read - from < 0)
      OBVIOUS
    <3>1. read - from >= Period \/ read < from
      BY <1>1, RunOutExact DEF Ages
    <3>. QED  BY <3>1 DEF Types, Readings
  <2>3. read - from \in Int
    BY SMT DEF Types
  <2>4. running' \in BOOLEAN /\ ~ running'
    BY <2>1, Zenon
  <2>5. ASSUME Kept', NEW age \in ended'
        PROVE  age >= Period \/ (watched' = "save" /\ age < 0)
    BY <1>0, <2>1, <2>2, <2>5
  <2>. QED  BY <1>3, <2>1, <2>3, <2>4, <2>5, Zenon
<1>2. CASE ~ (running /\ RunOut)
  <2>1. running' = running /\ ended' = ended
    BY <1>2 DEF Look, timer
  <2>2. running /\ Kept => read - from < Period
    <3>. SUFFICES ASSUME running, Kept PROVE read - from < Period
      OBVIOUS
    <3>1. ~ (read - from >= Period \/ read < from)
      BY <1>2, RunOutExact DEF Ages
    <3>. QED  BY <3>1 DEF Types
  <2>. QED  BY <1>0, <1>3, <2>1, <2>2 DEF Types, Ages
<1>. QED  BY <1>1, <1>2

LEMMA TickIInv == ASSUME Wide PROVE IInv /\ TimersTick => IInv'
<1>. SUFFICES ASSUME IInv, TimersTick PROVE IInv'
  OBVIOUS
<1>. USE TimersAssumption DEF IInv
<1>0. at = "tick" /\ at' = "events" /\ ticked' = read /\ UNCHANGED <<watched, time, read, from>>
  BY DEF TimersTick, Look, timer, penalty
<1>2. Readings'
  BY <1>0 DEF Types, Readings
<1>3. CASE watched = "save"
  <2>1. UNCHANGED <<running, from, ended, backoff, until>>
    BY <1>3 DEF TimersTick, timer, penalty
  <2>. QED  BY <1>0, <1>2, <1>3, <2>1 DEF Types, Ages, Penalties, Kept, Looked, Unseen, Wrapping, HeldOver, Deadline
<1>4. CASE watched # "save"
  <2>1. Look
    BY <1>4 DEF TimersTick
  <2>2. Types'
    BY <1>0, <2>1, LookAges DEF Types
  <2>3. Ages'
    BY <1>0, <2>1, LookAges DEF Types, Ages
  <2>4. Penalties'
    BY <1>0, <2>1, LookAges DEF Types, Penalties
  <2>. QED  BY <1>2, <2>2, <2>3, <2>4
<1>. QED  BY <1>3, <1>4

LEMMA FlushIInv == ASSUME Wide PROVE IInv /\ Flush => IInv'
<1>. SUFFICES ASSUME IInv, Flush PROVE IInv'
  OBVIOUS
<1>. USE TimersAssumption DEF IInv
<1>0. at = "events" /\ at' = "wait" /\ UNCHANGED <<watched, time, read, ticked, from>>
  BY DEF Flush, Look, timer, penalty
<1>2. Readings'
  BY <1>0 DEF Types, Readings
<1>3. CASE watched # "save"
  <2>1. UNCHANGED <<running, from, ended, backoff, until>>
    BY <1>3 DEF Flush, timer, penalty
  <2>. QED  BY <1>0, <1>2, <1>3, <2>1 DEF Types, Ages, Penalties, Kept, Looked, Unseen, Wrapping, HeldOver, Deadline
<1>4. CASE watched = "save"
  <2>1. Look
    BY <1>4 DEF Flush
  <2>2. Types'
    BY <1>0, <2>1, LookAges DEF Types
  <2>3. Ages'
    BY <1>0, <2>1, LookAges DEF Types, Ages
  <2>4. Penalties'
    BY <1>0, <2>1, LookAges DEF Types, Penalties
  <2>. QED  BY <1>2, <2>2, <2>3, <2>4
<1>. QED  BY <1>3, <1>4

\* A timer starts with a reading that the loop has looked at, or will.
LEMMA StartIInv == IInv /\ Start => IInv'
<1>. SUFFICES ASSUME IInv, Start PROVE IInv'
  OBVIOUS
<1>. USE DEF IInv
<1>0. /\ Period \in Nat /\ Pass \in Nat /\ Period > 0
      /\ \A cost \in Backoffs : cost \in Nat /\ cost <= Period
  BY TimersAssumption
<1>1. /\ UNCHANGED <<watched, time, read, ticked, at>>
      /\ running' = TRUE /\ ended' = {}
  BY DEF Start, timersLoop
<1>2. PICK f \in Nat :
        /\ from' = f
        /\ watched = "save" => f = time
        /\ watched = "turn" => f = ticked
        /\ watched \notin {"save", "turn"} => f = read /\ at = "events"
  BY DEF Start, Stamps, Readings, Types
<1>3. PICK u \in Nat :
        /\ until' = u /\ u <= f + Period /\ (watched # "quiet" => u = 0)
        /\ backoff' \in BOOLEAN
        /\ backoff' => watched = "quiet" /\ f < u
  <2>1. CASE watched = "quiet"
    <3>1. PICK cost \in Backoffs : backoff' = (cost > 0) /\ until' = from' + cost
      BY <2>1 DEF Start
    <3>2. cost \in Nat /\ cost <= Period /\ until' = f + cost
      BY <1>0, <1>2, <3>1
    <3>3. f + cost \in Nat /\ f + cost <= f + Period /\ (cost > 0 => f < f + cost)
      BY <1>0, <3>2
    <3>4. backoff' \in BOOLEAN /\ (backoff' => cost > 0)
      <4>1. (cost > 0) \in BOOLEAN
        OBVIOUS
      <4>. QED  BY <3>1, <4>1, Zenon
    <3>. QED  BY <2>1, <3>2, <3>3, <3>4
  <2>2. CASE watched # "quiet"
    <3>1. UNCHANGED <<backoff, until>> /\ backoff = FALSE /\ until = 0
      BY <2>2 DEF Start, penalty, Penalties, Types
    <3>2. 0 <= f + Period
      BY <1>0
    <3>. QED  BY <2>2, <3>1, <3>2
  <2>. QED  BY <2>1, <2>2
<1>4. Types'
  BY <1>1, <1>2, <1>3 DEF Types
<1>5. Readings'
  BY <1>1, <1>2 DEF Types, Readings
<1>6. Ages'
  <2>1. f >= ticked /\ (Looked' => f >= read)
    <3>1. CASE watched = "turn"
      BY <1>1, <1>2, <3>1 DEF Types, Readings, Looked
    <3>2. CASE watched # "turn"
      BY <1>1, <1>2, <3>2 DEF Types, Readings
    <3>. QED  BY <3>1, <3>2
  <2>2. read <= ticked + Pass /\ read \in Nat /\ ticked \in Nat
    BY DEF Readings, Types
  <2>3. read - f < Period + Pass /\ (f >= read => read - f < Period)
    BY <1>0, <2>1, <2>2
  <2>. QED  BY <1>1, <1>2, <2>1, <2>3 DEF Ages
<1>7. Penalties'
  <2>1. backoff' => read < u /\ read < u + Pass
    BY <1>0, <1>2, <1>3 DEF Types
  <2>. QED  BY <1>1, <1>2, <1>3, <2>1 DEF Penalties
<1>. QED  BY <1>4, <1>5, <1>6, <1>7

LEMMA StopIInv == IInv /\ Stop => IInv'
<1>. SUFFICES ASSUME IInv, Stop PROVE IInv'
  OBVIOUS
<1>. USE TimersAssumption DEF IInv, Stop, timersLoop
<1>1. Types'
  BY DEF Types
<1>2. Readings'
  BY DEF Types, Readings
<1>3. Ages'
  BY DEF Types, Ages, Kept, Unseen, Wrapping, HeldOver, Deadline
<1>4. Penalties'
  BY DEF Penalties
<1>. QED  BY <1>1, <1>2, <1>3, <1>4

LEMMA NextIInv == ASSUME Wide PROVE IInv /\ [TimersNext]_timersVars => IInv'
<1>1. IInv /\ UNCHANGED timersVars => IInv'
  BY DEF IInv, Types, Readings, Ages, Penalties, Kept, Looked, Unseen, Wrapping, HeldOver, Deadline,
         timersVars, timersLoop, timer, penalty
<1>. QED  BY <1>1, ElapseIInv, BeginIInv, TickIInv, FlushIInv, StartIInv, StopIInv DEF TimersNext

LEMMA IInvServes == IInv => TimersServed
<1>. SUFFICES ASSUME IInv, ~ (Unseen \/ MarkedInPass \/ Wrapping \/ HeldOver)
              PROVE  TimersServed
  BY DEF TimersServed, IInv, Types
<1>1. ~ Early
  BY TimersAssumption DEF IInv, Types, Ages, Kept, Early, MarkedInPass
<1>2. ~ Overdue
  BY TimersAssumption DEF IInv, Types, Ages, Kept, Overdue
<1>. QED  BY <1>1, <1>2 DEF TimersServed, IInv, Types

\* On the 32-bit clock of the board no timer ends early or is overdue when the
\* loop has looked at it, but for the four named gaps: for any period and any
\* length of a pass that are together below half the range of the clock, any
\* backoff not longer than the quiet period, and any uptime.
THEOREM TimersAreServed == ASSUME Wide PROVE TimersSpec => []TimersServed
<1>1. TimersInit => IInv
  BY InitIInv
<1>2. IInv /\ [TimersNext]_timersVars => IInv'
  BY NextIInv
<1>3. IInv => TimersServed
  BY IInvServes
<1>. QED  BY <1>1, <1>2, <1>3, PTL DEF TimersSpec

(***************************************************************************)
(* Power: the policy, the re-arming of the buttons and their interrupts    *)
(***************************************************************************)

\* A half-matched sequence has a next button, and a button enabled again but
\* still on the mask has fired meanwhile if it is off.
PowerInv ==
  /\ PowerSound
  /\ progress = 0 \/ progress < Len(Sequence)
  /\ rearmed \ enabled \subseteq raced

\* A short press moves the sequence on by one, starts it again, or drops it.
LEMMA AfterType ==
  ASSUME NEW p \in Nat, p = 0 \/ p < Len(Sequence), NEW b \in Buttons
  PROVE  LET n == After(p, b) IN n \in Nat /\ (n = 0 \/ n < Len(Sequence))
BY PowerAssumption DEF After

\* The board starts awake, with every interrupt enabled.
LEMMA PowerInit == Init => PowerInv
<1>. SUFFICES ASSUME Init  PROVE PowerInv
  OBVIOUS
<1>1. Len(Sequence) \in Nat /\ ParkedAfter \in Nat  BY PowerAssumption
<1>2. gesture \in [Buttons -> {"none", "down", "gap"}]  BY DEF Init
<1>3. progress = 0 /\ progress \in 0 .. Len(Sequence) /\ quiet \in 0 .. ParkedAfter
  BY <1>1 DEF Init
<1>4. TypeOK  BY <1>2, <1>3 DEF Init, TypeOK, Level
<1>5. ~ InputPending(gesture, progress)
  BY DEF Init, InputPending
<1>. QED  BY <1>3, <1>4, <1>5 DEF Init, PowerInv, PowerSound, SleepsIdle, WakeOwed

\* The steps that neither sample the buttons nor look at the policy.
LEMMA PowerRearms ==
  ASSUME PowerInv,
         \/ RearmBegin \/ RearmEnd \/ Wake
         \/ \E b \in Buttons : RearmCheck(b) \/ Interrupt(b)
  PROVE  PowerInv'
<1>. USE DEF PowerInv, PowerSound, TypeOK, WakeOwed, SleepsIdle, InputPending,
             policy, loop, wake, input, world
<1>1. CASE RearmBegin  BY <1>1 DEF RearmBegin
<1>2. CASE RearmEnd  BY <1>2 DEF RearmEnd, Unmasked
<1>3. CASE Wake  BY <1>3 DEF Wake
<1>4. ASSUME NEW b \in Buttons, RearmCheck(b)  PROVE PowerInv'
  BY <1>4 DEF RearmCheck
<1>5. ASSUME NEW b \in Buttons, Interrupt(b)  PROVE PowerInv'
  BY <1>5 DEF Interrupt
<1>. QED  BY <1>1, <1>2, <1>3, <1>4, <1>5

\* The time that passes, and what the rider and the phones do.
LEMMA PowerPasses ==
  ASSUME PowerInv, Timeout \/ Environment
  PROVE  PowerInv'
<1>. USE DEF PowerInv, PowerSound, TypeOK, WakeOwed, SleepsIdle, InputPending,
             policy, loop, wake, input, world
<1>1. CASE Timeout
  BY <1>1, PowerAssumption DEF Timeout
<1>2. ASSUME NEW b \in Buttons, Press(b) \/ LetGo(b)  PROVE PowerInv'
  BY <1>2 DEF Press, LetGo
<1>3. ASSUME NEW g \in Gates, Raise(g) \/ Lower(g)  PROVE PowerInv'
  BY <1>3 DEF Raise, Lower
<1>4. CASE ConnectionChange  BY <1>4 DEF ConnectionChange
<1>. QED  BY <1>1, <1>2, <1>3, <1>4 DEF Environment

\* A turn of the loop lets the board sleep only when nothing is going on.
LEMMA PowerTurns ==
  ASSUME PowerInv, Turn
  PROVE  PowerInv'
<1>1. PICK g \in [Buttons -> {"none", "down", "gap"}] :
        /\ \/ progress' = progress
           \/ \E b \in Buttons, p \in {progress, 0} : progress' = After(p, b)
        /\ Tick(g, progress')
        /\ gesture' = g
  BY DEF Turn
<1>2. progress' \in Nat /\ (progress' = 0 \/ progress' < Len(Sequence))
  <2>1. progress \in Nat /\ (progress = 0 \/ progress < Len(Sequence))
    BY PowerAssumption DEF PowerInv, PowerSound, TypeOK
  <2>. QED  BY <1>1, <2>1, AfterType
<1>3. progress' \in 0 .. Len(Sequence)
  BY <1>2, PowerAssumption
<1>4. level' \in Level /\ quiet' \in 0 .. ParkedAfter /\ held' \in BOOLEAN
  BY <1>1, PowerAssumption DEF Tick, Level, LevelAt, SleepAllowed, PowerInv, PowerSound, TypeOK
<1>5. ~ held' => gates = {} /\ ~ InputPending(gesture', progress')
  BY <1>1 DEF Tick, SleepAllowed, HoldAwake
<1>6. SleepsIdle'
  BY <1>1, <1>5 DEF SleepsIdle, InputPending, Turn, world
<1>7. /\ pc' = "wait" /\ UNCHANGED <<todo, rearmed, notified, enabled, masked, raced>>
      /\ UNCHANGED <<down, gates, connected>>
  BY DEF Turn, wake, world
<1>8. TypeOK' /\ WakeOwed' /\ (rearmed \ enabled \subseteq raced)'
  BY <1>1, <1>3, <1>4, <1>7 DEF PowerInv, PowerSound, TypeOK, WakeOwed
<1>. QED  BY <1>2, <1>6, <1>8 DEF PowerInv, PowerSound

\* Every step of the three actors.
LEMMA PowerSteps == PowerInv /\ [Next]_vars => PowerInv'
<1>. SUFFICES ASSUME PowerInv, [Next]_vars  PROVE PowerInv'
  OBVIOUS
<1>1. CASE Turn  BY <1>1, PowerTurns
<1>2. CASE Timeout \/ Environment  BY <1>2, PowerPasses
<1>3. CASE \/ RearmBegin \/ RearmEnd \/ Wake
           \/ \E b \in Buttons : RearmCheck(b) \/ Interrupt(b)
  BY <1>3, PowerRearms
<1>4. CASE UNCHANGED vars
  BY <1>4 DEF vars, policy, loop, wake, input, world, PowerInv, PowerSound,
              TypeOK, WakeOwed, SleepsIdle, InputPending
<1>. QED  BY <1>1, <1>2, <1>3, <1>4 DEF Next, AppTask

\* The board lets itself sleep only when no press is in flight, no sequence is
\* half matched, and what keeps it awake was raised after the policy last
\* looked; and a button whose interrupt is off will be enabled again, but for
\* the one pressed between gpio_intr_enable() and the unmasking: for every set of
\* buttons and gates, every sequence, and all times of the configuration.
THEOREM PowerIsSound == Spec => []PowerSound
<1>1. Init => PowerInv  BY PowerInit
<1>2. PowerInv /\ [Next]_vars => PowerInv'  BY PowerSteps
<1>3. PowerInv => PowerSound  BY DEF PowerInv
<1>. QED  BY <1>1, <1>2, <1>3, PTL DEF Spec

(***************************************************************************)
(* The buttons: every debounced press is told once, and the sequences      *)
(* follow the short presses, for every number of buttons and combos and    *)
(* every configuration.  A poll is a fold over the buttons; what holds of  *)
(* the engine after all of them is proved by the least button after which  *)
(* it would fail.  The queue is never full in a poll: a button tells at    *)
(* most one press, and each sequence fires at the button that ends it.     *)
(***************************************************************************)

\* What fails for some numbers fails for a least one.
LEMMA LeastNatural ==
  ASSUME NEW S \in SUBSET Nat, S # {}
  PROVE  \E x \in S : \A y \in S : x <= y
<1> DEFINE Upto(x) == 0 .. (x - 1)
           T == {Upto(x) : x \in S}
<1>1. \A x \in S : IsFiniteSet(Upto(x))
  BY FS_Interval
<1>2. ASSUME NEW x \in S
      PROVE  Upto(x) \in FiniteSubsetsOf(Nat)
  <2>1. Upto(x) \subseteq Nat
    OBVIOUS
  <2> HIDE DEF Upto
  <2> QED BY <1>1, <2>1 DEF FiniteSubsetsOf
<1>3. PICK t \in T : \A u \in T : <<u, t>> \notin StrictSubsetOrdering(Nat)
  <2>1. T \subseteq FiniteSubsetsOf(Nat) /\ T # {}
    <3> HIDE DEF Upto
    <3> QED BY <1>2
  <2> HIDE DEF T
  <2> QED BY <2>1, FS_StrictSubsetOrderingWellFounded, WFMin
<1>4. PICK x \in S : t = Upto(x)
  OBVIOUS
<1>5. ASSUME NEW y \in S, y < x PROVE FALSE
  <2>1. Upto(y) \in SUBSET Nat /\ Upto(x) \in SUBSET Nat
    OBVIOUS
  <2>2. Upto(y) \subseteq Upto(x) /\ y \in Upto(x) /\ y \notin Upto(y)
    BY <1>5
  <2>3. <<Upto(y), Upto(x)>> \in StrictSubsetOrdering(Nat)
    BY <2>1, <2>2 DEF StrictSubsetOrdering
  <2> QED BY <1>3, <1>4, <2>3
<1> QED BY <1>5

-----------------------------------------------------------------------------
(* The buttons of a poll, one after the other                              *)

\* What f is for the engine after each of the first n buttons.
Goes(f, n, raws, t) ==
  f = [b \in 0 .. n |-> IF b = 0 THEN Begun ELSE ButtonStep(f[b - 1], b, raws, t)]

LEMMA PolledExists ==
  ASSUME NEW raws, NEW t, NEW n \in Nat
  PROVE  \E f : Goes(f, n, raws, t)
<1> DEFINE Step(f, b) == IF b = 0 THEN Begun ELSE ButtonStep(f[b - 1], b, raws, t)
           Lacks == {m \in Nat : ~ \E f : f = [b \in 0 .. m |-> Step(f, b)]}
<1> SUFFICES ASSUME n \in Lacks PROVE FALSE
  BY DEF Goes
<1>1. PICK m \in Lacks : \A k \in Lacks : m <= k
  <2>1. Lacks \in SUBSET Nat /\ Lacks # {}
    OBVIOUS
  <2> HIDE DEF Lacks
  <2> QED BY <2>1, LeastNatural
<1>2. CASE m = 0
  <2> DEFINE g == [b \in 0 .. 0 |-> Begun]
  <2>1. g = [b \in 0 .. m |-> Step(g, b)]
    BY <1>2
  <2> QED BY <1>1, <2>1
<1>3. CASE m # 0
  <2>0. m \in Nat
    BY <1>1
  <2>1. m - 1 \in Nat /\ m - 1 \notin Lacks
    <3> HIDE DEF Lacks
    <3> QED BY <1>1, <1>3, <2>0
  <2>2. PICK f : f = [b \in 0 .. m - 1 |-> Step(f, b)]
    BY <2>1
  <2> DEFINE g == [b \in 0 .. m |-> IF b = m THEN ButtonStep(f[m - 1], m, raws, t) ELSE f[b]]
  <2>3. ASSUME NEW b \in 0 .. m PROVE g[b] = Step(g, b)
    <3>1. CASE b = m
      <4>1. g[m - 1] = f[m - 1] /\ g[b] = ButtonStep(f[m - 1], m, raws, t)
        BY <1>3, <2>1, <3>1
      <4> HIDE DEF g
      <4> QED BY <1>3, <3>1, <4>1
    <3>2. CASE b # m
      <4>1. b \in 0 .. m - 1 /\ g[b] = f[b]
        BY <3>2, <2>1
      <4>2. f[b] = Step(f, b)
        BY <2>2, <4>1
      <4>3. b # 0 => g[b - 1] = f[b - 1]
        BY <2>1, <4>1
      <4> HIDE DEF g
      <4> QED BY <4>1, <4>2, <4>3
    <3> QED BY <3>1, <3>2
  <2>4. g = [b \in 0 .. m |-> g[b]]
    OBVIOUS
  <2> HIDE DEF g
  <2>5. g = [b \in 0 .. m |-> Step(g, b)]
    BY <2>3, <2>4
  <2> QED BY <1>1, <2>5
<1> QED BY <1>2, <1>3

LEMMA PolledSteps ==
  ASSUME NEW raws, NEW t
  PROVE  LET polled == Polled(raws, t)
         IN  /\ polled[0] = Begun
             /\ \A b \in Button : polled[b] = ButtonStep(polled[b - 1], b, raws, t)
<1>1. ButtonCount \in Nat
  BY InputAssumption
<1>2. \E f : Goes(f, ButtonCount, raws, t)
  BY <1>1, PolledExists
<1>3. Polled(raws, t) = CHOOSE f : Goes(f, ButtonCount, raws, t)
  BY DEF Polled, Goes
<1>4. Goes(Polled(raws, t), ButtonCount, raws, t)
  BY <1>2, <1>3
<1> DEFINE polled == Polled(raws, t)
<1>5. polled = [b \in 0 .. ButtonCount |->
                  IF b = 0 THEN Begun ELSE ButtonStep(polled[b - 1], b, raws, t)]
  BY <1>4 DEF Goes
<1> HIDE DEF polled
<1> QED BY <1>1, <1>5 DEF Button, polled

-----------------------------------------------------------------------------
(* What one button does to the presses that are not told yet               *)

Pressed ==
  [raw : BOOLEAN, stable : BOOLEAN, raw_change : 0 .. MaxTime, press_start : 0 .. MaxTime,
   long_fired : BOOLEAN, pending : BOOLEAN, last_release : 0 .. MaxTime, consumed : BOOLEAN]
Matching == [progress : Nat, start : 0 .. MaxTime, fired : BOOLEAN]
Tap == [button : Button, at : 0 .. MaxTime]
Polls ==
  [button : [Button -> Pressed], combo : [Combo -> Matching], queued : Nat,
   open : [Button -> Seq(BOOLEAN)], shorts : [Combo -> Seq(Tap)],
   wrong : SUBSET {"press", "sequence"}]

\* A tap that waits and a press that is held and not long yet are still to be
\* told, and the mark of the button is that of the latest of them.
Owes(st) ==
  (IF st.pending THEN 1 ELSE 0) + (IF st.stable /\ ~ st.long_fired THEN 1 ELSE 0)
Tells(st, presses) ==
  /\ presses \in Seq(BOOLEAN) /\ Len(presses) = Owes(st)
  /\ presses # <<>> => presses[Len(presses)] = st.consumed

LEMMA EmptyLen == ASSUME NEW presses \in Seq(BOOLEAN) PROVE presses = <<>> <=> Len(presses) = 0
BY EmptySeq

LEMMA OwesValue ==
  ASSUME NEW st \in Pressed
  PROVE  /\ Owes(st) \in 0 .. 2
         /\ st.pending /\ st.stable /\ ~ st.long_fired => Owes(st) = 2
         /\ st.pending /\ ~ (st.stable /\ ~ st.long_fired) => Owes(st) = 1
         /\ ~ st.pending /\ st.stable /\ ~ st.long_fired => Owes(st) = 1
         /\ ~ st.pending /\ ~ (st.stable /\ ~ st.long_fired) => Owes(st) = 0
<1> DEFINE p == IF st.pending THEN 1 ELSE 0
           q == IF st.stable /\ ~ st.long_fired THEN 1 ELSE 0
<1>1. p \in {0, 1} /\ q \in {0, 1} /\ (st.pending => p = 1) /\ (~ st.pending => p = 0)
      /\ (st.stable /\ ~ st.long_fired => q = 1) /\ (~ (st.stable /\ ~ st.long_fired) => q = 0)
  OBVIOUS
<1>2. Owes(st) = p + q
  BY DEF Owes
<1> HIDE DEF p, q
<1> QED BY <1>1, <1>2

LEMMA TailKeeps ==
  ASSUME NEW presses \in Seq(BOOLEAN), Len(presses) >= 1
  PROVE  /\ Tail(presses) \in Seq(BOOLEAN) /\ Len(Tail(presses)) = Len(presses) - 1
         /\ Len(presses) >= 2 => Tail(presses)[Len(Tail(presses))] = presses[Len(presses)]
<1>0. presses # <<>> /\ Len(presses) \in Nat
  BY EmptyLen
<1>1. Tail(presses) \in Seq(BOOLEAN) /\ Len(Tail(presses)) = Len(presses) - 1
  BY <1>0, HeadTailProperties
<1>2. ASSUME Len(presses) >= 2 PROVE Tail(presses)[Len(presses) - 1] = presses[Len(presses)]
  <2>1. Len(presses) - 1 \in 1 .. Len(Tail(presses))
    BY <1>0, <1>1, <1>2
  <2>2. \A i \in 1 .. Len(Tail(presses)) : Tail(presses)[i] = presses[i + 1]
    BY <1>0, HeadTailProperties
  <2>3. Tail(presses)[Len(presses) - 1] = presses[(Len(presses) - 1) + 1]
    BY <2>1, <2>2
  <2>4. (Len(presses) - 1) + 1 = Len(presses)
    BY <1>0
  <2> QED BY <2>3, <2>4
<1> QED BY <1>1, <1>2

LEMMA TellsLen ==
  ASSUME NEW presses
  PROVE  \A st \in Pressed :
           Tells(st, presses) <=> /\ presses \in Seq(BOOLEAN) /\ Len(presses) = Owes(st)
                                  /\ Len(presses) >= 1 => presses[Len(presses)] = st.consumed
<1>1. ASSUME presses \in Seq(BOOLEAN) PROVE presses # <<>> <=> Len(presses) >= 1
  <2>1. Len(presses) \in Nat
    BY <1>1
  <2> QED BY <1>1, <2>1, EmptyLen
<1> QED BY <1>1 DEF Tells

LEMMA EmptyTells == ASSUME NEW st \in Pressed, Owes(st) = 0 PROVE Tells(st, <<>>)
BY EmptySeq DEF Tells

LEMMA SameTells ==
  ASSUME NEW st \in Pressed, NEW su \in Pressed, NEW presses, Tells(st, presses),
         su.consumed = st.consumed, Owes(su) = Owes(st)
  PROVE  Tells(su, presses)
BY DEF Tells

LEMMA TailTells ==
  ASSUME NEW st \in Pressed, NEW su \in Pressed, NEW presses, Tells(st, presses),
         Owes(st) >= 1, su.consumed = st.consumed, Owes(su) = Owes(st) - 1
  PROVE  Tells(su, Tail(presses))
<1>1. presses \in Seq(BOOLEAN) /\ Len(presses) = Owes(st) /\ presses[Len(presses)] = st.consumed
  BY TellsLen
<1>2. Owes(st) \in 0 .. 2
  BY OwesValue
<1>3. /\ Tail(presses) \in Seq(BOOLEAN) /\ Len(Tail(presses)) = Len(presses) - 1
      /\ Len(presses) >= 2 => Tail(presses)[Len(Tail(presses))] = presses[Len(presses)]
  BY <1>1, TailKeeps
<1>4. Len(Tail(presses)) >= 1 => Len(presses) >= 2
  BY <1>1, <1>2, <1>3
<1> QED BY <1>1, <1>3, <1>4, TellsLen

LEMMA ReleaseFields ==
  ASSUME NEW st \in Pressed, NEW t \in 0 .. MaxTime
  PROVE  LET su == Release(st, t)
         IN  /\ su \in Pressed /\ ~ su.stable /\ su.consumed = st.consumed
             /\ su.pending = IF st.long_fired THEN st.pending
                             ELSE ~ (st.pending /\ t - st.last_release < config.gap + 1)
             /\ su.long_fired = st.long_fired
BY DEF Release, Pressed

LEMMA SampledTells ==
  ASSUME NEW st \in Pressed, NEW presses, Tells(st, presses), NEW raw \in BOOLEAN,
         NEW t \in 0 .. MaxTime
  PROVE  LET su == Sampled(st, raw, t)
         IN  /\ su \in Pressed
             /\ Doubles(st, raw, t) => /\ ~ su.pending /\ ~ su.stable /\ Tells(su, <<>>)
                                       /\ Explained(presses, "double", st.consumed)
             /\ Overtakes(st, raw, t) => Tells(su, Tail(presses))
             /\ Settles(st, raw, t) /\ raw => Tells(su, Append(presses, FALSE))
             /\ ~ Doubles(st, raw, t) /\ ~ Overtakes(st, raw, t) /\ ~ (Settles(st, raw, t) /\ raw)
                  => Tells(su, presses)
<1> DEFINE su == Sampled(st, raw, t)
<1>1. su \in Pressed
  BY DEF Sampled, PressDown, Release, Pressed
<1>2. ASSUME Settles(st, raw, t), ~ raw
      PROVE  su = Release(st, t) /\ st.stable
  BY <1>2 DEF Sampled, Settles, Pressed
<1>3. ASSUME Doubles(st, raw, t)
      PROVE  /\ ~ su.pending /\ ~ su.stable /\ Tells(su, <<>>)
             /\ Explained(presses, "double", st.consumed)
  <2>1. /\ su = Release(st, t) /\ st.stable /\ st.pending /\ ~ st.long_fired
        /\ t - st.last_release < config.gap + 1
    BY <1>2, <1>3 DEF Doubles
  <2>2. ~ su.pending /\ ~ su.stable
    <3> HIDE DEF su
    <3> QED BY <2>1, ReleaseFields
  <2>3. Tells(su, <<>>)
    <3> HIDE DEF su
    <3> QED BY <1>1, <2>2, EmptyTells, OwesValue
  <2>4. Len(presses) = 2
    BY <2>1, OwesValue DEF Tells
  <2>5. presses # <<>> /\ st.consumed = presses[Len(presses)]
    BY <2>4, EmptyLen DEF Tells
  <2> QED BY <2>2, <2>3, <2>4, <2>5 DEF Explained, StandsFor, Overshadowed
<1>4. ASSUME Overtakes(st, raw, t) PROVE Tells(su, Tail(presses))
  <2>1. /\ su = Release(st, t) /\ st.stable /\ st.pending /\ ~ st.long_fired
        /\ ~ t - st.last_release < config.gap + 1
    BY <1>2, <1>4 DEF Overtakes
  <2> HIDE DEF su
  <2>2. su.pending /\ ~ su.stable /\ su.consumed = st.consumed
    BY <2>1, ReleaseFields
  <2>3. Owes(st) = 2 /\ Owes(su) = 1
    BY <1>1, <2>1, <2>2, OwesValue
  <2> QED BY <1>1, <2>2, <2>3, TailTells
<1>5. ASSUME Settles(st, raw, t), raw PROVE Tells(su, Append(presses, FALSE))
  <2>1. su = PressDown(st, t) /\ ~ st.stable
    BY <1>5 DEF Sampled, Settles, Pressed
  <2>2. su.stable /\ ~ su.long_fired /\ ~ su.consumed /\ su.pending = st.pending
    BY <2>1 DEF PressDown, Pressed
  <2> HIDE DEF su
  <2>3. presses \in Seq(BOOLEAN) /\ Len(presses) = Owes(st) /\ Owes(st) \in 0 .. 2
    BY OwesValue DEF Tells
  <2>4. Owes(su) = Owes(st) + 1
    <3>1. CASE st.pending
      <4>1. Owes(st) = 1 /\ Owes(su) = 2
        BY <1>1, <2>1, <2>2, <3>1, OwesValue
      <4> QED BY <4>1
    <3>2. CASE ~ st.pending
      <4>1. Owes(st) = 0
        BY <2>1, <3>2, OwesValue
      <4>2. Owes(su) = 1
        BY <1>1, <2>2, <3>2, OwesValue
      <4> QED BY <4>1, <4>2
    <3> QED BY <3>1, <3>2
  <2>5. /\ Append(presses, FALSE) \in Seq(BOOLEAN)
        /\ Len(Append(presses, FALSE)) = Len(presses) + 1
        /\ Append(presses, FALSE)[Len(presses) + 1] = FALSE
    BY <2>3, AppendProperties
  <2>6. su.consumed = FALSE
    BY <1>1, <2>2 DEF Pressed
  <2> QED BY <1>1, <2>3, <2>4, <2>5, <2>6, TellsLen
<1>6. ASSUME ~ Doubles(st, raw, t), ~ Overtakes(st, raw, t), ~ (Settles(st, raw, t) /\ raw)
      PROVE  Tells(su, presses)
  <2>1. CASE raw # st.raw \/ ~ Settles(st, raw, t)
    <3>1. /\ su.consumed = st.consumed /\ su.pending = st.pending /\ su.stable = st.stable
          /\ su.long_fired = st.long_fired
      BY <2>1 DEF Sampled, Pressed
    <3> HIDE DEF su
    <3>2. Owes(su) = Owes(st)
      BY <3>1 DEF Owes
    <3> QED BY <1>1, <3>1, <3>2, SameTells
  <2>2. CASE raw = st.raw /\ Settles(st, raw, t)
    <3>1. su = Release(st, t) /\ st.stable /\ (st.long_fired \/ ~ st.pending)
      BY <1>2, <1>6, <2>2 DEF Doubles, Overtakes
    <3> HIDE DEF su
    <3>2. /\ ~ su.stable /\ su.consumed = st.consumed
          /\ su.pending = IF st.long_fired THEN st.pending ELSE TRUE
      BY <3>1, ReleaseFields
    <3>3. Owes(su) = Owes(st)
      <4>1. CASE st.long_fired
        <5>1. CASE st.pending
          BY <1>1, <3>1, <3>2, <4>1, <5>1, OwesValue
        <5>2. CASE ~ st.pending
          BY <1>1, <3>1, <3>2, <4>1, <5>2, OwesValue
        <5> QED BY <5>1, <5>2
      <4>2. CASE ~ st.long_fired
        BY <1>1, <3>1, <3>2, <4>2, OwesValue
      <4> QED BY <4>1, <4>2
    <3> QED BY <1>1, <3>2, <3>3, SameTells
  <2> QED BY <2>1, <2>2
<1> QED BY <1>1, <1>3, <1>4, <1>5, <1>6

\* A long press is told, and takes a tap that still waits with it.
LEMMA HeldTells ==
  ASSUME NEW st \in Pressed, NEW presses, Tells(st, presses), NEW t \in 0 .. MaxTime
  PROVE  LET su == Held(st, t)
             kept == IF st.pending THEN Tail(presses) ELSE presses
         IN  /\ su \in Pressed
             /\ Longs(st, t) => /\ st.stable /\ ~ su.pending /\ Tells(su, <<>>)
                                /\ Explained(kept, "long", st.consumed)
             /\ ~ Longs(st, t) => su = st
<1> DEFINE su == Held(st, t)
           kept == IF st.pending THEN Tail(presses) ELSE presses
<1>1. su \in Pressed
  BY DEF Held, Pressed
<1>2. ASSUME Longs(st, t)
      PROVE  /\ st.stable /\ ~ su.pending /\ Tells(su, <<>>) /\ Explained(kept, "long", st.consumed)
  <2>1. st.stable /\ ~ st.long_fired /\ ~ su.pending /\ su.long_fired
    BY <1>2 DEF Longs, Held, Pressed
  <2>2. Tells(su, <<>>)
    <3> HIDE DEF su
    <3> QED BY <1>1, <2>1, EmptyTells, OwesValue
  <2>3. kept \in Seq(BOOLEAN) /\ Len(kept) = 1 /\ kept[1] = st.consumed
    <3>1. CASE st.pending
      <4>0. Owes(st) = 2
        BY <2>1, <3>1, OwesValue
      <4>1. presses \in Seq(BOOLEAN) /\ Len(presses) = 2
        BY <4>0 DEF Tells
      <4>2. Len(presses) >= 2 /\ Len(presses) >= 1
        BY <4>1
      <4>3. /\ Tail(presses) \in Seq(BOOLEAN) /\ Len(Tail(presses)) = Len(presses) - 1
            /\ Tail(presses)[Len(Tail(presses))] = presses[Len(presses)]
        BY <4>1, <4>2, TailKeeps
      <4>4. Len(Tail(presses)) = 1
        BY <4>1, <4>3
      <4>5. presses[Len(presses)] = st.consumed
        BY <4>2, TellsLen
      <4> QED BY <3>1, <4>3, <4>4, <4>5
    <3>2. CASE ~ st.pending
      <4>0. Owes(st) = 1
        BY <2>1, <3>2, OwesValue
      <4>1. Len(presses) = 1 /\ presses \in Seq(BOOLEAN)
        BY <4>0 DEF Tells
      <4>2. presses[Len(presses)] = st.consumed
        BY <4>0, TellsLen
      <4> QED BY <3>2, <4>1, <4>2
    <3> QED BY <3>1, <3>2
  <2> HIDE DEF kept
  <2>4. kept # <<>>
    BY <2>3, EmptyLen
  <2> QED BY <2>1, <2>2, <2>3, <2>4 DEF Explained, StandsFor, Overshadowed
<1>3. ~ Longs(st, t) => su = st
  BY DEF Held
<1> QED BY <1>1, <1>2, <1>3

\* A tap whose gap is over is told.
LEMMA ExpiredTells ==
  ASSUME NEW st \in Pressed, NEW presses, Tells(st, presses), NEW t \in 0 .. MaxTime, Shorts(st, t)
  PROVE  /\ Expired(st, t) \in Pressed
         /\ presses # <<>> /\ Explained(presses, "short", st.consumed)
         /\ Tells(Expired(st, t), Tail(presses))
<1> DEFINE su == Expired(st, t)
<1>1. su \in Pressed
  BY DEF Expired, Pressed
<1>2. /\ ~ su.pending /\ su.consumed = st.consumed /\ st.pending
      /\ su.stable = st.stable /\ su.long_fired = st.long_fired
  BY DEF Expired, Shorts, Pressed
<1> HIDE DEF su
<1>3. Owes(st) >= 1 /\ Owes(su) = Owes(st) - 1
  <2>1. CASE st.stable /\ ~ st.long_fired
    <3>1. Owes(st) = 2
      BY <1>2, <2>1, OwesValue
    <3>2. Owes(su) = 1
      BY <1>1, <1>2, <2>1, OwesValue
    <3> QED BY <3>1, <3>2
  <2>2. CASE ~ (st.stable /\ ~ st.long_fired)
    <3>1. Owes(st) = 1
      BY <1>2, <2>2, OwesValue
    <3>2. Owes(su) = 0
      BY <1>1, <1>2, <2>2, OwesValue
    <3> QED BY <3>1, <3>2
  <2> QED BY <2>1, <2>2
<1>4. presses # <<>>
  BY <1>3, EmptyLen DEF Tells
<1>5. Explained(presses, "short", st.consumed)
  BY <1>4 DEF Explained, StandsFor, Overshadowed, Tells
<1>6. Tells(su, Tail(presses))
  BY <1>1, <1>2, <1>3, TailTells
<1> QED BY <1>1, <1>4, <1>5, <1>6 DEF su

\* The presses in s are accounted for.
Accounted(s) ==
  /\ s \in Polls
  /\ \A b \in Button : Tells(s.button[b], s.open[b])
  /\ "press" \notin s.wrong

LEMMA EmitFields ==
  ASSUME NEW s \in Polls, NEW b \in Button, NEW type \in {"short", "long", "double"},
         s.queued < QueueLen, Explained(s.open[b], type, s.button[b].consumed)
  PROVE  LET told == Emit(s, b, type)
             rest == IF type = "short" THEN Tail(s.open[b]) ELSE <<>>
         IN  /\ told \in Polls
             /\ told.button = s.button /\ told.combo = s.combo /\ told.shorts = s.shorts
             /\ told.wrong = s.wrong /\ told.queued = s.queued + 1
             /\ told.open = [s.open EXCEPT ![b] = rest]
<1> DEFINE told == Emit(s, b, type)
           rest == IF type = "short" THEN Tail(s.open[b]) ELSE <<>>
<1>1. s.open[b] # <<>> /\ s.open[b] \in Seq(BOOLEAN)
  BY DEF Explained, Polls
<1>2. told = [s EXCEPT !.queued = @ + 1, !.open[b] = rest, !.wrong = @]
  <2>1. ~ s.queued >= QueueLen
    BY InputAssumption DEF Polls
  <2> QED BY <1>1, <2>1 DEF Emit
<1>3. rest \in Seq(BOOLEAN)
  BY <1>1, HeadTailProperties, EmptySeq
<1> HIDE DEF told, rest
<1>4. /\ told.button = s.button /\ told.combo = s.combo /\ told.shorts = s.shorts
      /\ told.wrong = s.wrong /\ told.queued = s.queued + 1
      /\ told.open = [s.open EXCEPT ![b] = rest]
  BY <1>2 DEF Polls
<1>5. told \in Polls
  <2>1. [s.open EXCEPT ![b] = rest] \in [Button -> Seq(BOOLEAN)] /\ s.queued + 1 \in Nat
    BY <1>3 DEF Polls
  <2>2. told = [s EXCEPT !.queued = s.queued + 1, !.open = [s.open EXCEPT ![b] = rest]]
    BY <1>2 DEF Polls
  <2> HIDE DEF rest
  <2> QED BY <2>1, <2>2 DEF Polls
<1> QED BY <1>4, <1>5 DEF told, rest

LEMMA LoseFields ==
  ASSUME NEW s \in Polls, NEW b \in Button, s.open[b] # <<>>
  PROVE  LET lost == Lose(s, b)
         IN  /\ lost \in Polls
             /\ lost.button = s.button /\ lost.combo = s.combo /\ lost.shorts = s.shorts
             /\ lost.wrong = s.wrong /\ lost.queued = s.queued
             /\ lost.open = [s.open EXCEPT ![b] = Tail(s.open[b])]
<1>1. s.open[b] \in Seq(BOOLEAN) /\ Tail(s.open[b]) \in Seq(BOOLEAN)
  BY HeadTailProperties DEF Polls
<1> QED BY <1>1 DEF Lose, Polls

\* What a step about b may do to s.
Changes(s, r, b) ==
  /\ Accounted(r)
  /\ \A a \in Button \ {b} : r.button[a] = s.button[a]
  /\ r.wrong = s.wrong
Silent(s, r, b) == Changes(s, r, b) /\ r.combo = s.combo /\ r.shorts = s.shorts

\* The state of b and its presses are replaced.
Replaces(s, r, b, su, presses) ==
  /\ r.button = [s.button EXCEPT ![b] = su] /\ r.open = [s.open EXCEPT ![b] = presses]
  /\ r.wrong = s.wrong /\ Tells(su, presses)

\* The presses of the other buttons are left alone.
LEMMA OneButton ==
  ASSUME NEW s, Accounted(s), NEW r \in Polls, NEW b \in Button, NEW su \in Pressed, NEW presses,
         Replaces(s, r, b, su, presses)
  PROVE  Changes(s, r, b) /\ r.button[b] = su
<1>1. s.button \in [Button -> Pressed] /\ s.open \in [Button -> Seq(BOOLEAN)]
  BY DEF Accounted, Polls
<1>2. \A a \in Button : r.button[a] = (IF a = b THEN su ELSE s.button[a])
                        /\ r.open[a] = (IF a = b THEN presses ELSE s.open[a])
  BY <1>1 DEF Replaces
<1>3. \A a \in Button : Tells(r.button[a], r.open[a])
  BY <1>2 DEF Accounted, Replaces
<1> QED BY <1>2, <1>3 DEF Accounted, Changes, Replaces

LEMMA SampleAccounts ==
  ASSUME NEW s, Accounted(s), s.queued < QueueLen, NEW b \in Button, NEW raw \in BOOLEAN,
         NEW t \in 0 .. MaxTime
  PROVE  LET r == SampleStep(s, b, raw, t)
         IN  /\ Silent(s, r, b)
             /\ IF Doubles(s.button[b], raw, t)
                THEN r.queued = s.queued + 1 /\ ~ r.button[b].pending /\ ~ r.button[b].stable
                ELSE r.queued = s.queued
<1> DEFINE st == s.button[b]
           su == Sampled(st, raw, t)
           r == SampleStep(s, b, raw, t)
<1>1. st \in Pressed /\ s.open[b] \in Seq(BOOLEAN) /\ Tells(st, s.open[b]) /\ s \in Polls
  BY DEF Accounted, Polls
<1>2. /\ su \in Pressed
      /\ Doubles(st, raw, t) => /\ ~ su.pending /\ ~ su.stable /\ Tells(su, <<>>)
                                /\ Explained(s.open[b], "double", st.consumed)
      /\ Overtakes(st, raw, t) => Tells(su, Tail(s.open[b]))
      /\ Settles(st, raw, t) /\ raw => Tells(su, Append(s.open[b], FALSE))
      /\ ~ Doubles(st, raw, t) /\ ~ Overtakes(st, raw, t) /\ ~ (Settles(st, raw, t) /\ raw)
           => Tells(su, s.open[b])
  BY <1>1, SampledTells
<1>3. CASE Doubles(st, raw, t)
  <2> DEFINE told == Emit(s, b, "double")
  <2>1. /\ told \in Polls
        /\ told.button = s.button /\ told.combo = s.combo /\ told.shorts = s.shorts
        /\ told.wrong = s.wrong /\ told.queued = s.queued + 1
        /\ told.open = [s.open EXCEPT ![b] = <<>>]
    BY <1>1, <1>2, <1>3, EmitFields
  <2>2. ~ GoesDown(s, b, raw, t)
    BY <1>3 DEF Doubles, GoesDown
  <2>3. r = [told EXCEPT !.button[b] = su, !.open[b] = @]
    BY <1>3, <2>2 DEF SampleStep
  <2> HIDE DEF told, r, su
  <2>4. r \in Polls /\ r.button = [s.button EXCEPT ![b] = su] /\ r.open = [s.open EXCEPT ![b] = <<>>]
        /\ r.combo = s.combo /\ r.shorts = s.shorts /\ r.wrong = s.wrong /\ r.queued = s.queued + 1
    BY <1>2, <2>1, <2>3 DEF Polls
  <2>5. Changes(s, r, b) /\ r.button[b] = su
    <3>1. Replaces(s, r, b, su, <<>>)
      BY <1>2, <1>3, <2>4 DEF Replaces
    <3>2. r \in Polls
      BY <2>4
    <3>3. su \in Pressed
      BY <1>2
    <3>4. Accounted(s)
      OBVIOUS
    <3> QED BY <3>1, <3>2, <3>3, <3>4, OneButton
  <2> QED BY <1>2, <1>3, <2>4, <2>5 DEF Silent, su, r
<1>4. CASE ~ Doubles(st, raw, t) /\ Overtakes(st, raw, t)
  <2> DEFINE told == Lose(s, b)
  <2>0. s.open[b] # <<>>
    <3>1. Owes(st) = 2
      BY <1>1, <1>4, OwesValue DEF Overtakes, Settles, Pressed
    <3>2. Len(s.open[b]) = 2
      BY <1>1, <3>1 DEF Tells
    <3>3. Len(s.open[b]) # 0
      BY <3>2
    <3> QED BY <1>1, <3>3, EmptyLen
  <2>1. /\ told \in Polls
        /\ told.button = s.button /\ told.combo = s.combo /\ told.shorts = s.shorts
        /\ told.wrong = s.wrong /\ told.queued = s.queued
        /\ told.open = [s.open EXCEPT ![b] = Tail(s.open[b])]
    BY <1>1, <2>0, LoseFields
  <2>2. ~ GoesDown(s, b, raw, t)
    BY <1>4 DEF Overtakes, GoesDown
  <2>3. r = [told EXCEPT !.button[b] = su, !.open[b] = @]
    BY <1>4, <2>2 DEF SampleStep
  <2> HIDE DEF told, r, su
  <2>4. r \in Polls /\ r.button = [s.button EXCEPT ![b] = su]
        /\ r.open = [s.open EXCEPT ![b] = Tail(s.open[b])]
        /\ r.combo = s.combo /\ r.shorts = s.shorts /\ r.wrong = s.wrong /\ r.queued = s.queued
    BY <1>2, <2>1, <2>3 DEF Polls
  <2>5. Changes(s, r, b) /\ r.button[b] = su
    <3>1. Replaces(s, r, b, su, Tail(s.open[b]))
      BY <1>2, <1>4, <2>4 DEF Replaces
    <3>2. r \in Polls
      BY <2>4
    <3>3. su \in Pressed
      BY <1>2
    <3>4. Accounted(s)
      OBVIOUS
    <3> QED BY <3>1, <3>2, <3>3, <3>4, OneButton
  <2> QED BY <1>4, <2>4, <2>5 DEF Silent, r
<1>5. CASE ~ Doubles(st, raw, t) /\ ~ Overtakes(st, raw, t)
  <2> DEFINE presses == IF GoesDown(s, b, raw, t) THEN Append(s.open[b], FALSE) ELSE s.open[b]
  <2>1. r = [s EXCEPT !.button[b] = su, !.open[b] = presses]
    BY <1>5 DEF SampleStep
  <2>2. Tells(su, presses)
    BY <1>2, <1>5 DEF GoesDown
  <2>3. presses \in Seq(BOOLEAN)
    BY <2>2 DEF Tells
  <2> HIDE DEF presses, r, su
  <2>4. r \in Polls /\ r.button = [s.button EXCEPT ![b] = su] /\ r.open = [s.open EXCEPT ![b] = presses]
        /\ r.combo = s.combo /\ r.shorts = s.shorts /\ r.wrong = s.wrong /\ r.queued = s.queued
    BY <1>1, <1>2, <2>1, <2>3 DEF Polls
  <2>5. Changes(s, r, b) /\ r.button[b] = su
    <3>1. Replaces(s, r, b, su, presses)
      BY <1>2, <2>2, <2>4 DEF Replaces
    <3>2. r \in Polls
      BY <2>4
    <3>3. su \in Pressed
      BY <1>2
    <3>4. Accounted(s)
      OBVIOUS
    <3> QED BY <3>1, <3>2, <3>3, <3>4, OneButton
  <2> QED BY <1>5, <2>4, <2>5 DEF Silent, r
<1> QED BY <1>3, <1>4, <1>5

LEMMA LongAccounts ==
  ASSUME NEW s, Accounted(s), NEW b \in Button, NEW t \in 0 .. MaxTime,
         Longs(s.button[b], t) => s.queued < QueueLen
  PROVE  LET r == LongStep(s, b, t)
         IN  /\ Silent(s, r, b)
             /\ IF Longs(s.button[b], t)
                THEN r.queued = s.queued + 1 /\ ~ r.button[b].pending /\ s.button[b].stable
                ELSE r.queued = s.queued /\ r.button[b] = s.button[b]
<1> DEFINE st == s.button[b]
           su == Held(st, t)
           r == LongStep(s, b, t)
           kept == IF st.pending THEN Lose(s, b) ELSE s
           left == IF st.pending THEN Tail(s.open[b]) ELSE s.open[b]
<1>1. st \in Pressed /\ s.open[b] \in Seq(BOOLEAN) /\ Tells(st, s.open[b]) /\ s \in Polls
  BY DEF Accounted, Polls
<1>2. /\ su \in Pressed
      /\ Longs(st, t) => /\ st.stable /\ ~ su.pending /\ Tells(su, <<>>)
                         /\ Explained(left, "long", st.consumed)
      /\ ~ Longs(st, t) => su = st
  BY <1>1, HeldTells
<1>3. CASE Longs(st, t)
  <2>1. /\ kept \in Polls
        /\ kept.button = s.button /\ kept.combo = s.combo /\ kept.shorts = s.shorts
        /\ kept.wrong = s.wrong /\ kept.queued = s.queued
        /\ kept.open = [s.open EXCEPT ![b] = left]
    <3>1. CASE st.pending
      <4>1. Owes(st) = 2
        BY <1>1, <1>3, <3>1, OwesValue DEF Longs
      <4>2. s.open[b] # <<>>
        BY <1>1, <4>1, EmptyLen DEF Tells
      <4> QED BY <1>1, <3>1, <4>2, LoseFields
    <3>2. CASE ~ st.pending
      <4>1. [s.open EXCEPT ![b] = s.open[b]] = s.open
        BY <1>1 DEF Polls
      <4> QED BY <1>1, <3>2, <4>1
    <3> QED BY <3>1, <3>2
  <2>2. kept.open[b] = left /\ kept.button[b] = st
    BY <1>1, <2>1 DEF Polls
  <2> DEFINE told == Emit(kept, b, "long")
  <2>3. r = [told EXCEPT !.button[b] = Held(@, t)]
    BY <1>3 DEF LongStep
  <2> HIDE DEF kept, left, r
  <2>4. /\ told \in Polls
        /\ told.button = s.button /\ told.combo = s.combo /\ told.shorts = s.shorts
        /\ told.wrong = s.wrong /\ told.queued = s.queued + 1
        /\ told.open = [kept.open EXCEPT ![b] = <<>>]
    <3>1. kept.queued < QueueLen /\ Explained(kept.open[b], "long", kept.button[b].consumed)
      BY <1>2, <1>3, <2>1, <2>2
    <3>2. kept \in Polls
      BY <2>1
    <3>3. /\ told \in Polls
          /\ told.button = kept.button /\ told.combo = kept.combo /\ told.shorts = kept.shorts
          /\ told.wrong = kept.wrong /\ told.queued = kept.queued + 1
          /\ told.open = [kept.open EXCEPT ![b] = <<>>]
      BY <3>1, <3>2, EmitFields
    <3> HIDE DEF told
    <3> QED BY <2>1, <3>3
  <2>5. told.open = [s.open EXCEPT ![b] = <<>>]
    <3> HIDE DEF told
    <3> QED BY <1>1, <2>1, <2>4 DEF Polls
  <2> HIDE DEF told
  <2>6. r = [told EXCEPT !.button[b] = su]
    BY <1>1, <2>3, <2>4 DEF Polls
  <2> HIDE DEF su
  <2>7. r \in Polls /\ r.button = [s.button EXCEPT ![b] = su] /\ r.open = [s.open EXCEPT ![b] = <<>>]
        /\ r.combo = s.combo /\ r.shorts = s.shorts /\ r.wrong = s.wrong /\ r.queued = s.queued + 1
    BY <1>2, <2>4, <2>5, <2>6 DEF Polls
  <2>8. Changes(s, r, b) /\ r.button[b] = su
    <3>1. Replaces(s, r, b, su, <<>>)
      BY <1>2, <1>3, <2>7 DEF Replaces
    <3>2. r \in Polls
      BY <2>7
    <3>3. su \in Pressed
      BY <1>2
    <3>4. Accounted(s)
      OBVIOUS
    <3> QED BY <3>1, <3>2, <3>3, <3>4, OneButton
  <2> QED BY <1>2, <1>3, <2>7, <2>8 DEF Silent, r
<1>4. CASE ~ Longs(st, t)
  <2>1. r = [s EXCEPT !.button[b] = su] /\ su = st
    BY <1>2, <1>4 DEF LongStep
  <2> HIDE DEF r, su
  <2>2. r = s
    BY <1>1, <2>1 DEF Polls
  <2> QED BY <1>1, <1>4, <2>2 DEF Silent, Changes, r
<1> QED BY <1>3, <1>4

-----------------------------------------------------------------------------
(* The matcher and the latest short presses                                *)

\* The presses of a run in the order they were told, by the time t.
Timed(run, t) ==
  /\ \A i, j \in 1 .. Len(run) : i <= j => run[i].at <= run[j].at
  /\ \A i \in 1 .. Len(run) : run[i].at <= t

LEMMA TapTimes ==
  ASSUME NEW run \in Seq(Tap), NEW i \in 1 .. Len(run)
  PROVE  run[i].at \in Nat
<1>1. run[i] \in Tap
  BY ElementOfSeq
<1>2. MaxTime \in Nat
  BY InputAssumption
<1> QED BY <1>1, <1>2 DEF Tap

LEMMA TimedLater ==
  ASSUME NEW run \in Seq(Tap), NEW t \in Nat, NEW u \in Nat, t <= u, Timed(run, t)
  PROVE  Timed(run, u)
<1>1. \A i \in 1 .. Len(run) : run[i].at \in Nat
  BY TapTimes
<1> QED BY <1>1 DEF Timed

\* One more short press.
LEMMA TapAdded ==
  ASSUME NEW run \in Seq(Tap), NEW b \in Button, NEW t \in 0 .. MaxTime, Timed(run, t)
  PROVE  LET longer == Append(run, [button |-> b, at |-> t])
         IN  /\ longer \in Seq(Tap) /\ Len(longer) = Len(run) + 1
             /\ longer[Len(run) + 1] = [button |-> b, at |-> t]
             /\ \A i \in 1 .. Len(run) : longer[i] = run[i]
             /\ Timed(longer, t)
<1> DEFINE tap == [button |-> b, at |-> t]
           longer == Append(run, tap)
<1>0. tap \in Tap /\ tap.at = t /\ t \in Nat /\ Len(run) \in Nat
  BY InputAssumption DEF Tap
<1> HIDE DEF tap
<1>1. /\ longer \in Seq(Tap) /\ Len(longer) = Len(run) + 1
      /\ longer[Len(run) + 1] = tap
      /\ \A i \in 1 .. Len(run) : longer[i] = run[i]
  BY <1>0, AppendProperties
<1>2. \A i \in 1 .. Len(run) : run[i].at \in Nat
  BY TapTimes
<1> HIDE DEF longer
<1>3. \A i \in 1 .. Len(longer) : longer[i].at <= t
  <2> TAKE i \in 1 .. Len(longer)
  <2>1. CASE i = Len(run) + 1
    BY <1>0, <1>1, <2>1
  <2>2. CASE i # Len(run) + 1
    <3>1. i \in 1 .. Len(run)
      BY <1>0, <1>1, <2>2
    <3> QED BY <1>1, <3>1 DEF Timed
  <2> QED BY <2>1, <2>2
<1>4. ASSUME NEW i \in 1 .. Len(longer), NEW j \in 1 .. Len(longer), i <= j
      PROVE  longer[i].at <= longer[j].at
  <2>1. CASE j = Len(run) + 1
    BY <1>0, <1>1, <1>3, <2>1
  <2>2. CASE j # Len(run) + 1
    <3>1. i \in 1 .. Len(run) /\ j \in 1 .. Len(run)
      BY <1>0, <1>1, <1>4, <2>2
    <3> QED BY <1>1, <1>4, <3>1 DEF Timed
  <2> QED BY <2>1, <2>2
<1>5. Timed(longer, t)
  BY <1>3, <1>4 DEF Timed
<1> QED BY <1>1, <1>5 DEF longer, tap

\* It follows k buttons when the run before it followed one button less, it is
\* the k-th, and the first of them is not out of the window.
LEMMA FollowsAdded ==
  ASSUME NEW run \in Seq(Tap), NEW b \in Button, NEW t \in 0 .. MaxTime, Timed(run, t),
         NEW def \in Definition, NEW k \in 1 .. Len(def.buttons)
  PROVE  Follows(Append(run, [button |-> b, at |-> t]), def, k)
         <=> /\ Follows(run, def, k - 1) /\ b = def.buttons[k]
             /\ k > 1 => t - run[Len(run) - k + 2].at < def.window
<1> DEFINE longer == Append(run, [button |-> b, at |-> t])
           m == Len(run)
<1>1. /\ longer \in Seq(Tap) /\ Len(longer) = m + 1
      /\ longer[m + 1] = [button |-> b, at |-> t]
      /\ \A i \in 1 .. m : longer[i] = run[i]
  BY TapAdded
<1> HIDE DEF longer
<1>2. m \in Nat /\ k \in Nat /\ k >= 1 /\ t \in Nat /\ def.window \in Nat
  BY InputAssumption DEF Definition
<1>3. longer[m + 1].button = b /\ longer[m + 1].at = t
  BY <1>1
<1>4. \A i \in 1 .. m : run[i].at \in Nat
  BY TapTimes
<1>5. ASSUME Follows(longer, def, k)
      PROVE  /\ Follows(run, def, k - 1) /\ b = def.buttons[k]
             /\ k > 1 => t - run[m - k + 2].at < def.window
  <2>1. /\ k <= m + 1 /\ \A j \in 1 .. k : longer[m + 1 - k + j].button = def.buttons[j]
        /\ k > 1 => longer[m + 1].at - longer[m + 1 - k + 1].at < def.window
    BY <1>1, <1>5 DEF Follows
  <2>2. b = def.buttons[k]
    <3>1. k \in 1 .. k /\ m + 1 - k + k = m + 1
      BY <1>2
    <3>2. longer[m + 1 - k + k].button = def.buttons[k]
      BY <2>1, <3>1
    <3> QED BY <1>3, <3>1, <3>2
  <2>3. k > 1 => t - run[m - k + 2].at < def.window
    <3> HAVE k > 1
    <3>1. m + 1 - k + 1 = m - k + 2 /\ m - k + 2 \in 1 .. m
      BY <1>2, <2>1
    <3> QED BY <1>1, <1>3, <2>1, <3>1
  <2>4. \A j \in 1 .. k - 1 : run[m - (k - 1) + j].button = def.buttons[j]
    <3> TAKE j \in 1 .. k - 1
    <3>1. m + 1 - k + j = m - (k - 1) + j /\ m + 1 - k + j \in 1 .. m /\ j \in 1 .. k
      BY <1>2, <2>1
    <3> QED BY <1>1, <2>1, <3>1
  <2>5. k - 1 > 1 => run[m].at - run[m - (k - 1) + 1].at < def.window
    <3> HAVE k - 1 > 1
    <3>1. m - (k - 1) + 1 = m - k + 2 /\ m - k + 2 \in 1 .. m /\ m \in 1 .. m
      BY <1>2, <2>1
    <3>2. run[m].at <= t
      BY <3>1 DEF Timed
    <3>3. run[m].at \in Nat /\ run[m - k + 2].at \in Nat
      BY <1>4, <3>1
    <3>4. t - run[m - k + 2].at < def.window
      BY <1>2, <2>3
    <3>5. run[m].at - run[m - k + 2].at < def.window
      BY <1>2, <3>2, <3>3, <3>4
    <3> QED BY <3>1, <3>5
  <2> QED BY <1>2, <2>1, <2>2, <2>3, <2>4, <2>5 DEF Follows
<1>6. ASSUME Follows(run, def, k - 1), b = def.buttons[k],
             k > 1 => t - run[m - k + 2].at < def.window
      PROVE  Follows(longer, def, k)
  <2>1. k - 1 <= m /\ \A j \in 1 .. k - 1 : run[m - (k - 1) + j].button = def.buttons[j]
    BY <1>6 DEF Follows
  <2>2. \A j \in 1 .. k : longer[m + 1 - k + j].button = def.buttons[j]
    <3> TAKE j \in 1 .. k
    <3>1. CASE j = k
      <4>1. m + 1 - k + j = m + 1
        BY <1>2, <3>1
      <4> QED BY <1>3, <1>6, <3>1, <4>1
    <3>2. CASE j # k
      <4>1. m + 1 - k + j = m - (k - 1) + j /\ m + 1 - k + j \in 1 .. m /\ j \in 1 .. k - 1
        BY <1>2, <2>1, <3>2
      <4> QED BY <1>1, <2>1, <4>1
    <3> QED BY <3>1, <3>2
  <2>3. k > 1 => longer[m + 1].at - longer[m + 1 - k + 1].at < def.window
    <3> HAVE k > 1
    <3>1. m + 1 - k + 1 = m - k + 2 /\ m - k + 2 \in 1 .. m
      BY <1>2, <2>1
    <3> QED BY <1>1, <1>3, <1>6, <3>1
  <2> QED BY <1>1, <1>2, <2>1, <2>2, <2>3 DEF Follows
<1> QED BY <1>5, <1>6 DEF longer

\* Only the latest presses, as many as the sequence has, can follow it.
LEMMA RecentFollows ==
  ASSUME NEW run \in Seq(Tap), NEW b \in Button, NEW t \in 0 .. MaxTime, Timed(run, t),
         NEW def \in Definition, Len(run) <= Len(def.buttons)
  PROVE  LET recent == Recent(run, def, b, t)
             longer == Append(run, [button |-> b, at |-> t])
         IN  /\ recent \in Seq(Tap) /\ Timed(recent, t) /\ Len(recent) <= Len(def.buttons)
             /\ \A k \in 0 .. Len(def.buttons) : Follows(recent, def, k) <=> Follows(longer, def, k)
             /\ \A k \in 1 .. Len(def.buttons) : k <= Len(longer) =>
                  k <= Len(recent) /\ recent[Len(recent) - k + 1] = longer[Len(longer) - k + 1]
<1> DEFINE recent == Recent(run, def, b, t)
           longer == Append(run, [button |-> b, at |-> t])
           n == Len(def.buttons)
<1>1. /\ longer \in Seq(Tap) /\ Len(longer) = Len(run) + 1 /\ Timed(longer, t)
  BY TapAdded
<1>2. n \in Nat /\ Len(run) \in Nat
  BY DEF Definition
<1>3. recent = IF Len(longer) > n THEN Tail(longer) ELSE longer
  BY DEF Recent
<1> HIDE DEF recent, longer
<1>4. CASE ~ Len(longer) > n
  BY <1>1, <1>2, <1>3, <1>4 DEF recent, longer
<1>5. CASE Len(longer) > n
  <2>0. longer # <<>>
    BY <1>1, <1>2, EmptySeq
  <2>1. /\ recent \in Seq(Tap) /\ Len(recent) = Len(longer) - 1
        /\ \A i \in 1 .. Len(recent) : recent[i] = longer[i + 1]
    BY <1>1, <1>3, <1>5, <2>0, HeadTailProperties
  <2>2. Len(longer) = n + 1 /\ Len(recent) = n
    BY <1>1, <1>2, <1>5, <2>1
  <2>3. Timed(recent, t)
    <3>1. \A i \in 1 .. Len(recent) : i + 1 \in 1 .. Len(longer)
      BY <1>2, <2>2
    <3>2. \A i, j \in 1 .. Len(recent) : i <= j => recent[i].at <= recent[j].at
      <4> TAKE i, j \in 1 .. Len(recent)
      <4> HAVE i <= j
      <4>1. i + 1 \in 1 .. Len(longer) /\ j + 1 \in 1 .. Len(longer) /\ i + 1 <= j + 1
        BY <3>1
      <4>2. longer[i + 1].at <= longer[j + 1].at
        BY <1>1, <4>1 DEF Timed
      <4> QED BY <2>1, <4>2
    <3>3. \A i \in 1 .. Len(recent) : recent[i].at <= t
      BY <1>1, <2>1, <3>1 DEF Timed
    <3> QED BY <3>2, <3>3 DEF Timed
  <2>4. ASSUME NEW k \in 0 .. n PROVE Follows(recent, def, k) <=> Follows(longer, def, k)
    <3>1. \A j \in 1 .. k : recent[n - k + j] = longer[n + 1 - k + j]
      <4> TAKE j \in 1 .. k
      <4>1. n - k + j \in 1 .. Len(recent) /\ (n - k + j) + 1 = n + 1 - k + j
        BY <1>2, <2>2
      <4> QED BY <2>1, <4>1
    <3>2. k > 1 => recent[n] = longer[n + 1] /\ recent[n - k + 1] = longer[n + 1 - k + 1]
      <4> HAVE k > 1
      <4>1. n \in 1 .. Len(recent) /\ n - k + 1 \in 1 .. Len(recent)
            /\ (n - k + 1) + 1 = n + 1 - k + 1
        BY <1>2, <2>2
      <4>2. recent[n] = longer[n + 1] /\ recent[n - k + 1] = longer[(n - k + 1) + 1]
        BY <2>1, <4>1
      <4> QED BY <4>1, <4>2
    <3>3. k <= n /\ k <= n + 1
      BY <1>2
    <3>4. Follows(recent, def, k) <=>
            /\ \A j \in 1 .. k : recent[n - k + j].button = def.buttons[j]
            /\ k > 1 => recent[n].at - recent[n - k + 1].at < def.window
      BY <2>2, <3>3 DEF Follows
    <3>5. Follows(longer, def, k) <=>
            /\ \A j \in 1 .. k : longer[n + 1 - k + j].button = def.buttons[j]
            /\ k > 1 => longer[n + 1].at - longer[n + 1 - k + 1].at < def.window
      BY <2>2, <3>3 DEF Follows
    <3> QED BY <3>1, <3>2, <3>4, <3>5
  <2>5. ASSUME NEW k \in 1 .. n
        PROVE  k <= Len(recent) /\ recent[Len(recent) - k + 1] = longer[Len(longer) - k + 1]
    <3>1. n - k + 1 \in 1 .. Len(recent) /\ (n - k + 1) + 1 = n + 1 - k + 1
      BY <1>2, <2>2
    <3> QED BY <2>1, <2>2, <3>1
  <2>6. Len(recent) <= n
    BY <1>2, <2>2
  <2> QED BY <2>1, <2>3, <2>4, <2>5, <2>6 DEF recent, longer
<1> QED BY <1>4, <1>5

\* A run that follows p buttons and fewer, but not none, goes through the first
\* button twice.
LEMMA FollowsOnce ==
  ASSUME NEW run \in Seq(Tap), NEW def \in Definition, ~ Recurs(def),
         NEW p \in 1 .. Len(def.buttons), NEW k \in 1 .. p, Follows(run, def, p), Follows(run, def, k)
  PROVE  k = p
<1> SUFFICES ASSUME k # p PROVE FALSE
  OBVIOUS
<1> DEFINE m == Len(run)
           j == p - k + 1
<1>1. m \in Nat /\ Len(def.buttons) \in Nat
  BY DEF Definition
<1>2. j \in 2 .. Len(def.buttons) /\ j \in 1 .. p /\ 1 \in 1 .. k /\ m - p + j = m - k + 1
  BY <1>1
<1>3. run[m - p + j].button = def.buttons[j] /\ run[m - k + 1].button = def.buttons[1]
  BY <1>2 DEF Follows
<1>4. def.buttons[j] = def.buttons[1]
  BY <1>2, <1>3
<1> QED BY <1>2, <1>4 DEF Recurs

\* A sequence is where its run says.
Tracks(cs, run, def, t) ==
  /\ Len(run) <= Len(def.buttons) /\ Timed(run, t)
  /\ cs.progress < Len(def.buttons)
  /\ Follows(run, def, cs.progress)
  /\ cs.progress > 0 => cs.start = run[Len(run) - cs.progress + 1].at
  /\ ~ Recurs(def) => \A k \in cs.progress + 1 .. Len(def.buttons) : ~ Follows(run, def, k)

LEMMA NothingFollows ==
  ASSUME NEW def, NEW t, NEW cs, cs.progress = 0, Len(def.buttons) \in Nat \ {0}
  PROVE  Tracks(cs, <<>>, def, t)
<1>1. Len(<<>>) = 0 /\ 1 .. 0 = {}
  BY EmptySeq
<1>2. Timed(<<>>, t)
  BY <1>1 DEF Timed
<1>3. Follows(<<>>, def, 0)
  BY <1>1 DEF Follows
<1>4. \A k \in 1 .. Len(def.buttons) : ~ Follows(<<>>, def, k)
  BY <1>1 DEF Follows
<1> QED BY <1>1, <1>2, <1>3, <1>4 DEF Tracks

LEMMA MatchedTracks ==
  ASSUME NEW cs \in Matching, NEW run \in Seq(Tap), NEW def \in Definition, def.type = "sequence",
         NEW b \in Button, NEW t \in 0 .. MaxTime, Tracks(cs, run, def, t)
  PROVE  LET ms == Matched(cs, def, b, t)
             recent == Recent(run, def, b, t)
         IN  /\ ms \in Matching
             /\ Completes(cs, def, b, t) => /\ Follows(recent, def, Len(def.buttons))
                                            /\ b = def.buttons[Len(def.buttons)]
                                            /\ Tracks(ms, <<>>, def, t)
             /\ ~ Completes(cs, def, b, t) => Tracks(ms, recent, def, t)
<1> DEFINE ms == Matched(cs, def, b, t)
           recent == Recent(run, def, b, t)
           longer == Append(run, [button |-> b, at |-> t])
           n == Len(def.buttons)
           m == Len(run)
           p == cs.progress
           q == Timely(cs, def, t)
<1>1. p \in Nat /\ n \in Nat /\ m \in Nat /\ t \in Nat /\ cs.start \in Nat /\ def.window \in Nat /\ p < n
  BY InputAssumption DEF Matching, Definition, Tracks
<1>2. m <= n /\ Timed(run, t) /\ Follows(run, def, p)
  BY DEF Tracks
<1>3. /\ q = p \/ q = 0
      /\ q > 0 => t - cs.start < def.window
      /\ q = 0 /\ p > 0 => t - cs.start >= def.window
  BY <1>1 DEF Timely
<1>4. ASSUME NEW k \in 1 .. n
      PROVE  Follows(longer, def, k)
             <=> /\ Follows(run, def, k - 1) /\ b = def.buttons[k]
                 /\ k > 1 => t - run[m - k + 2].at < def.window
  BY <1>2, FollowsAdded
<1>5. /\ recent \in Seq(Tap) /\ Timed(recent, t) /\ Len(recent) <= n
      /\ \A k \in 0 .. n : Follows(recent, def, k) <=> Follows(longer, def, k)
      /\ \A k \in 1 .. n : k <= Len(longer) =>
           k <= Len(recent) /\ recent[Len(recent) - k + 1] = longer[Len(longer) - k + 1]
  BY <1>2, RecentFollows
<1>6. /\ Len(longer) = m + 1 /\ longer[m + 1] = [button |-> b, at |-> t]
      /\ \A i \in 1 .. m : longer[i] = run[i]
  BY <1>2, TapAdded
<1>7. p > 0 => cs.start = run[m - p + 1].at
  BY DEF Tracks
<1>8. Follows(run, def, 0) /\ 0 <= m
  BY <1>1 DEF Follows
<1> HIDE DEF recent, longer, q
<1>9. ASSUME def.buttons[q + 1] = b PROVE Follows(longer, def, q + 1)
  <2>1. CASE q = 0
    <3>1. 1 \in 1 .. n /\ 1 - 1 = 0 /\ ~ 1 > 1 /\ q + 1 = 1
      BY <1>1, <2>1
    <3>2. Follows(longer, def, 1)
      BY <1>4, <1>8, <1>9, <3>1
    <3> QED BY <3>1, <3>2
  <2>2. CASE q # 0
    <3>1. q = p /\ q > 0 /\ p + 1 \in 1 .. n /\ p + 1 - 1 = p /\ m - (p + 1) + 2 = m - p + 1
      BY <1>1, <1>3, <2>2
    <3>2. t - run[m - (p + 1) + 2].at < def.window
      BY <1>3, <1>7, <3>1
    <3>3. ASSUME NEW k \in 1 .. n, k = p + 1 PROVE Follows(longer, def, k)
      <4>1. k - 1 = p /\ b = def.buttons[k] /\ t - run[m - k + 2].at < def.window
        <5>1. k = q + 1 /\ k = p + 1
          BY <3>1, <3>3
        <5>2. b = def.buttons[k]
          BY <1>9, <5>1
        <5>3. t - run[m - k + 2].at < def.window
          BY <3>2, <5>1
        <5>4. k - 1 = p
          BY <1>1, <5>1
        <5> QED BY <5>2, <5>3, <5>4
      <4>2. Follows(run, def, k - 1)
        BY <1>2, <4>1
      <4> QED BY <1>4, <4>1, <4>2
    <3> QED BY <3>1, <3>3
  <2> QED BY <2>1, <2>2
\* Nothing longer than the matcher has: the start would be out of the window, or
\* the first button would come back.
<1>10. ASSUME ~ Recurs(def), NEW k \in 2 .. n, k # q + 1 PROVE ~ Follows(longer, def, k)
  <2> SUFFICES ASSUME Follows(longer, def, k) PROVE FALSE
    OBVIOUS
  <2>1. k \in 1 .. n /\ k > 1 /\ k - 1 \in 1 .. n
    BY <1>1
  <2>2. Follows(run, def, k - 1) /\ t - run[m - k + 2].at < def.window
    BY <1>4, <2>1
  <2>3. CASE k - 1 > p
    <3>1. k - 1 \in p + 1 .. n
      BY <1>1, <2>1, <2>3
    <3> QED BY <1>10, <2>2, <3>1 DEF Tracks
  <2>4. CASE k - 1 = p
    <3>0. k = p + 1 /\ p > 0 /\ m - k + 2 = m - p + 1
      BY <1>1, <2>1, <2>4
    <3>1. q = 0
      BY <1>3, <1>10, <3>0
    <3>2. t - run[m - p + 1].at < def.window
      BY <2>2, <3>0
    <3>3. t - cs.start < def.window /\ t - cs.start >= def.window
      BY <1>3, <1>7, <3>0, <3>1, <3>2
    <3> QED BY <1>1, <3>3
  <2>5. CASE k - 1 < p
    <3>1. p \in 1 .. n /\ k - 1 \in 1 .. p
      BY <1>1, <2>1, <2>5
    <3>2. k - 1 = p
      BY <1>2, <1>10, <2>2, <3>1, FollowsOnce
    <3> QED BY <1>1, <2>5, <3>2
  <2> QED BY <1>1, <2>1, <2>3, <2>4, <2>5
<1>11. q \in Nat /\ q < n /\ q + 1 \in 1 .. n
  BY <1>1, <1>3
<1>12. Completes(cs, def, b, t) <=> def.buttons[q + 1] = b /\ q + 1 >= n
  BY DEF Completes, q
<1>13. ms \in Matching
  <2>1. q + 1 \in Nat
    BY <1>11
  <2> QED BY <1>12, <2>1 DEF Matched, Matching, q
<1>14. ASSUME Completes(cs, def, b, t)
       PROVE  Follows(recent, def, n) /\ b = def.buttons[n] /\ Tracks(ms, <<>>, def, t)
  <2>1. q + 1 = n /\ def.buttons[q + 1] = b
    BY <1>11, <1>12, <1>14, <1>1
  <2>2. Follows(recent, def, n)
    BY <1>1, <1>5, <1>9, <2>1
  <2>3. ms.progress = 0
    BY <1>14 DEF Matched, Matching
  <2>4. n \in Nat \ {0}
    BY <1>1
  <2> QED BY <2>1, <2>2, <2>3, <2>4, NothingFollows
<1>15. ASSUME ~ Completes(cs, def, b, t) PROVE Tracks(ms, recent, def, t)
  <2>1. CASE def.buttons[q + 1] = b
    <3>1. q + 1 < n
      BY <1>11, <1>12, <1>15, <2>1, <1>1
    <3>2. ms.progress = q + 1 /\ ms.start = IF q = 0 THEN t ELSE cs.start
      BY <1>15, <2>1 DEF Matched, Matching, q
    <3>3. Follows(recent, def, q + 1)
      BY <1>5, <1>9, <1>11, <2>1
    <3>4. ms.start = recent[Len(recent) - (q + 1) + 1].at
      <4>1. q + 1 <= m + 1
        BY <1>6, <1>9, <2>1 DEF Follows
      <4>2. recent[Len(recent) - (q + 1) + 1] = longer[m + 1 - (q + 1) + 1]
        <5>1. q + 1 \in 1 .. n /\ q + 1 <= Len(longer)
          BY <1>6, <1>11, <4>1
        <5>2. \A k \in 1 .. n : k <= Len(longer) =>
                recent[Len(recent) - k + 1] = longer[Len(longer) - k + 1]
          BY <1>5
        <5>3. recent[Len(recent) - (q + 1) + 1] = longer[Len(longer) - (q + 1) + 1]
          BY <5>1, <5>2
        <5>4. Len(longer) = m + 1 /\ m \in Nat /\ q \in Nat
          BY <1>1, <1>6, <1>11
        <5> QED BY <5>3, <5>4
      <4>3. CASE q = 0
        <5>1. m + 1 - (q + 1) + 1 = m + 1
          BY <1>1, <4>3
        <5>2. longer[m + 1].at = t
          BY <1>6
        <5> QED BY <3>2, <4>2, <4>3, <5>1, <5>2
      <4>4. CASE q # 0
        <5>1. q = p /\ p > 0 /\ m + 1 - (q + 1) + 1 = m - p + 1
          BY <1>1, <1>3, <4>4
        <5>2. m - p + 1 \in 1 .. m
          BY <1>1, <4>1, <5>1
        <5>3. longer[m - p + 1].at = cs.start
          BY <1>6, <1>7, <5>1, <5>2
        <5> QED BY <3>2, <4>2, <4>4, <5>1, <5>3
      <4> QED BY <4>3, <4>4
    <3>5. ~ Recurs(def) => \A k \in q + 2 .. n : ~ Follows(recent, def, k)
      <4> HAVE ~ Recurs(def)
      <4> TAKE k \in q + 2 .. n
      <4>1. k \in 2 .. n /\ k # q + 1 /\ k \in 0 .. n
        BY <1>1, <1>11
      <4> QED BY <1>5, <1>10, <4>1
    <3>6. (q + 1) + 1 = q + 2
      BY <1>11
    <3> HIDE DEF ms
    <3> QED BY <1>5, <3>1, <3>2, <3>3, <3>4, <3>5, <3>6 DEF Tracks
  <2>2. CASE def.buttons[q + 1] # b /\ def.buttons[1] = b
    <3>1. q = p /\ p > 0 /\ 1 < n
      <4>1. q # 0
        BY <2>2
      <4> QED BY <1>1, <1>3, <1>11, <4>1
    <3>2. ms.progress = 1 /\ ms.start = t
      BY <1>15, <2>2 DEF Matched, Matching, q
    <3>3. Follows(recent, def, 1)
      <4>1. 1 \in 1 .. n /\ 1 - 1 = 0 /\ ~ 1 > 1 /\ 1 \in 0 .. n
        BY <1>1
      <4>2. Follows(longer, def, 1)
        BY <1>4, <1>8, <2>2, <4>1
      <4> QED BY <1>5, <4>1, <4>2
    <3>4. ms.start = recent[Len(recent) - 1 + 1].at
      <4>1. 1 \in 1 .. n /\ 1 <= m + 1 /\ m + 1 - 1 + 1 = m + 1
        BY <1>1
      <4>2. recent[Len(recent) - 1 + 1] = longer[m + 1 - 1 + 1]
        BY <1>5, <1>6, <4>1
      <4>3. longer[m + 1].at = t
        BY <1>6
      <4> QED BY <3>2, <4>1, <4>2, <4>3
    <3>5. ~ Recurs(def) => \A k \in 2 .. n : ~ Follows(recent, def, k)
      <4> HAVE ~ Recurs(def)
      <4> TAKE k \in 2 .. n
      <4>1. k \in 1 .. n /\ k \in 0 .. n
        BY <1>1
      <4>2. def.buttons[k] # b
        BY <2>2 DEF Recurs
      <4> QED BY <1>4, <1>5, <4>1, <4>2
    <3> HIDE DEF ms
    <3> QED BY <1>5, <3>1, <3>2, <3>3, <3>4, <3>5 DEF Tracks
  <2>3. CASE def.buttons[q + 1] # b /\ def.buttons[1] # b
    <3>1. ms.progress = 0
      BY <1>15, <2>3 DEF Matched, Matching, q
    <3>2. Follows(recent, def, 0)
      <4>1. Len(recent) \in Nat
        BY <1>5
      <4> QED BY <4>1 DEF Follows
    <3>3. ~ Recurs(def) => \A k \in 1 .. n : ~ Follows(recent, def, k)
      <4> HAVE ~ Recurs(def)
      <4> TAKE k \in 1 .. n
      <4>1. k \in 0 .. n
        BY <1>1
      <4>2. CASE k = 1 \/ k = q + 1
        BY <1>4, <1>5, <2>3, <4>1, <4>2
      <4>3. CASE k # 1 /\ k # q + 1
        <5>1. k \in 2 .. n
          BY <1>1, <4>3
        <5> QED BY <1>5, <1>10, <4>1, <4>3, <5>1
      <4> QED BY <4>2, <4>3
    <3> HIDE DEF ms
    <3> QED BY <1>1, <1>5, <3>1, <3>2, <3>3 DEF Tracks
  <2> QED BY <2>1, <2>2, <2>3
<1> QED BY <1>13, <1>14, <1>15 DEF recent

\* Every sequence is where its run says.
Tracked(matchers, runs, t) ==
  \A c \in Combo : config.combos[c].type = "sequence" =>
    Tracks(matchers[c], runs[c], config.combos[c], t)

\* The sequences that b ends.
EndedBy(b) ==
  {c \in Combo : /\ config.combos[c].type = "sequence"
                 /\ config.combos[c].buttons[Len(config.combos[c].buttons)] = b}

\* An engine in a poll that has told everything rightly.
Sound(s, t) == Accounted(s) /\ Tracked(s.combo, s.shorts, t) /\ s.wrong = {}

LEMMA Configured ==
  ASSUME config \in Configs
  PROVE  /\ \A c \in Combo : config.combos[c] \in Definition
         /\ \A c \in Combo : config.combos[c].type = "sequence" =>
              Len(config.combos[c].buttons) \in Nat \ {0}
<1>1. config \in Configuration
  BY InputAssumption
<1>2. \A c \in Combo : config.combos[c] \in Definition
  BY <1>1 DEF Configuration
<1>3. ASSUME NEW c \in Combo, config.combos[c].type = "sequence"
      PROVE  Len(config.combos[c].buttons) \in Nat \ {0}
  <2>1. config.combos[c].buttons # <<>>
    BY <1>3, InputAssumption
  <2>2. config.combos[c].buttons \in Seq(Button)
    BY <1>2 DEF Definition
  <2> QED BY <2>1, <2>2, EmptySeq
<1> QED BY <1>2, <1>3

LEMMA ShortAccounts ==
  ASSUME config \in Configs, NEW t \in 0 .. MaxTime, NEW s, Sound(s, t), NEW b \in Button,
         Shorts(s.button[b], t) => s.queued < QueueLen
  PROVE  LET r == ShortStep(s, b, t)
         IN  /\ Sound(r, t)
             /\ IF Shorts(s.button[b], t) THEN r.queued <= s.queued + 1 + Cardinality(EndedBy(b))
                ELSE r.queued = s.queued
<1> DEFINE st == s.button[b]
           su == Expired(st, t)
           r == ShortStep(s, b, t)
           told == Emit(s, b, "short")
           done == {c \in Combo : Completes(s.combo[c], config.combos[c], b, t)}
           run == [c \in Combo |-> Recent(s.shorts[c], config.combos[c], b, t)]
           left == Tail(s.open[b])
           matched == [c \in Combo |-> Matched(s.combo[c], config.combos[c], b, t)]
           rest == [c \in Combo |-> IF c \in done THEN <<>> ELSE run[c]]
<1>1. st \in Pressed /\ s.open[b] \in Seq(BOOLEAN) /\ Tells(st, s.open[b]) /\ s \in Polls
      /\ Accounted(s) /\ s.wrong = {}
  BY DEF Sound, Accounted, Polls
<1>2. CASE ~ Shorts(st, t)
  BY <1>2 DEF ShortStep
<1>3. CASE Shorts(st, t)
  <2>1. su \in Pressed /\ Explained(s.open[b], "short", st.consumed) /\ Tells(su, left)
    BY <1>1, <1>3, ExpiredTells
  <2>2. /\ told \in Polls
        /\ told.button = s.button /\ told.combo = s.combo /\ told.shorts = s.shorts
        /\ told.wrong = s.wrong /\ told.queued = s.queued + 1
        /\ told.open = [s.open EXCEPT ![b] = left]
    BY <1>1, <1>3, <2>1, EmitFields
  <2>3. /\ \A c \in Combo : s.combo[c] \in Matching /\ s.shorts[c] \in Seq(Tap)
        /\ \A c \in Combo : config.combos[c] \in Definition
        /\ \A c \in Combo : config.combos[c].type = "sequence" =>
             Tracks(s.combo[c], s.shorts[c], config.combos[c], t)
    BY <1>1, Configured DEF Polls, Sound, Tracked
  <2>4. ASSUME NEW c \in Combo, config.combos[c].type = "sequence"
        PROVE  /\ matched[c] \in Matching /\ run[c] \in Seq(Tap)
               /\ c \in done => /\ Follows(run[c], config.combos[c], Len(config.combos[c].buttons))
                                /\ c \in EndedBy(b)
               /\ Tracks(matched[c], rest[c], config.combos[c], t)
    <3> DEFINE def == config.combos[c]
               ms == Matched(s.combo[c], def, b, t)
               recent == Recent(s.shorts[c], def, b, t)
    <3>1. /\ ms \in Matching
          /\ Completes(s.combo[c], def, b, t) => /\ Follows(recent, def, Len(def.buttons))
                                                 /\ b = def.buttons[Len(def.buttons)]
                                                 /\ Tracks(ms, <<>>, def, t)
          /\ ~ Completes(s.combo[c], def, b, t) => Tracks(ms, recent, def, t)
      BY <2>3, <2>4, MatchedTracks
    <3>2. recent \in Seq(Tap)
      BY <2>3, <2>4, RecentFollows DEF Tracks
    <3>3. matched[c] = ms /\ run[c] = recent
      OBVIOUS
    <3>4. c \in done <=> Completes(s.combo[c], def, b, t)
      OBVIOUS
    <3>5. rest[c] = IF c \in done THEN <<>> ELSE run[c]
      OBVIOUS
    <3> HIDE DEF matched, run, rest, done, ms, recent
    <3>6. c \in done => c \in EndedBy(b)
      BY <2>4, <3>1, <3>4 DEF EndedBy
    <3> QED BY <3>1, <3>2, <3>3, <3>4, <3>5, <3>6
  <2>5. ASSUME NEW c \in Combo, config.combos[c].type # "sequence"
        PROVE  c \notin done /\ matched[c] \in Matching /\ run[c] \in Seq(Tap)
    <3>1. c \notin done /\ matched[c] = s.combo[c]
      BY <2>5 DEF Completes, Matched
    <3>2. [button |-> b, at |-> t] \in Tap
      BY DEF Tap
    <3> DEFINE longer == Append(s.shorts[c], [button |-> b, at |-> t])
    <3>3. longer \in Seq(Tap) /\ Len(longer) = Len(s.shorts[c]) + 1
      BY <2>3, <3>2, AppendProperties
    <3>4. Tail(longer) \in Seq(Tap)
      <4>1. Len(longer) # 0
        BY <2>3, <3>3
      <4> HIDE DEF longer
      <4>2. longer # <<>>
        BY <4>1, EmptySeq
      <4> QED BY <3>3, <4>2, HeadTailProperties
    <3>5. run[c] = IF Len(longer) > Len(config.combos[c].buttons) THEN Tail(longer) ELSE longer
      BY DEF Recent
    <3> HIDE DEF longer, run, matched, done
    <3> QED BY <2>3, <3>1, <3>3, <3>4, <3>5
  <2>6. r = [told EXCEPT
               !.button[b] = Expired(@, t),
               !.combo = [c \in Combo |-> Matched(@[c], config.combos[c], b, t)],
               !.queued = @ + Cardinality(done),
               !.shorts = rest,
               !.wrong = IF \A c \in done :
                              Follows(run[c], config.combos[c], Len(config.combos[c].buttons))
                         THEN @ ELSE @ \cup {"sequence"}]
    BY <1>3 DEF ShortStep
  <2>7. \A c \in done : Follows(run[c], config.combos[c], Len(config.combos[c].buttons))
    <3> TAKE c \in done
    <3>1. c \in Combo
      OBVIOUS
    <3> HIDE DEF done, run, matched
    <3> QED BY <2>4, <2>5, <3>1
  <2>8. done \subseteq EndedBy(b)
    <3>1. done \subseteq Combo
      OBVIOUS
    <3> HIDE DEF done, run, matched
    <3> QED BY <2>4, <2>5, <3>1
  <2>9. IsFiniteSet(EndedBy(b)) /\ Cardinality(done) \in Nat
        /\ Cardinality(done) <= Cardinality(EndedBy(b)) /\ Cardinality(EndedBy(b)) \in Nat
    <3>1. IsFiniteSet(Combo)
      BY FS_Interval, InputAssumption DEF Combo
    <3>2. EndedBy(b) \subseteq Combo
      BY DEF EndedBy
    <3> HIDE DEF done
    <3>3. IsFiniteSet(EndedBy(b))
      BY <3>1, <3>2, FS_Subset
    <3>4. IsFiniteSet(done) /\ Cardinality(done) <= Cardinality(EndedBy(b))
      BY <2>8, <3>3, FS_Subset
    <3> QED BY <3>3, <3>4, FS_CardinalityType
  <2> DEFINE count == Cardinality(done)
  <2>10. r = [told EXCEPT !.button[b] = su, !.combo = matched, !.queued = @ + count, !.shorts = rest]
    <3>1. told.combo = s.combo /\ told.button[b] = st
      BY <2>2
    <3>2. [c \in Combo |-> Matched(told.combo[c], config.combos[c], b, t)] = matched
      BY <3>1
    <3>3. r = [told EXCEPT
               !.button[b] = su,
               !.combo = [c \in Combo |-> Matched(told.combo[c], config.combos[c], b, t)],
               !.queued = @ + count,
               !.shorts = rest,
               !.wrong = IF \A c \in done :
                              Follows(run[c], config.combos[c], Len(config.combos[c].buttons))
                         THEN @ ELSE @ \cup {"sequence"}]
      <4>1. [told EXCEPT !.button[b] = Expired(@, t)] = [told EXCEPT !.button[b] = su]
        BY <3>1, <2>2 DEF Polls
      <4> HIDE DEF done, run, rest
      <4> QED BY <2>2, <2>6, <3>1 DEF Polls
    <3> HIDE DEF r, told, su, matched, done, run, rest
    <3> QED BY <2>2, <2>7, <3>2, <3>3 DEF Polls
  <2>11. matched \in [Combo -> Matching] /\ rest \in [Combo -> Seq(Tap)]
    <3>1. \A c \in Combo : matched[c] \in Matching
      <4> HIDE DEF matched, done, run
      <4> QED BY <2>4, <2>5
    <3>2. \A c \in Combo : rest[c] \in Seq(Tap)
      <4>1. \A c \in Combo : rest[c] = <<>> \/ rest[c] = run[c]
        OBVIOUS
      <4> HIDE DEF matched, done, run, rest
      <4> QED BY <2>4, <2>5, <4>1, EmptySeq
    <3>3. matched = [c \in Combo |-> matched[c]] /\ rest = [c \in Combo |-> rest[c]]
      OBVIOUS
    <3> HIDE DEF matched, rest, done, run
    <3> QED BY <3>1, <3>2, <3>3
  <2> HIDE DEF r, told, su, matched, done, run, rest, left, count
  <2>12. /\ r.button = [s.button EXCEPT ![b] = su] /\ r.open = [s.open EXCEPT ![b] = left]
         /\ r.combo = matched /\ r.shorts = rest /\ r.wrong = s.wrong
         /\ r.queued = s.queued + 1 + count
    BY <2>2, <2>10 DEF Polls
  <2>13. count \in Nat /\ count <= Cardinality(EndedBy(b)) /\ Cardinality(EndedBy(b)) \in Nat
    BY <2>9 DEF count
  <2>14. r \in Polls
    <3> DEFINE buttons == [s.button EXCEPT ![b] = su]
               queued == told.queued + count
    <3>1. r = [told EXCEPT !.button = buttons, !.combo = matched, !.queued = queued, !.shorts = rest]
      BY <2>2, <2>10 DEF Polls
    <3>2. buttons \in [Button -> Pressed] /\ queued \in Nat
      BY <1>1, <2>1, <2>2, <2>13 DEF Polls
    <3> HIDE DEF buttons, queued
    <3> QED BY <2>2, <2>11, <3>1, <3>2 DEF Polls
  <2>15. Changes(s, r, b)
    <3>1. Replaces(s, r, b, su, left)
      BY <2>1, <2>12 DEF Replaces
    <3>2. su \in Pressed
      BY <2>1
    <3>3. Accounted(s)
      BY <1>1
    <3> QED BY <2>14, <3>1, <3>2, <3>3, OneButton
  <2>16. Tracked(r.combo, r.shorts, t)
    BY <2>4, <2>12 DEF Tracked
  <2>17. Sound(r, t)
    BY <1>1, <2>15, <2>16 DEF Sound, Changes
  <2>18. r.queued <= s.queued + 1 + Cardinality(EndedBy(b))
    <3>1. s.queued \in Nat
      BY <1>1 DEF Polls
    <3> QED BY <2>12, <2>13, <3>1
  <2> QED BY <1>3, <2>17, <2>18 DEF r
<1> QED BY <1>2, <1>3

LEMMA EndedFinite ==
  ASSUME NEW b
  PROVE  IsFiniteSet(EndedBy(b)) /\ Cardinality(EndedBy(b)) \in Nat
<1>1. IsFiniteSet(Combo) /\ EndedBy(b) \subseteq Combo
  BY FS_Interval, InputAssumption DEF Combo, EndedBy
<1> QED BY <1>1, FS_Subset, FS_CardinalityType

\* A button adds at most one press event to the queue of a poll, and an event of
\* each sequence that it ends.
LEMMA ButtonAccounts ==
  ASSUME config \in Configs, NEW t \in 0 .. MaxTime, NEW s, Sound(s, t), NEW b \in Button,
         NEW raws \in [Button -> BOOLEAN], s.queued < QueueLen
  PROVE  LET r == ButtonStep(s, b, raws, t)
         IN  /\ Sound(r, t)
             /\ r.queued <= s.queued + 1 + Cardinality(EndedBy(b))
<1> DEFINE x == SampleStep(s, b, raws[b], t)
           y == LongStep(x, b, t)
           r == ShortStep(y, b, t)
<1>1. /\ Silent(s, x, b)
      /\ IF Doubles(s.button[b], raws[b], t)
         THEN x.queued = s.queued + 1 /\ ~ x.button[b].pending /\ ~ x.button[b].stable
         ELSE x.queued = s.queued
  BY SampleAccounts DEF Sound
<1> HIDE DEF x
<1>2. Longs(x.button[b], t) => x.queued = s.queued
  BY <1>1 DEF Longs
<1>3. /\ Silent(x, y, b)
      /\ IF Longs(x.button[b], t)
         THEN y.queued = x.queued + 1 /\ ~ y.button[b].pending /\ x.button[b].stable
         ELSE y.queued = x.queued /\ y.button[b] = x.button[b]
  BY <1>1, <1>2, LongAccounts DEF Silent, Changes
<1> HIDE DEF y
<1>4. Shorts(y.button[b], t) => y.queued = s.queued
  BY <1>1, <1>2, <1>3 DEF Shorts
<1>5. Sound(y, t)
  BY <1>1, <1>3 DEF Sound, Silent, Changes
<1>6. /\ Sound(r, t)
      /\ IF Shorts(y.button[b], t) THEN r.queued <= y.queued + 1 + Cardinality(EndedBy(b))
         ELSE r.queued = y.queued
  BY <1>4, <1>5, ShortAccounts
<1> HIDE DEF r
<1>7. s.queued \in Nat /\ y.queued \in Nat /\ y.queued <= s.queued + 1
  <2>1. s.queued \in Nat
    BY DEF Sound, Accounted, Polls
  <2> QED BY <1>1, <1>2, <1>3, <2>1
<1>8. Cardinality(EndedBy(b)) \in Nat
  BY EndedFinite
<1>9. r.queued <= s.queued + 1 + Cardinality(EndedBy(b))
  BY <1>4, <1>6, <1>7, <1>8
<1> QED BY <1>6, <1>9 DEF ButtonStep, r, x, y

\* The sequences that one of the first n buttons ends.
EndedUpto(n) == UNION {EndedBy(b) : b \in 1 .. n}

LEMMA EndedCount ==
  ASSUME NEW n \in Nat
  PROVE  /\ Cardinality(EndedUpto(n)) \in 0 .. ComboCount
         /\ n > 0 => Cardinality(EndedUpto(n)) =
                     Cardinality(EndedUpto(n - 1)) + Cardinality(EndedBy(n))
<1>1. IsFiniteSet(Combo) /\ Cardinality(Combo) = ComboCount
  BY FS_Interval, InputAssumption DEF Combo
<1>2. ASSUME NEW m \in Nat
      PROVE  IsFiniteSet(EndedUpto(m)) /\ Cardinality(EndedUpto(m)) \in 0 .. ComboCount
  <2>1. EndedUpto(m) \subseteq Combo
    BY DEF EndedUpto, EndedBy
  <2>2. IsFiniteSet(EndedUpto(m)) /\ Cardinality(EndedUpto(m)) <= ComboCount
    BY <1>1, <2>1, FS_Subset
  <2> QED BY <2>2, FS_CardinalityType, InputAssumption
<1>3. ASSUME n > 0
      PROVE  Cardinality(EndedUpto(n)) = Cardinality(EndedUpto(n - 1)) + Cardinality(EndedBy(n))
  <2>1. 1 .. n = (1 .. n - 1) \cup {n}
    BY <1>3
  <2>2. EndedUpto(n) = EndedUpto(n - 1) \cup EndedBy(n)
    BY <2>1 DEF EndedUpto
  <2>3. EndedUpto(n - 1) \cap EndedBy(n) = {}
    BY DEF EndedUpto, EndedBy
  <2>4. EndedBy(n) \subseteq Combo /\ n - 1 \in Nat
    BY <1>3 DEF EndedBy
  <2>5. IsFiniteSet(EndedBy(n)) /\ IsFiniteSet(EndedUpto(n - 1))
    BY <1>1, <1>2, <2>4, FS_Subset
  <2>6. /\ Cardinality(EndedUpto(n - 1)) \in Nat /\ Cardinality(EndedBy(n)) \in Nat
        /\ Cardinality({}) = 0
    BY <2>5, FS_CardinalityType, FS_EmptySet
  <2>7. Cardinality(EndedUpto(n - 1) \cup EndedBy(n)) =
          Cardinality(EndedUpto(n - 1)) + Cardinality(EndedBy(n)) - 0
    BY <2>3, <2>5, <2>6, FS_Union
  <2> QED BY <2>2, <2>6, <2>7
<1> QED BY <1>2, <1>3

\* The whole poll, before the chords: the queue is never full.
LEMMA PolledAccounts ==
  ASSUME config \in Configs, NEW t \in 0 .. MaxTime, Sound(Begun, t), Begun.queued = 0,
         NEW raws \in [Button -> BOOLEAN], NEW n \in 0 .. ButtonCount
  PROVE  LET s == Polled(raws, t)[n]
         IN  Sound(s, t) /\ s.queued <= n + Cardinality(EndedUpto(n))
<1> DEFINE polled == Polled(raws, t)
           Fine(k) == Sound(polled[k], t) /\ polled[k].queued <= k + Cardinality(EndedUpto(k))
           Bad == {k \in 0 .. ButtonCount : ~ Fine(k)}
<1>1. polled[0] = Begun /\ \A b \in Button : polled[b] = ButtonStep(polled[b - 1], b, raws, t)
  BY PolledSteps
<1>2. ButtonCount \in Nat /\ QueueLen \in Nat /\ ComboCount \in Nat /\ ButtonCount + ComboCount <= QueueLen
  BY InputAssumption
<1> HIDE DEF polled
<1> SUFFICES ASSUME n \in Bad PROVE FALSE
  BY DEF polled
<1>3. PICK m \in Bad : \A k \in Bad : m <= k
  <2>1. Bad \in SUBSET Nat /\ Bad # {}
    BY <1>2
  <2> HIDE DEF Bad
  <2> QED BY <2>1, LeastNatural
<1>4. m \in 0 .. ButtonCount /\ ~ Fine(m)
  OBVIOUS
<1>5. CASE m = 0
  <2>1. Cardinality(EndedUpto(0)) \in 0 .. ComboCount
    BY EndedCount
  <2> QED BY <1>1, <1>2, <1>4, <1>5, <2>1
<1>6. CASE m # 0
  <2>1. m \in Button /\ m \in Nat /\ m > 0 /\ m - 1 \in 0 .. ButtonCount /\ m - 1 \in Nat
    BY <1>2, <1>4, <1>6 DEF Button
  <2>2. Fine(m - 1)
    <3>1. m - 1 \notin Bad
      <4> HIDE DEF Bad
      <4> QED BY <1>3, <2>1
    <3> QED BY <2>1, <3>1
  <2> DEFINE s == polled[m - 1]
             r == polled[m]
  <2>3. r = ButtonStep(s, m, raws, t)
    BY <1>1, <2>1
  <2>4. Sound(s, t) /\ s.queued <= (m - 1) + Cardinality(EndedUpto(m - 1)) /\ s.queued \in Nat
    BY <2>2 DEF Sound, Accounted, Polls
  <2> HIDE DEF Fine, s, r
  <2>5. /\ Cardinality(EndedUpto(m - 1)) \in 0 .. ComboCount
        /\ Cardinality(EndedUpto(m)) \in 0 .. ComboCount
        /\ Cardinality(EndedUpto(m)) = Cardinality(EndedUpto(m - 1)) + Cardinality(EndedBy(m))
    BY <2>1, EndedCount
  <2>6. s.queued < QueueLen
    BY <1>2, <1>4, <2>1, <2>4, <2>5
  <2>7. Sound(r, t) /\ r.queued <= s.queued + 1 + Cardinality(EndedBy(m))
    BY <2>1, <2>3, <2>4, <2>6, ButtonAccounts
  <2>8. IsFiniteSet(EndedBy(m)) /\ Cardinality(EndedBy(m)) \in Nat
    BY EndedFinite
  <2>9. r.queued \in Nat
    BY <2>7 DEF Sound, Accounted, Polls
  <2>10. r.queued <= m + Cardinality(EndedUpto(m))
    BY <2>1, <2>4, <2>5, <2>7, <2>8, <2>9
  <2> QED BY <1>4, <2>7, <2>10 DEF Fine, r
<1> QED BY <1>5, <1>6

\* The engine between two turns of the loop is one that has told everything
\* rightly.
InputInv ==
  /\ now \in 0 .. MaxTime /\ config \in Configs
  /\ Sound(Begun, now)

LEMMA BegunSound ==
  ASSUME NEW t
  PROVE  Sound(Begun, t)
         <=> /\ button \in [Button -> Pressed] /\ combo \in [Combo -> Matching]
             /\ open \in [Button -> Seq(BOOLEAN)] /\ shorts \in [Combo -> Seq(Tap)] /\ wrong = {}
             /\ \A b \in Button : Tells(button[b], open[b])
             /\ Tracked(combo, shorts, t)
<1>1. /\ Begun.button = button /\ Begun.combo = combo /\ Begun.queued = 0
      /\ Begun.open = open /\ Begun.shorts = shorts /\ Begun.wrong = wrong
  BY DEF Begun
<1>2. Begun \in Polls <=>
        /\ button \in [Button -> Pressed] /\ combo \in [Combo -> Matching]
        /\ open \in [Button -> Seq(BOOLEAN)] /\ shorts \in [Combo -> Seq(Tap)]
        /\ wrong \in SUBSET {"press", "sequence"}
  BY DEF Begun, Polls
<1> QED BY <1>1, <1>2 DEF Sound, Accounted

\* The mark of a chord is put on the button and on the latest of its presses.
LEMMA MarkTells ==
  ASSUME NEW st \in Pressed, NEW presses, Tells(st, presses)
  PROVE  LET su == [st EXCEPT !.consumed = TRUE]
             marked == IF presses # <<>> THEN [presses EXCEPT ![Len(presses)] = TRUE] ELSE presses
         IN  su \in Pressed /\ Tells(su, marked)
<1> DEFINE su == [st EXCEPT !.consumed = TRUE]
           marked == [presses EXCEPT ![Len(presses)] = TRUE]
<1>1. su \in Pressed /\ su.consumed = TRUE /\ Owes(su) = Owes(st)
  BY DEF Pressed, Owes
<1>2. presses \in Seq(BOOLEAN) /\ Len(presses) = Owes(st)
  BY DEF Tells
<1> HIDE DEF su
<1>3. CASE presses # <<>>
  <2>1. Len(presses) \in 1 .. Len(presses)
    BY <1>2, <1>3, EmptySeq
  <2>2. marked \in Seq(BOOLEAN) /\ Len(marked) = Len(presses) /\ marked[Len(presses)] = TRUE
    BY <1>2, <2>1, ExceptSeq
  <2> HIDE DEF marked
  <2>3. Tells(su, marked)
    BY <1>1, <1>2, <2>2 DEF Tells
  <2> QED BY <1>1, <1>3, <2>3 DEF su, marked
<1>4. CASE presses = <<>>
  BY <1>1, <1>2, <1>4 DEF Tells, su
<1> QED BY <1>3, <1>4

\* A configuration write takes the marks away.
LEMMA ClearTells ==
  ASSUME NEW st \in Pressed, NEW presses, Tells(st, presses)
  PROVE  LET su == [st EXCEPT !.consumed = FALSE]
             cleared == [i \in DOMAIN presses |-> FALSE]
         IN  su \in Pressed /\ cleared \in Seq(BOOLEAN) /\ Tells(su, cleared)
<1> DEFINE su == [st EXCEPT !.consumed = FALSE]
           cleared == [i \in DOMAIN presses |-> FALSE]
<1>1. su \in Pressed /\ su.consumed = FALSE /\ Owes(su) = Owes(st)
  BY DEF Pressed, Owes
<1>2. presses \in Seq(BOOLEAN) /\ Len(presses) = Owes(st) /\ Len(presses) \in Nat
      /\ DOMAIN presses = 1 .. Len(presses)
  BY DEF Tells
<1>3. cleared \in Seq(BOOLEAN) /\ Len(cleared) = Len(presses)
      /\ \A i \in 1 .. Len(presses) : cleared[i] = FALSE
  <2>1. cleared = [i \in 1 .. Len(presses) |-> FALSE]
    BY <1>2
  <2>2. cleared \in [1 .. Len(presses) -> BOOLEAN]
    BY <2>1
  <2>3. cleared \in Seq(BOOLEAN)
    <3> HIDE DEF cleared
    <3> QED BY <1>2, <2>2, SeqDef
  <2>4. Len(cleared) = Len(presses)
    <3>1. DOMAIN cleared = 1 .. Len(presses)
      BY <2>1
    <3> HIDE DEF cleared
    <3> QED BY <1>2, <2>3, <3>1, LenProperties
  <2> QED BY <2>1, <2>3, <2>4
<1> HIDE DEF su, cleared
<1>4. cleared # <<>> => cleared[Len(cleared)] = su.consumed
  <2> HAVE cleared # <<>>
  <2>1. Len(presses) \in 1 .. Len(presses)
    BY <1>2, <1>3, EmptySeq
  <2> QED BY <1>1, <1>3, <2>1
<1>5. Tells(su, cleared)
  BY <1>1, <1>2, <1>3, <1>4 DEF Tells
<1> QED BY <1>1, <1>3, <1>5 DEF su, cleared

\* The chords of a poll.
LEMMA PollSound ==
  ASSUME config \in Configs, NEW t \in 0 .. MaxTime, Sound(Begun, t),
         NEW raws \in [Button -> BOOLEAN]
  PROVE  Sound(Poll(raws, t), t)
<1> DEFINE s == Polled(raws, t)[ButtonCount]
           chorded == Members(s.combo, s.button)
           buttons == [b \in Button |-> IF b \in chorded THEN [s.button[b] EXCEPT !.consumed = TRUE]
                                        ELSE s.button[b]]
           combos == [c \in Combo |-> ChordState(s.combo[c], config.combos[c], s.button)]
           opens == [b \in Button |-> IF b \in chorded /\ s.open[b] # <<>>
                                      THEN [s.open[b] EXCEPT ![Len(s.open[b])] = TRUE]
                                      ELSE s.open[b]]
           r == Poll(raws, t)
<1>1. Sound(s, t)
  <2>1. Begun.queued = 0
    BY DEF Begun
  <2>2. ButtonCount \in 0 .. ButtonCount
    BY InputAssumption
  <2> QED BY <2>1, <2>2, PolledAccounts
<1>2. r = [s EXCEPT !.button = buttons, !.combo = combos, !.open = opens]
  <2>1. s \in Polls
    BY <1>1 DEF Sound, Accounted
  <2> HIDE DEF s
  <2> QED BY <2>1 DEF Poll, Polls, s
<1> HIDE DEF s, chorded, r
<1>3. /\ s \in Polls /\ s.wrong = {} /\ Tracked(s.combo, s.shorts, t)
      /\ \A b \in Button : s.button[b] \in Pressed /\ Tells(s.button[b], s.open[b])
      /\ \A c \in Combo : s.combo[c] \in Matching
  BY <1>1 DEF Sound, Accounted, Polls
<1>4. ASSUME NEW b \in Button PROVE buttons[b] \in Pressed /\ Tells(buttons[b], opens[b])
  <2>1. LET su == [s.button[b] EXCEPT !.consumed = TRUE]
            marked == IF s.open[b] # <<>> THEN [s.open[b] EXCEPT ![Len(s.open[b])] = TRUE]
                      ELSE s.open[b]
        IN  su \in Pressed /\ Tells(su, marked)
    BY <1>3, MarkTells
  <2>2. CASE b \in chorded
    BY <2>1, <2>2
  <2>3. CASE b \notin chorded
    BY <1>3, <2>3
  <2> QED BY <2>2, <2>3
<1>5. ASSUME NEW c \in Combo
      PROVE  /\ combos[c] \in Matching
             /\ config.combos[c].type = "sequence" => combos[c] = s.combo[c]
  <2> DEFINE def == config.combos[c]
             fired == /\ ChordHeld(def, s.button)
                      /\ s.combo[c].fired \/ ChordFires(s.combo[c], def, s.button)
  <2>1. fired \in BOOLEAN
    OBVIOUS
  <2>2. combos[c] = IF def.type = "chord" THEN [s.combo[c] EXCEPT !.fired = fired] ELSE s.combo[c]
    BY DEF ChordState
  <2>3. s.combo[c] \in Matching
    BY <1>3
  <2> HIDE DEF fired, combos
  <2>4. [s.combo[c] EXCEPT !.fired = fired] \in Matching
    BY <2>1, <2>3 DEF Matching
  <2> QED BY <2>2, <2>3, <2>4
<1>6. /\ buttons \in [Button -> Pressed] /\ combos \in [Combo -> Matching]
      /\ opens \in [Button -> Seq(BOOLEAN)]
  <2>1. buttons = [b \in Button |-> buttons[b]] /\ combos = [c \in Combo |-> combos[c]]
        /\ opens = [b \in Button |-> opens[b]]
    OBVIOUS
  <2>2. \A b \in Button : opens[b] \in Seq(BOOLEAN)
    <3> HIDE DEF buttons, combos, opens
    <3> QED BY <1>4 DEF Tells
  <2> HIDE DEF buttons, combos, opens
  <2> QED BY <1>4, <1>5, <2>1, <2>2
<1> HIDE DEF buttons, combos, opens
<1>7. /\ r \in Polls /\ r.button = buttons /\ r.combo = combos /\ r.open = opens
      /\ r.shorts = s.shorts /\ r.wrong = {}
  BY <1>2, <1>3, <1>6 DEF Polls
<1>8. Tracked(combos, s.shorts, t)
  BY <1>3, <1>5 DEF Tracked
<1>9. Accounted(r)
  BY <1>4, <1>7 DEF Accounted
<1> QED BY <1>7, <1>8, <1>9 DEF Sound, r

\* What was tracked by a time is tracked by a later one.
LEMMA SoundLater ==
  ASSUME NEW s, NEW t \in Nat, NEW u \in Nat, t <= u, Sound(s, t)
  PROVE  Sound(s, u)
<1>1. \A c \in Combo : s.shorts[c] \in Seq(Tap)
  BY DEF Sound, Accounted, Polls
<1>2. Tracked(s.combo, s.shorts, u)
  BY <1>1, TimedLater DEF Sound, Tracked, Tracks
<1> QED BY <1>2 DEF Sound

LEMMA Configurations ==
  ASSUME NEW d \in Configs, NEW c \in Combo, d.combos[c].type = "sequence"
  PROVE  Len(d.combos[c].buttons) \in Nat \ {0}
<1>1. d.combos[c] \in Definition
  BY InputAssumption DEF Configuration
<1>2. d.combos[c].buttons # <<>> /\ d.combos[c].buttons \in Seq(Button)
  BY <1>1, InputAssumption DEF Definition
<1> QED BY <1>2, EmptySeq

LEMMA InputStarts == ASSUME InputInit PROVE InputInv
<1>1. now \in 0 .. MaxTime /\ config \in Configs
  BY InputAssumption DEF InputInit
<1>2. Up \in Pressed /\ Fresh \in Matching /\ Owes(Up) = 0 /\ Fresh.progress = 0
  BY InputAssumption DEF Up, Fresh, Pressed, Matching, Owes
<1>3. Tells(Up, <<>>)
  BY <1>2, EmptyTells
<1>4. /\ button \in [Button -> Pressed] /\ combo \in [Combo -> Matching]
      /\ open \in [Button -> Seq(BOOLEAN)] /\ shorts \in [Combo -> Seq(Tap)] /\ wrong = {}
      /\ \A b \in Button : Tells(button[b], open[b])
  <2>1. <<>> \in Seq(BOOLEAN) /\ <<>> \in Seq(Tap)
    BY EmptySeq
  <2> QED BY <1>2, <1>3, <2>1 DEF InputInit
<1>5. Tracked(combo, shorts, now)
  BY <1>1, <1>2, Configured, NothingFollows DEF InputInit, Tracked
<1> QED BY <1>1, <1>4, <1>5, BegunSound DEF InputInv

LEMMA InputInductive == InputInv /\ [InputNext]_inputVars => InputInv'
<1> SUFFICES ASSUME InputInv, [InputNext]_inputVars PROVE InputInv'
  OBVIOUS
<1>1. /\ now \in 0 .. MaxTime /\ config \in Configs
      /\ button \in [Button -> Pressed] /\ combo \in [Combo -> Matching]
      /\ open \in [Button -> Seq(BOOLEAN)] /\ shorts \in [Combo -> Seq(Tap)] /\ wrong = {}
      /\ \A b \in Button : Tells(button[b], open[b])
  BY BegunSound DEF InputInv
<1>2. SUFFICES /\ now' \in 0 .. MaxTime /\ config' \in Configs
               /\ button' \in [Button -> Pressed] /\ combo' \in [Combo -> Matching]
               /\ open' \in [Button -> Seq(BOOLEAN)] /\ shorts' \in [Combo -> Seq(Tap)] /\ wrong' = {}
               /\ \A b \in Button : Tells(button'[b], open'[b])
               /\ \A c \in Combo : config'.combos[c].type = "sequence" =>
                    Tracks(combo'[c], shorts'[c], config'.combos[c], now')
  BY DEF InputInv, Sound, Accounted, Begun, Polls, Tracked
<1>3. CASE Loop
  <2>1. PICK d \in Intervals, raws \in [Button -> BOOLEAN] :
          /\ now + d <= MaxTime
          /\ now' = now + d
          /\ LET s == Poll(raws, now + d)
             IN  /\ button' = s.button
                 /\ combo' = s.combo
                 /\ open' = s.open
                 /\ shorts' = s.shorts
                 /\ wrong' = s.wrong
          /\ UNCHANGED config
    BY <1>3 DEF Loop
  <2> DEFINE t == now + d
             s == Poll(raws, t)
  <2>2. t \in 0 .. MaxTime /\ now \in Nat /\ t \in Nat /\ now <= t
    BY <1>1, <2>1, InputAssumption
  <2>3. Sound(Begun, t)
    BY <2>2, SoundLater DEF InputInv
  <2>4. Sound(s, t)
    BY <1>1, <2>2, <2>3, PollSound
  <2>5. /\ now' = t /\ config' = config
        /\ button' = s.button /\ combo' = s.combo /\ open' = s.open
        /\ shorts' = s.shorts /\ wrong' = s.wrong
    BY <2>1
  <2> HIDE DEF s, t
  <2> QED BY <1>1, <2>2, <2>4, <2>5 DEF Sound, Accounted, Polls, Tracked
<1>4. CASE SetConfig
  <2>1. PICK d \in Configs :
          /\ config' = d
          /\ combo' = [c \in Combo |-> Fresh]
          /\ button' = [b \in Button |-> [button[b] EXCEPT !.consumed = FALSE]]
          /\ open' = [b \in Button |-> [i \in DOMAIN open[b] |-> FALSE]]
          /\ shorts' = [c \in Combo |-> <<>>]
          /\ UNCHANGED <<now, wrong>>
    BY <1>4 DEF SetConfig
  <2>2. \A b \in Button : button'[b] \in Pressed /\ open'[b] \in Seq(BOOLEAN)
                          /\ Tells(button'[b], open'[b])
    <3> TAKE b \in Button
    <3>1. button[b] \in Pressed /\ Tells(button[b], open[b])
      BY <1>1
    <3>2. button'[b] = [button[b] EXCEPT !.consumed = FALSE]
          /\ open'[b] = [i \in DOMAIN open[b] |-> FALSE]
      BY <2>1
    <3> QED BY <3>1, <3>2, ClearTells
  <2>3. Fresh \in Matching /\ Fresh.progress = 0 /\ <<>> \in Seq(Tap)
    BY InputAssumption, EmptySeq DEF Fresh, Matching
  <2>4. \A c \in Combo : config'.combos[c].type = "sequence" =>
          Len(config'.combos[c].buttons) \in Nat \ {0}
    <3>1. \A c \in Combo : d.combos[c].type = "sequence" => Len(d.combos[c].buttons) \in Nat \ {0}
      BY Configurations
    <3> QED BY <2>1, <3>1
  <2>5. \A c \in Combo : config'.combos[c].type = "sequence" =>
          Tracks(combo'[c], shorts'[c], config'.combos[c], now')
    BY <2>1, <2>3, <2>4, NothingFollows
  <2>6. /\ button' = [b \in Button |-> button'[b]] /\ open' = [b \in Button |-> open'[b]]
    BY <2>1
  <2>7. button' \in [Button -> Pressed] /\ open' \in [Button -> Seq(BOOLEAN)]
    BY <2>2, <2>6
  <2>8. combo' \in [Combo -> Matching] /\ shorts' \in [Combo -> Seq(Tap)]
    BY <2>1, <2>3
  <2> QED BY <1>1, <2>1, <2>2, <2>5, <2>7, <2>8
<1>5. CASE UNCHANGED inputVars
  <2>1. \A c \in Combo : config.combos[c].type = "sequence" =>
          Tracks(combo[c], shorts[c], config.combos[c], now)
    BY BegunSound DEF InputInv, Tracked
  <2>2. /\ now' = now /\ config' = config /\ button' = button /\ combo' = combo
        /\ open' = open /\ shorts' = shorts /\ wrong' = wrong
    BY <1>5 DEF inputVars, engine, history
  <2> QED BY <1>1, <2>1, <2>2
<1> QED BY <1>3, <1>4, <1>5 DEF InputNext

LEMMA InputAlways == InputSpec => []InputInv
<1> QED BY InputStarts, InputInductive, PTL DEF InputSpec

LEMMA InputTells == InputInv => PressesTold
<1> SUFFICES ASSUME InputInv PROVE PressesTold
  OBVIOUS
<1>1. /\ now \in 0 .. MaxTime /\ config \in Configs
      /\ button \in [Button -> Pressed] /\ combo \in [Combo -> Matching]
      /\ open \in [Button -> Seq(BOOLEAN)] /\ shorts \in [Combo -> Seq(Tap)] /\ wrong = {}
      /\ \A b \in Button : Tells(button[b], open[b])
  BY BegunSound DEF InputInv
<1>2. InputTypeOK
  BY <1>1 DEF InputTypeOK, Pressed, Matching
<1>3. ASSUME NEW b \in Button
      PROVE  Len(open[b]) = Owed(b) /\ (open[b] # <<>> => ActivityPending)
  <2>1. Owed(b) = Owes(button[b])
    BY DEF Owed, Owes
  <2>2. button[b] \in Pressed /\ open[b] \in Seq(BOOLEAN) /\ Len(open[b]) = Owes(button[b])
    BY <1>1 DEF Tells
  <2>3. ASSUME open[b] # <<>> PROVE button[b].pending \/ button[b].stable
    <3>1. Owes(button[b]) # 0
      BY <2>2, <2>3, EmptyLen
    <3> QED BY <2>2, <3>1, OwesValue
  <2> QED BY <2>1, <2>2, <2>3 DEF ActivityPending
<1> QED BY <1>1, <1>2, <1>3 DEF PressesTold

LEMMA InputTracks == InputInv => SequenceTracks
<1> SUFFICES ASSUME InputInv PROVE SequenceTracks
  OBVIOUS
<1>1. wrong = {} /\ Tracked(combo, shorts, now)
  BY BegunSound DEF InputInv
<1> QED BY <1>1 DEF Tracked, Tracks, SequenceTracks

\* Every event stands for presses not told before and has the chord mark of the
\* press it stands for, but for a tap told while the button is down again; no
\* press is lost but a tap in the two ways named there, and the board stays awake
\* until all are told: for every number of buttons and combos that the queue
\* holds, and every configuration.
THEOREM PressesAreTold == InputSpec => []PressesTold
BY InputAlways, InputTells, PTL

\* A sequence is as far as the short presses go, and fires when they go to its
\* end within its window: whatever the sequences are, the same buttons again in
\* one of them included.
THEOREM SequencesAreTracked == InputSpec => []SequenceTracks
BY InputAlways, InputTracks, PTL

-----------------------------------------------------------------------------
(***************************************************************************)
(* The event log, for every size of the ring and of a page, any number of  *)
(* events, and the steps of the two tasks in any order.                    *)
(*                                                                         *)
(* A number in reach of the ring is in its slot, with what was logged      *)
(* under it, or its slot was taken by a later one; the numbers taken are   *)
(* the oldest ones.  This holds of the log in memory and, by its own       *)
(* cursor, of what a restart finds: writing a slot before the cursor is    *)
(* saved costs the oldest record of the saved log and makes none up.       *)
(* Until something disturbs the log, memory and flash agree in this way,   *)
(* or a factory reset has emptied the flash and the board restarts.        *)
(***************************************************************************)

\* The records that may still go over the bound.
Extra(t, ats) == IF task[t].at \in ats THEN 1 ELSE 0

Numbers ==
  /\ born + Extra("ble", {"clear", "begin"}) + Extra("app", {"relog"}) <= MaxEvents + 2
  /\ cursor <= born /\ last <= born
  /\ task["app"].at \notin {"begin", "clear", "paging"}
  /\ task["ble"].at \notin {"relog", "restart"}
  /\ \A t \in Task : task[t].at \in {"write", "advance", "persist"} =>
       task[t].seq \in 1 .. born /\ task[t].event \in 1 .. born

\* The numbers that a log of m events can still read.
Within(m) == {n \in 1 .. m : n > m - SlotCount}

\* The slot of n holds a later record; the record of n.
Passed(sl, n) == sl[SlotOf(n)].seq > n
Genuine(sl, n, seqs) == sl[SlotOf(n)] = [seq |-> n, event |-> seqs[n]]

\* What slots hold of a log of m events: the oldest numbers may be overwritten,
\* the others are what was logged.
Ring(sl, m, seqs) ==
  /\ \A n \in Within(m) : Genuine(sl, n, seqs) \/ Passed(sl, n)
  /\ \A n, k \in Within(m) : k < n /\ Passed(sl, n) => Passed(sl, k)

\* A log of l events has overwritten what falls out of its reach.
Overtaken(sl, m, l) == \A n \in Within(m) : n <= l - SlotCount => Passed(sl, n)

Rising(seqs, b) ==
  /\ \A i, j \in DOMAIN seqs : i < j => seqs[i] < seqs[j]
  /\ \A i \in DOMAIN seqs : seqs[i] <= b

Appending(t) == task[t].at \in {"begin", "write", "advance", "persist", "clear", "relog"}

\* What a restart would find.
Flash ==
  /\ cursor = Len(durable)
  /\ Ring(slots, cursor, durable)
  /\ Rising(durable, born) /\ Rising(logged, born)
  /\ ~ (Appending("app") /\ Appending("ble"))

\* A factory reset has emptied the flash, not the memory.
Wiped ==
  /\ ~ Appending("ble")
  /\ \A i \in Slot \ {0} : slots[i] = Blank
  /\ \/ task["app"].at = "relog" /\ slots[0] = Blank /\ logged = <<>>
     \/ task["app"].at = "restart" /\ Len(logged) = 1 /\ slots[0] = [seq |-> 1, event |-> logged[1]]

\* How far the append of a task is.
Stage(tk, sl, l, b, lg) ==
  /\ tk.at \in {"write", "advance"} => tk.seq = l + 1 /\ tk.event = b /\ \A i \in DOMAIN lg : lg[i] < b
  /\ tk.at = "advance" => sl[SlotOf(tk.seq)] = [seq |-> tk.seq, event |-> tk.event]
  /\ tk.at = "persist" => tk.seq = l
  /\ tk.at \in {"clear", "begin"} => l = 0

Paging == task["ble"].at = "paging"

\* The reply to EVENT_LOG_GET so far and what the phone holds of it.
Asked(pg, ft) ==
  /\ ft.at = "waiting"
  /\ pg.sent = 0 \/ pg.sent < pg.total
  /\ IF ft.lost THEN Len(ft.records) + Batch <= pg.sent ELSE Len(ft.records) = pg.sent
  /\ \A i \in DOMAIN ft.records : ft.records[i].seq <= pg.since
  /\ \A i, j \in DOMAIN ft.records : i < j => ft.records[i].seq < ft.records[j].seq

\* base: the numbers that were out of reach when the request came in.
Covers(base, pg, ft, l, lg) ==
  /\ base = 0 \/ base <= l - SlotCount
  /\ pg.sent > 0 => pg.since >= base + pg.sent
  /\ \A e \in ft.asof : \E n \in 1 .. l :
       /\ n <= base + pg.total /\ lg[n] = e
       /\ n <= pg.since => e \in Events(ft.records) \/ n <= l - SlotCount

Paged(pg, ft, l, lg) ==
  /\ pg.since <= l
  /\ \A i \in DOMAIN ft.records : ft.records[i].event = lg[ft.records[i].seq]
  /\ ~ ft.lost /\ ~ ft.torn =>
       /\ pg.sent + (l - pg.since) >= pg.total
       /\ \E base \in Nat : Covers(base, pg, ft, l, lg)

\* The log in memory is what is logged.
InMemory ==
  /\ task["app"].at # "relog"
  /\ last = Len(logged)
  /\ Ring(slots, last, logged)
  /\ \A t \in Task : Stage(task[t], slots, last, born, logged)
  /\ task["ble"].at # "clear" => cursor <= last /\ Overtaken(slots, cursor, last)
  /\ Paging => Paged(page, fetch, last, logged)

LogInv ==
  /\ LogTypeOK /\ Numbers
  /\ Paging => Asked(page, fetch)
  /\ harm = {} => Flash /\ (Wiped \/ InMemory)
  /\ FetchAnswered

-----------------------------------------------------------------------------
(* Numbers around the ring                                                 *)

LEMMA Divided ==
  ASSUME NEW S \in Int, S > 0, NEW a \in Int
  PROVE  a = S * (a \div S) + (a % S) /\ a \div S \in Int /\ a % S \in 0 .. S - 1
<1>1. a = S * (a \div S) + (a % S)
  OBVIOUS
<1>2. a \div S \in Int
  OBVIOUS
<1>3. a % S \in 0 .. S - 1
  OBVIOUS
<1> QED BY <1>1, <1>2, <1>3

LEMMA NoMultiple ==
  ASSUME NEW S \in Int, S > 0, NEW k \in Int, -S < S * k, S * k < S
  PROVE  k = 0
OBVIOUS

\* Numbers less than S apart fall on one remainder only if they are equal; S apart,
\* they do.
LEMMA Around ==
  ASSUME NEW S \in Int, S > 0, NEW a \in Int, NEW b \in Int
  PROVE  /\ -S < a - b /\ a - b < S /\ a % S = b % S => a = b
         /\ a - b = S => a % S = b % S
<1> DEFINE q == a \div S
           p == b \div S
           r == a % S
           s == b % S
           k == q - p
           j == k - 1
<1>1. a = S * q + r /\ q \in Int /\ r \in 0 .. S - 1
  BY Divided
<1>2. b = S * p + s /\ p \in Int /\ s \in 0 .. S - 1
  BY Divided
<1> HIDE DEF q, p, r, s
<1>3. k \in Int /\ j \in Int
  BY <1>1, <1>2
<1>4. S * q - S * p = S * k /\ S * k = S * j + S
  BY <1>1, <1>2
<1> HIDE DEF k, j
<1>5. a - b = S * k + (r - s) /\ S * k \in Int /\ S * j \in Int
  BY <1>1, <1>2, <1>3, <1>4
<1>6. ASSUME -S < a - b, a - b < S, r = s PROVE a = b
  <2>1. -S < S * k /\ S * k < S
    BY <1>1, <1>2, <1>5, <1>6
  <2>2. k = 0
    BY <1>3, <2>1, NoMultiple
  <2> QED BY <1>1, <1>2, <1>5, <1>6, <2>2
<1>7. ASSUME a - b = S PROVE r = s
  <2>1. S * j = s - r
    BY <1>1, <1>2, <1>4, <1>5, <1>7
  <2>2. -S < S * j /\ S * j < S
    BY <1>1, <1>2, <2>1
  <2>3. j = 0
    BY <1>3, <2>2, NoMultiple
  <2> QED BY <1>1, <1>2, <2>1, <2>3
<1> QED BY <1>6, <1>7 DEF r, s

LEMMA Slots ==
  /\ SlotCount \in Nat /\ SlotCount > 0 /\ Batch \in Nat /\ Batch > 0 /\ MaxEvents \in Nat
  /\ 0 \in Slot
<1>1. SlotCount \in Nat /\ SlotCount > 0 /\ Batch \in Nat /\ Batch > 0 /\ MaxEvents \in Nat
  BY EventLogAssumption
<1> QED BY <1>1 DEF Slot

LEMMA SlotType == ASSUME NEW n \in Int PROVE SlotOf(n) \in Slot
BY Slots, Divided DEF SlotOf, Slot

\* Two numbers share a slot when they are one round of the ring apart, and not
\* before.
LEMMA SameSlot ==
  ASSUME NEW n \in Int, NEW k \in Int
  PROVE  /\ SlotOf(n) = SlotOf(k) /\ -SlotCount < n - k /\ n - k < SlotCount => n = k
         /\ n - k = SlotCount => SlotOf(n) = SlotOf(k)
<1> DEFINE a == n - 1
           b == k - 1
<1>1. a \in Int /\ b \in Int /\ a - b = n - k
  OBVIOUS
<1> HIDE DEF a, b
<1> DEFINE S == SlotCount
<1>s. S \in Int /\ S > 0
  BY Slots
<1> HIDE DEF S
<1>2. /\ -S < a - b /\ a - b < S /\ a % S = b % S => a = b
      /\ a - b = S => a % S = b % S
  BY <1>1, <1>s, Around
<1>3. SlotOf(n) = a % S /\ SlotOf(k) = b % S
  BY DEF a, b, SlotOf, S
<1>4. a = b => n = k
  BY DEF a, b
<1> QED BY <1>1, <1>2, <1>3, <1>4 DEF S

\* A set of numbers with 0 and the successor of each of its members has them all.
LEMMA Climb ==
  ASSUME NEW T \in SUBSET Nat, 0 \in T, \A n \in T : n + 1 \in T
  PROVE  \A n \in Nat : n \in T
<1> DEFINE Rest == Nat \ T
<1> SUFFICES ASSUME Rest # {} PROVE FALSE
  OBVIOUS
<1>1. PICK n \in Rest : \A k \in Rest : n <= k
  <2>1. Rest \in SUBSET Nat
    OBVIOUS
  <2> HIDE DEF Rest
  <2> QED BY <2>1, LeastNatural
<1>2. n \in Nat /\ n # 0 /\ n - 1 \in Nat /\ n - 1 \in T /\ n \notin T
  <2>1. n \in Nat /\ n # 0 /\ n \notin T
    OBVIOUS
  <2>2. n - 1 \in Nat
    BY <2>1
  <2>3. n - 1 \notin Rest
    BY <1>1, <2>1, <2>2
  <2> QED BY <2>1, <2>2, <2>3
<1>3. (n - 1) + 1 \in T
  BY <1>2
<1>4. (n - 1) + 1 = n
  BY <1>2
<1> QED BY <1>2, <1>3, <1>4

-----------------------------------------------------------------------------
(* What mc_event_log_read() collects                                       *)

\* What mc_event_log_read() holds after it has looked at the number n.
Gather(before, n, start, most) ==
  IF n <= start THEN <<>>
  ELSE IF Len(before) < most /\ Found(n) THEN Append(before, slots[SlotOf(n)])
  ELSE before

Gathers(f, m, start, most) ==
  f = [n \in 0 .. m |-> Gather(f[n - 1], n, start, most)]

\* There is a function that Collect's recursion describes.
LEMMA GatherExists ==
  ASSUME NEW start \in Nat, NEW most, NEW m \in Nat
  PROVE  \E f : Gathers(f, m, start, most)
<1> DEFINE G(f, n) == Gather(f[n - 1], n, start, most)
           T == {k \in Nat : \E f : f = [n \in 0 .. k |-> G(f, n)]}
<1>1. 0 \in T
  <2> DEFINE g == [n \in 0 .. 0 |-> <<>>]
  <2>1. \A n \in 0 .. 0 : G(g, n) = <<>>
    BY DEF Gather
  <2> HIDE DEF G
  <2>2. g = [n \in 0 .. 0 |-> G(g, n)]
    BY <2>1
  <2> QED BY <2>2
<1>2. ASSUME NEW k \in T PROVE k + 1 \in T
  <2>1. PICK f : f = [n \in 0 .. k |-> G(f, n)]
    OBVIOUS
  <2> DEFINE g == [n \in 0 .. k + 1 |-> IF n = k + 1 THEN G(f, n) ELSE f[n]]
  <2>0. k \in Nat /\ k + 1 \in Nat
    OBVIOUS
  <2>2. ASSUME NEW n \in 0 .. k + 1 PROVE g[n] = G(g, n)
    <3>1. CASE n = 0
      <4>1. G(g, n) = <<>> /\ G(f, n) = <<>>
        BY <3>1 DEF Gather
      <4>2. g[n] = f[n] /\ f[n] = G(f, n)
        <5>1. n \in 0 .. k /\ n # k + 1
          BY <3>1, <2>0
        <5>2. g[n] = f[n]
          BY <5>1
        <5> HIDE DEF G, g
        <5> QED BY <5>1, <5>2, <2>1
      <4> HIDE DEF G, g
      <4> QED BY <4>1, <4>2
    <3>2. CASE n # 0
      <4>1. n - 1 \in 0 .. k /\ n - 1 # k + 1 /\ n - 1 \in 0 .. k + 1
        BY <3>2, <2>0
      <4>2. g[n - 1] = f[n - 1]
        BY <4>1
      <4>3. G(g, n) = G(f, n)
        BY <4>2
      <4>4. g[n] = IF n = k + 1 THEN G(f, n) ELSE f[n]
        OBVIOUS
      <4>5. n # k + 1 => n \in 0 .. k
        BY <2>0
      <4> HIDE DEF G, g
      <4>6. n # k + 1 => f[n] = G(f, n)
        BY <2>1, <4>5
      <4> QED BY <4>3, <4>4, <4>6
    <3> QED BY <3>1, <3>2
  <2>3. g = [n \in 0 .. k + 1 |-> g[n]]
    OBVIOUS
  <2> HIDE DEF g, G
  <2>4. g = [n \in 0 .. k + 1 |-> G(g, n)]
    BY <2>2, <2>3
  <2> QED BY <2>0, <2>4
<1>3. m \in T
  <2>1. T \in SUBSET Nat
    OBVIOUS
  <2> HIDE DEF T
  <2> QED BY <1>1, <1>2, <2>1, Climb
<1> QED BY <1>3 DEF Gathers

\* And Collect is one.
LEMMA Gathered ==
  ASSUME NEW since \in Nat, NEW most, last \in Nat
  PROVE  Gathers(Collect(since, most), last, EffectiveStart(since), most)
<1> DEFINE start == EffectiveStart(since)
<1>1. start \in Nat
  BY Slots DEF EffectiveStart
<1> HIDE DEF start
<1>2. \E f : Gathers(f, last, start, most)
  BY <1>1, GatherExists
<1>3. Collect(since, most) = CHOOSE f : Gathers(f, last, start, most)
  BY DEF Collect, Gathers, Gather, start
<1> QED BY <1>2, <1>3 DEF start

SlotsTyped(sl) == sl \in [Slot -> Record \cup {Blank}]

\* A list of records that are in the ring, with numbers above start, up to n.
Listed(s, start, n, most) ==
  /\ s \in Seq(Record) /\ Len(s) <= most
  /\ \A i \in 1 .. Len(s) : start < s[i].seq /\ s[i].seq <= n /\ s[i] = slots[SlotOf(s[i].seq)]
  /\ \A i, j \in 1 .. Len(s) : i < j => s[i].seq < s[j].seq

\* A slot with the number looked for holds a record.
LEMMA FoundRecord ==
  ASSUME SlotsTyped(slots), NEW n \in Nat, n > 0, Found(n)
  PROVE  slots[SlotOf(n)] \in Record /\ slots[SlotOf(n)].seq = n
<1>1. slots[SlotOf(n)] \in Record \cup {Blank}
  BY SlotType DEF SlotsTyped
<1>2. slots[SlotOf(n)].seq = n
  BY DEF Found
<1>3. Blank.seq = 0
  BY DEF Blank
<1> QED BY <1>1, <1>2, <1>3

LEMMA SeqOf == ASSUME NEW r \in Record PROVE r.seq \in Nat /\ r.event \in Event
<1>1. r.seq \in Event /\ r.event \in Event
  BY DEF Record
<1> QED BY <1>1 DEF Event

LEMMA NothingListed ==
  ASSUME NEW start, NEW n, NEW most \in Nat PROVE Listed(<<>>, start, n, most)
<1>1. <<>> \in Seq(Record) /\ Len(<<>>) = 0
  OBVIOUS
<1> QED BY <1>1 DEF Listed

\* Looking at one more number keeps the list in order and within the ring.
LEMMA GatherLists ==
  ASSUME SlotsTyped(slots), NEW start \in Nat, NEW most \in Nat, NEW n \in Nat, NEW s, Listed(s, start, n, most)
  PROVE  Listed(Gather(s, n + 1, start, most), start, n + 1, most)
<1>0. n + 1 \in Nat /\ s \in Seq(Record) /\ Len(s) \in Nat
  BY DEF Listed
<1>1. CASE n + 1 <= start
  <2>1. Gather(s, n + 1, start, most) = <<>>
    BY <1>1 DEF Gather
  <2> QED BY <2>1, NothingListed
<1>2. CASE ~ (n + 1 <= start) /\ Len(s) < most /\ Found(n + 1)
  <2> DEFINE r == slots[SlotOf(n + 1)]
             t == Append(s, r)
  <2>1. Gather(s, n + 1, start, most) = t
    BY <1>2 DEF Gather
  <2>2. r \in Record /\ r.seq = n + 1
    BY <1>2, FoundRecord
  <2>3. r = slots[SlotOf(r.seq)]
    BY <2>2
  <2> HIDE DEF r
  <2>4. t \in Seq(Record) /\ Len(t) = Len(s) + 1 /\ t[Len(s) + 1] = r
        /\ \A i \in 1 .. Len(s) : t[i] = s[i]
    BY <1>0, <2>2
  <2> HIDE DEF t
  <2>5. ASSUME NEW i \in 1 .. Len(s)
        PROVE  /\ t[i].seq \in Nat /\ start < t[i].seq /\ t[i].seq <= n
               /\ t[i] = slots[SlotOf(t[i].seq)]
    <3>1. t[i] = s[i] /\ s[i] \in Record
      BY <1>0, <2>4
    <3>2. start < s[i].seq /\ s[i].seq <= n /\ s[i] = slots[SlotOf(s[i].seq)]
      BY DEF Listed
    <3>3. s[i].seq \in Nat
      BY <3>1, SeqOf
    <3> QED BY <3>1, <3>2, <3>3
  <2>6. ASSUME NEW i \in 1 .. Len(t)
        PROVE  start < t[i].seq /\ t[i].seq <= n + 1 /\ t[i] = slots[SlotOf(t[i].seq)]
    <3>1. i \in 1 .. Len(s) \/ i = Len(s) + 1
      BY <1>0, <2>4
    <3>2. CASE i \in 1 .. Len(s)
      BY <2>5, <3>2
    <3>3. CASE i = Len(s) + 1
      BY <1>2, <2>2, <2>3, <2>4, <3>3
    <3> QED BY <3>1, <3>2, <3>3
  <2>7. ASSUME NEW i \in 1 .. Len(t), NEW j \in 1 .. Len(t), i < j
        PROVE  t[i].seq < t[j].seq
    <3>1. i \in 1 .. Len(s) /\ (j \in 1 .. Len(s) \/ j = Len(s) + 1)
      BY <1>0, <2>4, <2>7
    <3>2. CASE j \in 1 .. Len(s)
      <4>1. s[i].seq < s[j].seq
        BY <2>7, <3>1, <3>2 DEF Listed
      <4> QED BY <2>4, <3>1, <3>2, <4>1
    <3>3. CASE j = Len(s) + 1
      BY <2>2, <2>4, <2>5, <3>1, <3>3
    <3> QED BY <3>1, <3>2, <3>3
  <2>8. Len(t) <= most
    BY <1>0, <1>2, <2>4
  <2> QED BY <2>1, <2>4, <2>6, <2>7, <2>8 DEF Listed
<1>3. CASE ~ (n + 1 <= start) /\ ~ (Len(s) < most /\ Found(n + 1))
  <2>1. Gather(s, n + 1, start, most) = s
    BY <1>3 DEF Gather
  <2>2. ASSUME NEW i \in 1 .. Len(s)
        PROVE  start < s[i].seq /\ s[i].seq <= n + 1 /\ s[i] = slots[SlotOf(s[i].seq)]
    <3>1. s[i] \in Record
      BY <1>0
    <3>2. start < s[i].seq /\ s[i].seq <= n /\ s[i] = slots[SlotOf(s[i].seq)]
      BY DEF Listed
    <3>3. s[i].seq \in Nat
      BY <3>1, SeqOf
    <3> QED BY <3>2, <3>3
  <2> QED BY <2>1, <2>2 DEF Listed
<1> QED BY <1>1, <1>2, <1>3

LEMMA GatherSteps ==
  ASSUME NEW f, NEW m \in Nat, NEW start \in Nat, NEW most, Gathers(f, m, start, most)
  PROVE  /\ f[0] = <<>>
         /\ \A n \in Nat : n + 1 <= m => f[n + 1] = Gather(f[n], n + 1, start, most)
<1>1. \A n \in 0 .. m : f[n] = Gather(f[n - 1], n, start, most)
  BY DEF Gathers
<1>2. f[0] = <<>>
  <2>1. f[0] = Gather(f[0 - 1], 0, start, most)
    BY <1>1
  <2> QED BY <2>1 DEF Gather
<1>3. ASSUME NEW n \in Nat, n + 1 <= m PROVE f[n + 1] = Gather(f[n], n + 1, start, most)
  <2>1. n + 1 \in 0 .. m /\ (n + 1) - 1 = n
    BY <1>3
  <2> QED BY <1>1, <2>1
<1> QED BY <1>2, <1>3

\* What was collected up to the number m, most at the most, in order.
LEMMA GatheredListed ==
  ASSUME SlotsTyped(slots), NEW f, NEW m \in Nat, NEW start \in Nat, NEW most \in Nat,
         Gathers(f, m, start, most)
  PROVE  Listed(f[m], start, m, most)
<1> DEFINE T == {n \in Nat : n <= m => Listed(f[n], start, n, most)}
<1>1. 0 \in T
  BY GatherSteps, NothingListed
<1>2. ASSUME NEW n \in T PROVE n + 1 \in T
  <2>1. SUFFICES ASSUME n + 1 <= m PROVE Listed(f[n + 1], start, n + 1, most)
    OBVIOUS
  <2>2. n \in Nat /\ n <= m
    BY <2>1
  <2>3. Listed(f[n], start, n, most)
    BY <2>2
  <2>4. f[n + 1] = Gather(f[n], n + 1, start, most)
    BY <2>1, <2>2, GatherSteps
  <2> QED BY <2>2, <2>3, <2>4, GatherLists
<1>3. T \in SUBSET Nat
  OBVIOUS
<1> HIDE DEF T
<1>4. m \in T
  BY <1>1, <1>2, <1>3, Climb
<1> QED BY <1>4 DEF T

\* The records above h, one by one.
Run(s, h, n, most) ==
  /\ Len(s) = IF n <= h THEN 0 ELSE IF n - h < most THEN n - h ELSE most
  /\ \A i \in 1 .. Len(s) : s[i] = slots[SlotOf(h + i)]

LEMMA NothingRuns ==
  ASSUME NEW h, NEW n, n <= h, NEW most PROVE Run(<<>>, h, n, most)
<1>1. Len(<<>>) = 0
  OBVIOUS
<1> QED BY <1>1 DEF Run

\* Looking at one more number keeps the run of a ring that holds those after h.
LEMMA GatherRuns ==
  ASSUME SlotsTyped(slots), NEW start \in Nat, NEW h \in Nat, start <= h, NEW most \in Nat, most > 0, NEW n \in Nat,
         n + 1 > start => (Found(n + 1) <=> n + 1 > h),
         NEW s \in Seq(Record), Run(s, h, n, most)
  PROVE  Run(Gather(s, n + 1, start, most), h, n + 1, most)
<1>0. Len(s) = IF n <= h THEN 0 ELSE IF n - h < most THEN n - h ELSE most
  BY DEF Run
<1>1. CASE n + 1 <= start
  <2>1. Gather(s, n + 1, start, most) = <<>>
    BY <1>1 DEF Gather
  <2>2. n + 1 <= h
    BY <1>1
  <2> QED BY <2>1, <2>2, NothingRuns
<1>2. CASE n + 1 > start /\ n + 1 <= h
  <2>1. Gather(s, n + 1, start, most) = s
    BY <1>2 DEF Gather
  <2>2. Len(s) = 0
    BY <1>0, <1>2
  <2> QED BY <1>2, <2>1, <2>2 DEF Run
<1>3. CASE n + 1 > h
  <2>1. CASE n <= h \/ n - h < most
    <3> DEFINE r == slots[SlotOf(n + 1)]
               t == Append(s, r)
    <3>1. n + 1 > start /\ Len(s) = n - h /\ Len(s) < most /\ n - h \in Nat
      BY <1>0, <1>3, <2>1
    <3>2. Gather(s, n + 1, start, most) = t
      BY <1>3, <3>1 DEF Gather
    <3>3. r \in Record
      <4>1. n + 1 \in Nat /\ n + 1 > 0 /\ Found(n + 1)
        BY <1>3, <3>1
      <4> QED BY <4>1, FoundRecord
    <3> HIDE DEF r
    <3>4. Len(t) = Len(s) + 1 /\ t[Len(s) + 1] = r /\ \A i \in 1 .. Len(s) : t[i] = s[i]
      BY <3>3
    <3> HIDE DEF t
    <3>5. ASSUME NEW i \in 1 .. Len(t) PROVE t[i] = slots[SlotOf(h + i)]
      <4>1. CASE i \in 1 .. Len(s)
        BY <3>4, <4>1 DEF Run
      <4>2. CASE i = Len(s) + 1
        <5>1. h + i = n + 1
          BY <3>1, <4>2
        <5> QED BY <3>4, <4>2, <5>1 DEF r
      <4> QED BY <3>1, <3>4, <4>1, <4>2
    <3>6. Len(t) = IF n + 1 <= h THEN 0 ELSE IF n + 1 - h < most THEN n + 1 - h ELSE most
      BY <1>3, <3>1, <3>4
    <3> QED BY <3>2, <3>5, <3>6 DEF Run
  <2>2. CASE ~ (n <= h \/ n - h < most)
    <3>1. Len(s) = most /\ n + 1 > start
      BY <1>0, <1>3, <2>2
    <3>2. Gather(s, n + 1, start, most) = s
      BY <3>1 DEF Gather
    <3>3. most = IF n + 1 <= h THEN 0 ELSE IF n + 1 - h < most THEN n + 1 - h ELSE most
      BY <2>2
    <3> QED BY <3>1, <3>2, <3>3 DEF Run
  <2> QED BY <2>1, <2>2
<1> QED BY <1>1, <1>2, <1>3

\* A read of such a ring finds all of them, as far as the buffer goes.
LEMMA GatheredRuns ==
  ASSUME SlotsTyped(slots), NEW f, NEW m \in Nat, NEW start \in Nat, NEW most \in Nat, most > 0,
         Gathers(f, m, start, most),
         NEW h \in Nat, start <= h, \A k \in start + 1 .. m : Found(k) <=> k > h
  PROVE  Run(f[m], h, m, most)
<1> DEFINE T == {n \in Nat : n <= m => Listed(f[n], start, n, most) /\ Run(f[n], h, n, most)}
<1>0. /\ f[0] = <<>>
      /\ \A n \in Nat : n + 1 <= m => f[n + 1] = Gather(f[n], n + 1, start, most)
  BY GatherSteps
<1>1. 0 \in T
  <2>1. 0 \in Nat /\ 0 <= h
    OBVIOUS
  <2>2. Listed(<<>>, start, 0, most)
    BY NothingListed
  <2>3. Run(<<>>, h, 0, most)
    BY <2>1, NothingRuns
  <2> QED BY <1>0, <2>2, <2>3
<1>2. ASSUME NEW n \in T PROVE n + 1 \in T
  <2>1. SUFFICES ASSUME n + 1 <= m
                 PROVE  Listed(f[n + 1], start, n + 1, most) /\ Run(f[n + 1], h, n + 1, most)
    OBVIOUS
  <2>2. n \in Nat /\ n <= m
    BY <2>1
  <2>3. Listed(f[n], start, n, most) /\ Run(f[n], h, n, most) /\ f[n] \in Seq(Record)
    BY <2>2 DEF Listed
  <2>4. f[n + 1] = Gather(f[n], n + 1, start, most)
    BY <1>0, <2>1, <2>2
  <2>5. Listed(f[n + 1], start, n + 1, most)
    BY <2>2, <2>3, <2>4, GatherLists
  <2>6. n + 1 > start => (Found(n + 1) <=> n + 1 > h)
    BY <2>1, <2>2
  <2>7. Run(f[n + 1], h, n + 1, most)
    BY <2>2, <2>3, <2>4, <2>6, GatherRuns
  <2> QED BY <2>5, <2>7
<1>3. T \in SUBSET Nat
  OBVIOUS
<1> HIDE DEF T
<1>4. m \in T
  BY <1>1, <1>2, <1>3, Climb
<1> QED BY <1>4 DEF T

-----------------------------------------------------------------------------
(* What a reader of the log finds                                          *)

LEMMA LogTypes ==
  ASSUME LogTypeOK
  PROVE  /\ SlotsTyped(slots) /\ cursor \in Nat /\ last \in Nat /\ born \in Nat
         /\ logged \in Seq(Event) /\ durable \in Seq(Event)
         /\ page.since \in Nat /\ page.sent \in Nat /\ page.total \in Nat
         /\ fetch.records \in Seq(Record)
         /\ \A t \in Task : task[t].seq \in Nat /\ task[t].event \in Nat
BY Slots DEF LogTypeOK, SlotsTyped

\* Where a read starts: after since, and within the reach of the ring.
LEMMA StartType ==
  ASSUME last \in Nat, NEW since \in Nat
  PROVE  /\ EffectiveStart(since) \in Nat /\ since <= EffectiveStart(since)
         /\ EffectiveStart(0) <= EffectiveStart(since)
         /\ EffectiveStart(0) <= last
         /\ since <= last => EffectiveStart(since) <= last
         /\ EffectiveStart(0) = IF last > SlotCount THEN last - SlotCount ELSE 0
         /\ EffectiveStart(since) = since \/ EffectiveStart(since) = EffectiveStart(0)
BY Slots DEF EffectiveStart

LEMMA WithinReach == ASSUME last \in Nat PROVE Within(last) = EffectiveStart(0) + 1 .. last
<1>1. EffectiveStart(0) = IF last > SlotCount THEN last - SlotCount ELSE 0
  BY StartType
<1> QED BY <1>1, Slots DEF Within

\* A page and the whole log list records of the ring in the order of their numbers.
LEMMA ReadLists ==
  ASSUME LogTypeOK, NEW since \in Nat
  PROVE  /\ Listed(Read(since), EffectiveStart(since), last, Batch)
         /\ Listed(Readable(since), EffectiveStart(since), last, SlotCount)
<1>1. last \in Nat /\ SlotsTyped(slots)
  BY LogTypes
<1>2. EffectiveStart(since) \in Nat
  BY <1>1, StartType
<1>3. Gathers(Collect(since, Batch), last, EffectiveStart(since), Batch)
  BY <1>1, Gathered
<1>4. Gathers(Collect(since, SlotCount), last, EffectiveStart(since), SlotCount)
  BY <1>1, Gathered
<1>5. Batch \in Nat /\ SlotCount \in Nat
  BY Slots
<1>6. Listed(Collect(since, Batch)[last], EffectiveStart(since), last, Batch)
  BY <1>1, <1>2, <1>3, <1>5, GatheredListed
<1>7. Listed(Collect(since, SlotCount)[last], EffectiveStart(since), last, SlotCount)
  BY <1>1, <1>2, <1>4, <1>5, GatheredListed
<1> QED BY <1>6, <1>7 DEF Read, Readable

\* From the number after h on, the ring holds what was logged.
Edge(h) ==
  /\ h \in EffectiveStart(0) .. last
  /\ Overrun = EffectiveStart(0) + 1 .. h
  /\ \A n \in EffectiveStart(0) + 1 .. last :
       /\ Found(n) <=> n > h
       /\ n > h => slots[SlotOf(n)] = [seq |-> n, event |-> logged[n]]

\* The numbers that were overtaken are the oldest ones, up to some h.
LEMMA EdgeExists ==
  ASSUME LogTypeOK, last = Len(logged), Ring(slots, last, logged)
  PROVE  \E h : Edge(h)
<1> DEFINE start == EffectiveStart(0)
           Clear == {h \in start .. last : \A n \in h + 1 .. last : ~ Passed(slots, n)}
<1>0. last \in Nat /\ start \in Nat /\ start <= last /\ SlotsTyped(slots)
  BY LogTypes, StartType
<1>r. Within(last) = start + 1 .. last
  BY <1>0, WithinReach
<1> HIDE DEF start
<1>1. last \in Clear /\ Clear \in SUBSET Nat
  BY <1>0
<1>2. PICK h \in Clear : \A k \in Clear : h <= k
  <2> HIDE DEF Clear
  <2> QED BY <1>1, LeastNatural
<1>3. h \in start .. last /\ \A n \in h + 1 .. last : ~ Passed(slots, n)
  OBVIOUS
<1>4. ASSUME NEW n \in start + 1 .. h PROVE Passed(slots, n)
  <2>1. h - 1 \in start .. last /\ h - 1 \notin Clear
    <3> HIDE DEF Clear
    <3>1. h - 1 \in start .. last /\ ~ (h <= h - 1)
      BY <1>0, <1>3, <1>4
    <3> QED BY <1>2, <3>1
  <2>2. PICK m \in (h - 1) + 1 .. last : Passed(slots, m)
    BY <2>1
  <2>3. m = h
    BY <1>0, <1>3, <2>2
  <2>4. n \in Within(last) /\ h \in Within(last) /\ (n = h \/ n < h)
    BY <1>0, <1>r, <1>3, <1>4
  <2> QED BY <2>2, <2>3, <2>4 DEF Ring
<1>5. ASSUME NEW n \in start + 1 .. last
      PROVE  /\ Passed(slots, n) <=> n <= h
             /\ Found(n) <=> n > h
             /\ n > h => slots[SlotOf(n)] = [seq |-> n, event |-> logged[n]]
  <2>0. n \in Nat /\ n \in Within(last)
    BY <1>0, <1>r, <1>5
  <2>1. CASE n > h
    <3>1. ~ Passed(slots, n)
      BY <1>0, <1>3, <2>1
    <3>2. slots[SlotOf(n)] = [seq |-> n, event |-> logged[n]]
      BY <2>0, <3>1 DEF Ring, Genuine
    <3>3. Found(n)
      BY <3>2 DEF Found
    <3> QED BY <2>1, <3>1, <3>2, <3>3, <1>0, <1>3
  <2>2. CASE ~ (n > h)
    <3>1. Passed(slots, n)
      BY <1>0, <1>3, <1>4, <1>5, <2>2
    <3>2. ~ Found(n)
      BY <2>0, <3>1 DEF Passed, Found
    <3> QED BY <2>2, <3>1, <3>2, <1>0, <1>3
  <2> QED BY <2>1, <2>2
<1>6. Overrun = start + 1 .. h
  <2>1. Overrun = {n \in start + 1 .. last : Passed(slots, n)}
    BY DEF Overrun, Passed, start
  <2>2. \A n \in Nat : n \in start + 1 .. last /\ n <= h <=> n \in start + 1 .. h
    BY <1>0, <1>3
  <2>3. start + 1 .. last \subseteq Nat /\ start + 1 .. h \subseteq Nat
    BY <1>0, <1>3
  <2> HIDE DEF Clear
  <2> QED BY <1>5, <2>1, <2>2, <2>3
<1> QED BY <1>3, <1>5, <1>6 DEF Edge, start

\* A reader from "since" on finds all records after since and after h.
LEMMA ReadRuns ==
  ASSUME LogTypeOK, NEW since \in Nat, since <= last, NEW h, Edge(h),
         NEW g \in Nat, g = IF since > h THEN since ELSE h
  PROVE  /\ Run(Read(since), g, last, Batch)
         /\ Run(Readable(since), g, last, SlotCount)
<1>1. last \in Nat /\ SlotsTyped(slots) /\ h \in Nat /\ h <= last
  BY LogTypes, StartType DEF Edge
<1> DEFINE start == EffectiveStart(since)
<1>2. start \in Nat /\ start <= g
  <2>1. start \in Nat /\ (start = since \/ start = EffectiveStart(0))
    BY <1>1, StartType
  <2>2. EffectiveStart(0) <= h
    BY <1>1, StartType DEF Edge
  <2> HIDE DEF start
  <2> QED BY <1>1, <2>1, <2>2
<1>3. \A k \in start + 1 .. last : Found(k) <=> k > g
  <2> SUFFICES ASSUME NEW k \in start + 1 .. last PROVE Found(k) <=> k > g
    OBVIOUS
  <2>1. k \in EffectiveStart(0) + 1 .. last /\ k > since
    BY <1>1, <1>2, StartType
  <2>2. Found(k) <=> k > h
    BY <2>1 DEF Edge
  <2> QED BY <1>1, <1>2, <2>1, <2>2
<1>4. Gathers(Collect(since, Batch), last, start, Batch)
  BY <1>1, Gathered
<1>5. Gathers(Collect(since, SlotCount), last, start, SlotCount)
  BY <1>1, Gathered
<1>6. Batch \in Nat /\ SlotCount \in Nat /\ Batch > 0 /\ SlotCount > 0
  BY Slots
<1> HIDE DEF start
<1>7. Run(Collect(since, Batch)[last], g, last, Batch)
  BY <1>1, <1>2, <1>3, <1>4, <1>6, GatheredRuns
<1>8. Run(Collect(since, SlotCount)[last], g, last, SlotCount)
  BY <1>1, <1>2, <1>3, <1>5, <1>6, GatheredRuns
<1> QED BY <1>7, <1>8 DEF Read, Readable

\* All that a reader of the log in memory finds: the latest events, but for those
\* overwritten before the cursor had moved.
LEMMA KeptWhole ==
  ASSUME LogTypeOK, last = Len(logged), Ring(slots, last, logged)
  PROVE  [i \in DOMAIN Readable(0) |-> Readable(0)[i].event]
           = Latest(CountSince(0) - Cardinality(Overrun))
<1> DEFINE start == EffectiveStart(0)
           found == Readable(0)
<1>1. PICK h : Edge(h)
  BY EdgeExists
<1>2. last \in Nat /\ start \in Nat /\ start <= last /\ last - start <= SlotCount
      /\ SlotCount \in Nat /\ logged \in Seq(Event)
  <2>1. last \in Nat /\ SlotCount \in Nat /\ logged \in Seq(Event)
    BY LogTypes, Slots
  <2>2. start \in Nat /\ start <= last /\ start = IF last > SlotCount THEN last - SlotCount ELSE 0
    BY <2>1, StartType
  <2> HIDE DEF start
  <2> QED BY <2>1, <2>2
<1> HIDE DEF start
<1>3. h \in Nat /\ start <= h /\ h <= last /\ Overrun = start + 1 .. h
  BY <1>1, <1>2 DEF Edge, start
<1>4. Run(found, h, last, SlotCount)
  BY <1>1, <1>2, <1>3, ReadRuns
<1>5. found \in Seq(Record)
  BY ReadLists DEF Listed
<1> HIDE DEF found
<1>6. Len(found) = last - h /\ last - h \in Nat
  BY <1>2, <1>3, <1>4 DEF Run
<1>7. ASSUME NEW i \in 1 .. last - h PROVE found[i].event = logged[h + i]
  <2>1. found[i] = slots[SlotOf(h + i)]
    BY <1>4, <1>6 DEF Run
  <2>2. h + i \in start + 1 .. last /\ h + i > h
    BY <1>2, <1>3
  <2>3. slots[SlotOf(h + i)] = [seq |-> h + i, event |-> logged[h + i]]
    BY <1>1, <2>2 DEF Edge, start
  <2> QED BY <2>1, <2>3
<1>8. Cardinality(Overrun) = h - start
  <2>1. Cardinality(start + 1 .. h) = IF start + 1 > h THEN 0 ELSE h - (start + 1) + 1
    BY <1>2, <1>3, FS_Interval
  <2> QED BY <1>2, <1>3, <2>1
<1>9. CountSince(0) = last - start
  <2>1. CountSince(0) = IF last > start THEN last - start ELSE 0
    BY DEF CountSince, start
  <2> QED BY <1>2, <2>1
<1>10. Latest(last - h) = SubSeq(logged, h + 1, last)
  <2>1. Latest(last - h) = SubSeq(logged, IF last > last - h THEN last - (last - h) + 1 ELSE 1, last)
    BY DEF Latest
  <2>2. (IF last > last - h THEN last - (last - h) + 1 ELSE 1) = h + 1
    BY <1>2, <1>3
  <2> QED BY <2>1, <2>2
<1> DEFINE sub == SubSeq(logged, h + 1, last)
           told == [i \in 1 .. last - h |-> found[i].event]
<1>11. sub \in Seq(Event) /\ Len(sub) = last - h /\ \A i \in 1 .. last - h : sub[i] = logged[h + i]
  <2>1. \A i \in h + 1 .. last : i \in 1 .. Len(logged)
    BY <1>2, <1>3
  <2>2. /\ sub \in Seq(Event)
        /\ Len(sub) = IF h + 1 <= last THEN last - (h + 1) + 1 ELSE 0
        /\ \A i \in 1 .. last - (h + 1) + 1 : sub[i] = logged[(h + 1) + i - 1]
    <3>1. h + 1 \in Int /\ last \in Int /\ \A i \in h + 1 .. last : logged[i] \in Event
      BY <1>2, <1>3, <2>1
    <3> QED BY <3>1, <2>1, <1>2, <1>3, SubSeqProperties
  <2>3. last - (h + 1) + 1 = last - h
    BY <1>2, <1>3
  <2>4. \A i \in 1 .. last - h : (h + 1) + i - 1 = h + i
    BY <1>2, <1>3
  <2> HIDE DEF sub
  <2> QED BY <1>2, <1>3, <2>2, <2>3, <2>4
<1>12. DOMAIN found = 1 .. last - h
  BY <1>5, <1>6
<1>13. told = sub
  <2> HIDE DEF sub
  <2>1. sub = [i \in 1 .. last - h |-> sub[i]]
    BY <1>11, <1>6
  <2>2. \A i \in 1 .. last - h : sub[i] = found[i].event
    BY <1>7, <1>11
  <2> QED BY <2>1, <2>2
<1>14. CountSince(0) - Cardinality(Overrun) = last - h
  BY <1>2, <1>3, <1>8, <1>9
<1> QED BY <1>10, <1>12, <1>13, <1>14 DEF found

LEMMA InvWhole == LogInv => Whole
<1> SUFFICES ASSUME LogInv, Quiet, harm = {}
             PROVE  /\ last = Len(logged)
                    /\ [i \in DOMAIN Readable(0) |-> Readable(0)[i].event]
                         = Latest(CountSince(0) - Cardinality(Overrun))
  BY DEF Whole
<1>1. LogTypeOK /\ (Wiped \/ InMemory)
  BY DEF LogInv
<1>2. ~ Wiped
  BY DEF Wiped, Quiet, Writing, Task
<1> QED BY <1>1, <1>2, KeptWhole DEF InMemory

\* The invariant says what is promised of the log.
LEMMA InvSound == LogInv => LogSound
BY InvWhole DEF LogInv, LogSound

-----------------------------------------------------------------------------
(* The ring under an append                                                *)

\* Writing the next record over the oldest one leaves a ring of the numbers before.
LEMMA RingWritten ==
  ASSUME NEW sl, SlotsTyped(sl), NEW m \in Nat, NEW l \in Nat, m <= l, NEW seqs,
         Ring(sl, m, seqs), Overtaken(sl, m, l),
         NEW r, r.seq = l + 1,
         NEW s2, s2 = [sl EXCEPT ![SlotOf(l + 1)] = r]
  PROVE  Ring(s2, m, seqs) /\ Overtaken(s2, m, l)
<1>1. \A i \in Slot : s2[i] = IF i = SlotOf(l + 1) THEN r ELSE sl[i]
  BY DEF SlotsTyped
<1>2. ASSUME NEW n \in Within(m)
      PROVE  /\ n \in Nat /\ n <= l
             /\ s2[SlotOf(n)] = IF SlotOf(n) = SlotOf(l + 1) THEN r ELSE sl[SlotOf(n)]
             /\ Passed(sl, n) => Passed(s2, n)
             /\ Passed(s2, n) => Passed(sl, n) \/ (n <= l + 1 - SlotCount /\ SlotOf(n) = SlotOf(l + 1))
             /\ SlotOf(n) = SlotOf(l + 1) => Passed(s2, n)
  <2>1. n \in Nat /\ n <= l
    BY DEF Within
  <2>2. SlotOf(n) \in Slot
    BY <2>1, SlotType
  <2>3. s2[SlotOf(n)] = IF SlotOf(n) = SlotOf(l + 1) THEN r ELSE sl[SlotOf(n)]
    BY <1>1, <2>2
  <2>4. SlotOf(n) = SlotOf(l + 1) => n <= l + 1 - SlotCount
    <3>1. SUFFICES ASSUME SlotOf(n) = SlotOf(l + 1), ~ (n <= l + 1 - SlotCount) PROVE FALSE
      OBVIOUS
    <3>2. -SlotCount < n - (l + 1) /\ n - (l + 1) < SlotCount /\ l + 1 \in Int
      BY <2>1, <3>1, Slots
    <3>3. n = l + 1
      BY <2>1, <3>1, <3>2, SameSlot
    <3> QED BY <2>1, <3>3
  <2>5. SlotOf(n) = SlotOf(l + 1) => s2[SlotOf(n)].seq > n
    BY <2>1, <2>3
  <2> QED BY <2>1, <2>3, <2>4, <2>5 DEF Passed
<1>3. ASSUME NEW n \in Within(m) PROVE Genuine(s2, n, seqs) \/ Passed(s2, n)
  <2>1. Genuine(sl, n, seqs) \/ Passed(sl, n)
    BY DEF Ring
  <2>2. CASE SlotOf(n) = SlotOf(l + 1)
    BY <1>2, <2>2
  <2>3. CASE SlotOf(n) # SlotOf(l + 1)
    BY <1>2, <2>1, <2>3 DEF Genuine
  <2> QED BY <2>2, <2>3
<1>4. ASSUME NEW n \in Within(m), NEW k \in Within(m), k < n, Passed(s2, n) PROVE Passed(s2, k)
  <2>1. CASE Passed(sl, n)
    <3>1. Passed(sl, k)
      BY <1>4, <2>1 DEF Ring
    <3> QED BY <1>2, <3>1
  <2>2. CASE n <= l + 1 - SlotCount
    <3>1. k \in Nat /\ n \in Nat /\ SlotCount \in Nat
      BY <1>2, Slots
    <3>2. k <= l - SlotCount
      BY <1>4, <2>2, <3>1
    <3>3. Passed(sl, k)
      BY <3>2 DEF Overtaken
    <3> QED BY <1>2, <3>3
  <2> QED BY <1>2, <1>4, <2>1, <2>2
<1>5. ASSUME NEW n \in Within(m), n <= l - SlotCount PROVE Passed(s2, n)
  BY <1>2, <1>5 DEF Overtaken
<1>6. Ring(s2, m, seqs)
  BY <1>3, <1>4 DEF Ring
<1> QED BY <1>5, <1>6 DEF Overtaken

\* A log overtakes no number within its own reach.
LEMMA NotOvertaken ==
  ASSUME NEW sl, NEW m \in Nat PROVE Overtaken(sl, m, m)
<1>1. ASSUME NEW n \in Within(m) PROVE ~ (n <= m - SlotCount)
  <2>1. n \in Nat /\ n > m - SlotCount
    BY DEF Within
  <2> QED BY <2>1, Slots
<1> QED BY <1>1 DEF Overtaken

\* The next number puts the oldest one out of reach.
LEMMA RingAdvanced ==
  ASSUME NEW sl, NEW l \in Nat, NEW seqs \in Seq(Event), Len(seqs) = l, Ring(sl, l, seqs),
         NEW e \in Event, sl[SlotOf(l + 1)] = [seq |-> l + 1, event |-> e]
  PROVE  Ring(sl, l + 1, Append(seqs, e))
<1> DEFINE more == Append(seqs, e)
<1>1. more[l + 1] = e /\ \A n \in 1 .. l : more[n] = seqs[n]
  OBVIOUS
<1>2. \A n \in Within(l + 1) : n = l + 1 \/ (n \in Within(l) /\ n \in 1 .. l)
  BY Slots DEF Within
<1> HIDE DEF more
<1>3. Genuine(sl, l + 1, more) /\ ~ Passed(sl, l + 1)
  BY <1>1 DEF Genuine, Passed
<1>4. ASSUME NEW n \in Within(l + 1) PROVE Genuine(sl, n, more) \/ Passed(sl, n)
  <2>1. CASE n = l + 1
    BY <1>3, <2>1
  <2>2. CASE n \in Within(l) /\ n \in 1 .. l
    <3>1. Genuine(sl, n, seqs) \/ Passed(sl, n)
      BY <2>2 DEF Ring
    <3> QED BY <1>1, <2>2, <3>1 DEF Genuine
  <2> QED BY <1>2, <2>1, <2>2
<1>5. ASSUME NEW n \in Within(l + 1), NEW k \in Within(l + 1), k < n, Passed(sl, n)
      PROVE  Passed(sl, k)
  <2>1. n # l + 1
    BY <1>3, <1>5
  <2>2. n \in Within(l) /\ n \in 1 .. l
    BY <1>2, <2>1
  <2>3. k # l + 1
    BY <1>5, <2>2
  <2>4. k \in Within(l)
    BY <1>2, <2>3
  <2> QED BY <1>5, <2>2, <2>4 DEF Ring
<1> QED BY <1>4, <1>5 DEF Ring, more

\* Once the next number is in its slot, the one a round before it is overwritten.
LEMMA OvertakenNext ==
  ASSUME NEW sl, NEW m \in Nat, NEW l \in Nat, Overtaken(sl, m, l), sl[SlotOf(l + 1)].seq = l + 1
  PROVE  Overtaken(sl, m, l + 1)
<1>1. ASSUME NEW n \in Within(m), n <= (l + 1) - SlotCount PROVE Passed(sl, n)
  <2>1. n \in Nat /\ SlotCount \in Nat /\ SlotCount > 0
    BY Slots DEF Within
  <2>2. CASE n <= l - SlotCount
    BY <2>2 DEF Overtaken
  <2>3. CASE (l + 1) - n = SlotCount
    <3>1. SlotOf(l + 1) = SlotOf(n)
      BY <2>1, <2>3, SameSlot
    <3>2. sl[SlotOf(n)].seq > n
      BY <2>1, <2>3, <3>1
    <3> QED BY <3>2 DEF Passed
  <2> QED BY <1>1, <2>1, <2>2, <2>3
<1> QED BY <1>1 DEF Overtaken

LEMMA EmptyRing == ASSUME NEW sl, NEW seqs PROVE Ring(sl, 0, seqs)
<1>1. Within(0) = {}
  BY DEF Within
<1> QED BY <1>1 DEF Ring

\* An event later than all of them goes at the end.
LEMMA RisingMore ==
  ASSUME NEW seqs \in Seq(Event), NEW b \in Nat, Rising(seqs, b), NEW e \in Event, e <= b,
         \A i \in DOMAIN seqs : seqs[i] < e
  PROVE  Rising(Append(seqs, e), b)
<1> DEFINE more == Append(seqs, e)
           m == Len(seqs)
<1>1. m \in Nat /\ DOMAIN seqs = 1 .. m
  OBVIOUS
<1>2. DOMAIN more = 1 .. m + 1 /\ more[m + 1] = e /\ \A i \in 1 .. m : more[i] = seqs[i]
  OBVIOUS
<1> HIDE DEF more, m
<1>3. ASSUME NEW i \in 1 .. m + 1, NEW j \in 1 .. m + 1, i < j PROVE more[i] < more[j]
  <2>1. i \in 1 .. m
    BY <1>1, <1>3
  <2>2. CASE j = m + 1
    BY <1>1, <1>2, <2>1, <2>2
  <2>3. CASE j # m + 1
    <3>1. j \in 1 .. m
      BY <1>1, <2>3
    <3> QED BY <1>1, <1>2, <1>3, <2>1, <3>1 DEF Rising
  <2> QED BY <2>2, <2>3
<1>4. ASSUME NEW i \in 1 .. m + 1 PROVE more[i] <= b
  <2>1. CASE i = m + 1
    BY <1>2, <2>1
  <2>2. CASE i # m + 1
    <3>1. i \in 1 .. m
      BY <1>1, <2>2
    <3> QED BY <1>1, <1>2, <3>1 DEF Rising
  <2> QED BY <2>1, <2>2
<1> QED BY <1>2, <1>3, <1>4 DEF Rising, more

LEMMA RisingLater ==
  ASSUME NEW seqs \in Seq(Event), NEW b \in Nat, NEW c \in Nat, b <= c, Rising(seqs, b)
  PROVE  Rising(seqs, c) /\ (b < c => \A i \in DOMAIN seqs : seqs[i] < c)
<1>1. ASSUME NEW i \in DOMAIN seqs PROVE seqs[i] \in Nat /\ seqs[i] <= b
  <2>1. seqs[i] \in Event
    OBVIOUS
  <2> QED BY <2>1 DEF Event, Rising
<1> QED BY <1>1 DEF Rising

-----------------------------------------------------------------------------
(* Types, and numbers within the bound                                     *)

LogTyped == LogTypeOK /\ Numbers

Ats == {"idle", "begin", "write", "advance", "persist", "clear", "relog", "restart", "paging"}
Works == [at : Ats, seq : 0 .. MaxEvents + 2, event : 0 .. MaxEvents + 2]

LEMMA TypedTasks ==
  ASSUME LogTypeOK
  PROVE  task \in [Task -> Works] /\ Idle \in Works
BY Slots DEF LogTypeOK, Works, Ats, Idle

LEMMA InitTyped == LogInit => LogTyped
<1> SUFFICES ASSUME LogInit PROVE LogTyped
  OBVIOUS
<1>1. MaxEvents \in Nat /\ SlotCount \in Nat
  BY Slots
<1>2. task \in [Task -> [at : Ats, seq : 0 .. MaxEvents + 2, event : 0 .. MaxEvents + 2]]
  BY <1>1 DEF LogInit, Idle, Ats
<1>3. page \in [since : 0 .. MaxEvents + 2, sent : Nat, total : 0 .. SlotCount]
  BY <1>1 DEF LogInit, NoPage
<1>4. fetch \in [at : {"none", "waiting", "done", "failed"}, records : Seq(Record),
                 lost : BOOLEAN, torn : BOOLEAN, asof : SUBSET Event]
  BY DEF LogInit, NoFetch
<1>5. slots \in [Slot -> Record \cup {Blank}]
  BY DEF LogInit
<1>6. LogTypeOK
  BY <1>1, <1>2, <1>3, <1>4, <1>5 DEF LogTypeOK, Ats, LogInit
<1>7. \A t \in Task : task[t].at = "idle"
  BY DEF LogInit, Idle
<1>8. "app" \in Task /\ "ble" \in Task
  BY DEF Task
<1>9. Numbers
  BY <1>1, <1>7, <1>8 DEF Numbers, Extra, LogInit
<1> QED BY <1>6, <1>9 DEF LogTyped

\* What a step of one task does to the other, and to the bound.
LEMMA TaskSet ==
  ASSUME LogTypeOK, NEW t \in Task, NEW w \in Works, task' = [task EXCEPT ![t] = w]
  PROVE  /\ task' \in [Task -> Works]
         /\ task'[t] = w
         /\ \A o \in Task \ {t} : task'[o] = task[o]
BY TypedTasks

\* Every step keeps the types, and the numbers that the bound allows.
LEMMA AppendTyped ==
  ASSUME LogTyped, NEW t \in Task, BeginAppend(t)
  PROVE  LogTyped'
<1> USE DEF LogTyped
<1>0. MaxEvents \in Nat /\ born \in Nat /\ last \in Nat /\ cursor \in Nat
  BY Slots, LogTypes
<1> DEFINE w == [at |-> "write", seq |-> last + 1, event |-> born + 1]
<1>1. /\ (task[t].at = "idle" /\ born < MaxEvents) \/ task[t].at = "begin"
      /\ born' = born + 1 /\ task' = [task EXCEPT ![t] = w]
      /\ UNCHANGED <<slots, cursor, last, page, fetch, logged, durable>>
      /\ harm' = Disturbed(t)
  BY DEF BeginAppend, log
<1>2. born + 1 + Extra("ble", {"clear", "begin"})' + Extra("app", {"relog"})' <= MaxEvents + 2
      /\ born + 1 <= MaxEvents + 2 /\ w \in Works
  <2>1. born + 1 <= MaxEvents + 2
    <3>1. Extra("ble", {"clear", "begin"}) \in {0, 1} /\ Extra("app", {"relog"}) \in {0, 1}
      BY DEF Extra
    <3>2. task[t].at = "begin" => Extra("ble", {"clear", "begin"}) = 1
      BY DEF Numbers, Extra, Task
    <3> QED BY <1>0, <1>1, <3>1, <3>2 DEF Numbers
  <2>2. w \in Works
    BY <1>0, <2>1 DEF Works, Ats, Numbers
  <2> HIDE DEF w
  <2>3. task'[t] = w /\ \A o \in Task \ {t} : task'[o] = task[o]
    BY <1>1, <2>2, TaskSet
  <2>4. w.at = "write"
    BY DEF w
  <2>5. CASE task[t].at = "idle" /\ born < MaxEvents
    <3>1. Extra("ble", {"clear", "begin"})' \in {0, 1} /\ Extra("app", {"relog"})' \in {0, 1}
      BY DEF Extra
    <3> QED BY <1>0, <2>1, <2>2, <2>5, <3>1
  <2>6. CASE task[t].at = "begin"
    <3>1. t = "ble"
      BY <2>6 DEF Numbers, Task
    <3>2. task'["app"] = task["app"] /\ task'["ble"] = w
      BY <2>3, <3>1 DEF Task
    <3>3. Extra("app", {"relog"})' = Extra("app", {"relog"}) /\ Extra("ble", {"clear", "begin"})' = 0
      BY <3>2, <2>4 DEF Extra
    <3>4. Extra("ble", {"clear", "begin"}) = 1 /\ Extra("app", {"relog"}) \in {0, 1}
      BY <2>6, <3>1 DEF Extra
    <3> QED BY <1>0, <2>1, <2>2, <3>3, <3>4 DEF Numbers
  <2> QED BY <1>1, <2>5, <2>6
<1>3. task' \in [Task -> Works] /\ task'[t] = w /\ \A o \in Task \ {t} : task'[o] = task[o]
  <2> HIDE DEF w
  <2> QED BY <1>1, <1>2, TaskSet
<1>4. harm' \subseteq {"overlap", "failed"}
  BY <1>1 DEF LogTypeOK, Disturbed
<1>5. LogTypeOK'
  BY <1>0, <1>1, <1>2, <1>3, <1>4 DEF LogTypeOK, Works, Ats
<1>6. cursor' <= born' /\ last' <= born'
  BY <1>0, <1>1 DEF Numbers
<1>7. task["app"].at' \notin {"begin", "clear", "paging"} /\ task["ble"].at' \notin {"relog", "restart"}
  <2>1. w.at = "write" /\ "app" \in Task /\ "ble" \in Task
    BY DEF Task
  <2> HIDE DEF w
  <2> QED BY <1>3, <2>1 DEF Numbers, Task
<1>8. ASSUME NEW o \in Task, task'[o].at \in {"write", "advance", "persist"}
      PROVE  task'[o].seq \in 1 .. born' /\ task'[o].event \in 1 .. born'
  <2>1. CASE o = t
    BY <1>0, <1>1, <1>3, <2>1 DEF Numbers
  <2>2. CASE o # t
    <3>1. task[o].seq \in 1 .. born /\ task[o].event \in 1 .. born
      BY <1>3, <1>8, <2>2 DEF Numbers
    <3> QED BY <1>0, <1>1, <1>3, <2>2, <3>1
  <2> QED BY <2>1, <2>2
<1>9. Numbers'
  BY <1>1, <1>2, <1>6, <1>7, <1>8 DEF Numbers
<1> QED BY <1>5, <1>9

\* The numbers after a step of one task that logs no event.
LEMMA NumbersStep ==
  ASSUME LogTyped, NEW t \in Task, NEW w \in Works, task' = [task EXCEPT ![t] = w], born' = born,
         cursor' <= born, last' <= born,
         t = "app" => w.at \notin {"begin", "clear", "paging"},
         t = "ble" => w.at \notin {"relog", "restart"},
         w.at \in {"clear", "begin"} => task[t].at \in {"clear", "begin"} \/ born < MaxEvents,
         w.at = "relog" => born < MaxEvents,
         w.at \in {"write", "advance", "persist"} => w.seq \in 1 .. born /\ w.event \in 1 .. born
  PROVE  Numbers'
<1> USE DEF LogTyped
<1>0. MaxEvents \in Nat /\ born \in Nat
  BY Slots, LogTypes
<1>1. task'[t] = w /\ \A o \in Task \ {t} : task'[o] = task[o]
  BY TaskSet
<1>2. "app" \in Task /\ "ble" \in Task
  BY DEF Task
<1>3. born + Extra("ble", {"clear", "begin"})' + Extra("app", {"relog"})' <= MaxEvents + 2
  <2>1. Extra("ble", {"clear", "begin"}) \in {0, 1} /\ Extra("app", {"relog"}) \in {0, 1}
        /\ Extra("ble", {"clear", "begin"})' \in {0, 1} /\ Extra("app", {"relog"})' \in {0, 1}
    BY DEF Extra
  <2>2. CASE born < MaxEvents
    BY <1>0, <2>1, <2>2
  <2>3. CASE ~ (born < MaxEvents)
    <3>1. Extra("ble", {"clear", "begin"})' <= Extra("ble", {"clear", "begin"})
      <4>1. CASE t = "ble"
        BY <1>1, <2>3, <4>1 DEF Extra
      <4>2. CASE t # "ble"
        <5>1. task'["ble"] = task["ble"]
          BY <1>1, <1>2, <4>2
        <5> QED BY <5>1 DEF Extra
      <4> QED BY <4>1, <4>2
    <3>2. Extra("app", {"relog"})' <= Extra("app", {"relog"})
      <4>1. CASE t = "app"
        BY <1>1, <2>3, <4>1 DEF Extra
      <4>2. CASE t # "app"
        <5>1. task'["app"] = task["app"]
          BY <1>1, <1>2, <4>2
        <5> QED BY <5>1 DEF Extra
      <4> QED BY <4>1, <4>2
    <3> QED BY <1>0, <2>1, <3>1, <3>2 DEF Numbers
  <2> QED BY <2>2, <2>3
<1>4. task["app"].at' \notin {"begin", "clear", "paging"} /\ task["ble"].at' \notin {"relog", "restart"}
  BY <1>1, <1>2 DEF Numbers
<1>5. ASSUME NEW o \in Task, task'[o].at \in {"write", "advance", "persist"}
      PROVE  task'[o].seq \in 1 .. born /\ task'[o].event \in 1 .. born
  <2>1. CASE o = t
    BY <1>1, <1>5, <2>1
  <2>2. CASE o # t
    BY <1>1, <1>5, <2>2 DEF Numbers
  <2> QED BY <2>1, <2>2
<1> QED BY <1>3, <1>4, <1>5 DEF Numbers

LEMMA WriteTyped ==
  ASSUME LogTyped, NEW t \in Task, WriteSlot(t)
  PROVE  LogTyped'
<1> USE DEF LogTyped
<1> DEFINE w == [task[t] EXCEPT !.at = "advance"]
           r == [seq |-> task[t].seq, event |-> task[t].event]
<1>1. /\ task[t].at = "write" /\ task' = [task EXCEPT ![t].at = "advance"]
      /\ UNCHANGED <<cursor, last, page, fetch, born, logged, durable>>
  BY DEF WriteSlot
<1>2. PICK ok \in WriteOutcomes :
        /\ slots' = IF ok THEN [slots EXCEPT ![SlotOf(task[t].seq)] = r] ELSE slots
        /\ harm' = Outcome(ok)
  BY DEF WriteSlot
<1>3. task[t] \in Works /\ task[t].seq \in 1 .. born /\ task[t].event \in 1 .. born
  BY <1>1, TypedTasks DEF Numbers
<1>4. w \in Works /\ w.at = "advance" /\ w.seq = task[t].seq /\ w.event = task[t].event
  BY <1>3 DEF Works, Ats
<1>5. task' = [task EXCEPT ![t] = w]
  BY <1>1
<1>6. r \in Record
  BY <1>3 DEF Record, Event, LogTypeOK
<1> HIDE DEF w, r
<1>7. slots' \in [Slot -> Record \cup {Blank}]
  BY <1>2, <1>6 DEF LogTypeOK
<1>8. harm' \subseteq {"overlap", "failed"}
  BY <1>2 DEF LogTypeOK, Outcome
<1>9. task' \in [Task -> Works]
  BY <1>4, <1>5, TaskSet
<1>10. LogTypeOK'
  BY <1>1, <1>7, <1>8, <1>9 DEF LogTypeOK, Works, Ats
<1>11. cursor' <= born /\ last' <= born /\ born' = born
  BY <1>1 DEF Numbers
<1>12. Numbers'
  BY <1>3, <1>4, <1>5, <1>11, NumbersStep
<1> QED BY <1>10, <1>12

LEMMA AdvanceTyped ==
  ASSUME LogTyped, NEW t \in Task, Advance(t)
  PROVE  LogTyped'
<1> USE DEF LogTyped
<1> DEFINE w == [task[t] EXCEPT !.at = "persist"]
<1>1. /\ task[t].at = "advance" /\ task' = [task EXCEPT ![t].at = "persist"]
      /\ last' = task[t].seq /\ logged' = Append(logged, task[t].event)
      /\ UNCHANGED <<slots, cursor, page, fetch, born, durable, harm>>
  BY DEF Advance
<1>3. task[t] \in Works /\ task[t].seq \in 1 .. born /\ task[t].event \in 1 .. born
  BY <1>1, TypedTasks DEF Numbers
<1>4. w \in Works /\ w.at = "persist" /\ w.seq = task[t].seq /\ w.event = task[t].event
  BY <1>3 DEF Works, Ats
<1>5. task' = [task EXCEPT ![t] = w]
  BY <1>1
<1> HIDE DEF w
<1>6. born \in 0 .. MaxEvents + 2 /\ MaxEvents \in Nat
  BY Slots DEF LogTypeOK
<1>7. task[t].event \in Event /\ task[t].seq \in 0 .. MaxEvents + 2 /\ task[t].seq <= born
  BY <1>3, <1>6 DEF Event
<1>8. logged' \in Seq(Event)
  BY <1>1, <1>7 DEF LogTypeOK
<1>9. task' \in [Task -> Works]
  BY <1>4, <1>5, TaskSet
<1>10. LogTypeOK'
  BY <1>1, <1>7, <1>8, <1>9 DEF LogTypeOK, Works, Ats
<1>11. cursor' <= born /\ last' <= born /\ born' = born
  BY <1>1, <1>7 DEF Numbers
<1>12. Numbers'
  BY <1>3, <1>4, <1>5, <1>11, NumbersStep
<1> QED BY <1>10, <1>12

LEMMA PersistTyped ==
  ASSUME LogTyped, NEW t \in Task, Persist(t)
  PROVE  LogTyped'
<1> USE DEF LogTyped
<1>1. /\ task[t].at = "persist" /\ task' = [task EXCEPT ![t] = Idle]
      /\ (cursor' = task[t].seq /\ durable' = logged) \/ UNCHANGED <<cursor, durable>>
      /\ UNCHANGED <<slots, last, page, fetch, born, logged, harm>>
  BY DEF Persist
<1>2. task[t].seq \in 1 .. born /\ Idle \in Works /\ Idle.at = "idle"
  BY <1>1, TypedTasks DEF Numbers, Idle
<1>3. born \in 0 .. MaxEvents + 2 /\ MaxEvents \in Nat
  BY Slots DEF LogTypeOK
<1>4. cursor' <= born /\ last' <= born /\ born' = born
  BY <1>1, <1>2, <1>3 DEF Numbers
<1>5. task' \in [Task -> Works]
  BY <1>1, <1>2, TaskSet
<1>6. cursor' \in 0 .. MaxEvents + 2 /\ durable' \in Seq(Event)
  BY <1>1, <1>2, <1>3 DEF LogTypeOK
<1>7. LogTypeOK'
  BY <1>1, <1>5, <1>6 DEF LogTypeOK, Works, Ats
<1>8. Numbers'
  BY <1>1, <1>2, <1>4, NumbersStep
<1> QED BY <1>7, <1>8

LEMMA BeginClearTyped ==
  ASSUME LogTyped, BeginClear
  PROVE  LogTyped'
<1> USE DEF LogTyped
<1> DEFINE w == [task["ble"] EXCEPT !.at = "clear"]
<1>1. /\ born < MaxEvents /\ task' = [task EXCEPT !["ble"].at = "clear"] /\ last' = 0 /\ logged' = <<>>
      /\ harm' = Disturbed("ble")
      /\ UNCHANGED <<slots, cursor, page, fetch, born, durable>>
  BY DEF BeginClear
<1>2. "ble" \in Task /\ task["ble"] \in Works
  BY TypedTasks DEF Task
<1>3. w \in Works /\ w.at = "clear"
  BY <1>2 DEF Works, Ats
<1>4. task' = [task EXCEPT !["ble"] = w]
  BY <1>1
<1> HIDE DEF w
<1>5. task' \in [Task -> Works]
  BY <1>2, <1>3, <1>4, TaskSet
<1>6. born \in 0 .. MaxEvents + 2 /\ MaxEvents \in Nat
  BY Slots DEF LogTypeOK
<1>7. LogTypeOK'
  BY <1>1, <1>5, <1>6 DEF LogTypeOK, Works, Ats, Disturbed
<1>8. cursor' <= born /\ last' <= born /\ born' = born
  BY <1>1, <1>6 DEF Numbers
<1>9. Numbers'
  BY <1>1, <1>2, <1>3, <1>4, <1>8, NumbersStep
<1> QED BY <1>7, <1>9

LEMMA PersistClearTyped ==
  ASSUME LogTyped, PersistClear
  PROVE  LogTyped'
<1> USE DEF LogTyped
<1> DEFINE w == [task["ble"] EXCEPT !.at = "begin"]
<1>1. /\ task["ble"].at = "clear" /\ task' = [task EXCEPT !["ble"].at = "begin"] /\ durable' = logged
      /\ UNCHANGED <<slots, last, page, fetch, born, logged>>
  BY DEF PersistClear
<1>a. PICK ok \in WriteOutcomes : cursor' = (IF ok THEN 0 ELSE cursor) /\ harm' = Outcome(ok)
  BY DEF PersistClear
<1>2. "ble" \in Task /\ task["ble"] \in Works
  BY TypedTasks DEF Task
<1>3. w \in Works /\ w.at = "begin"
  BY <1>2 DEF Works, Ats
<1>4. task' = [task EXCEPT !["ble"] = w]
  BY <1>1
<1> HIDE DEF w
<1>5. task' \in [Task -> Works]
  BY <1>2, <1>3, <1>4, TaskSet
<1>6. born \in 0 .. MaxEvents + 2 /\ MaxEvents \in Nat
  BY Slots DEF LogTypeOK
<1>7. LogTypeOK'
  BY <1>1, <1>a, <1>5, <1>6 DEF LogTypeOK, Works, Ats, Outcome
<1>8. cursor' <= born /\ last' <= born /\ born' = born
  BY <1>1, <1>a, <1>6 DEF Numbers
<1>9. Numbers'
  BY <1>1, <1>2, <1>3, <1>4, <1>8, NumbersStep
<1> QED BY <1>7, <1>9

LEMMA EraseTyped ==
  ASSUME LogTyped, Erase
  PROVE  LogTyped'
<1> USE DEF LogTyped
<1>0. "app" \in Task /\ task["app"] \in Works
  BY TypedTasks DEF Task
<1>6. born \in 0 .. MaxEvents + 2 /\ MaxEvents \in Nat
  BY Slots DEF LogTypeOK
<1>1. born < MaxEvents /\ UNCHANGED <<last, page, fetch, born>>
  BY DEF Erase
<1>2. ASSUME NEW a \in {"relog", "restart"}, task' = [task EXCEPT !["app"].at = a],
             cursor' = 0 \/ cursor' = cursor
      PROVE  task' \in [Task -> Works] /\ Numbers'
  <2> DEFINE w == [task["app"] EXCEPT !.at = a]
  <2>1. w \in Works /\ w.at = a
    BY <1>0 DEF Works, Ats
  <2>2. task' = [task EXCEPT !["app"] = w]
    BY <1>2
  <2> HIDE DEF w
  <2>3. task' \in [Task -> Works]
    BY <1>0, <2>1, <2>2, TaskSet
  <2>4. cursor' <= born /\ last' <= born /\ born' = born
    BY <1>1, <1>2, <1>6 DEF Numbers
  <2>5. Numbers'
    BY <1>0, <1>1, <2>1, <2>2, <2>4, NumbersStep
  <2> QED BY <2>3, <2>5
<1>3. CASE /\ slots' = [i \in Slot |-> Blank] /\ cursor' = 0 /\ logged' = <<>> /\ durable' = <<>>
           /\ harm' = Disturbed("app") /\ task' = [task EXCEPT !["app"].at = "relog"]
  <2>1. task' \in [Task -> Works] /\ Numbers'
    BY <1>2, <1>3
  <2>2. LogTypeOK'
    BY <1>1, <1>3, <1>6, <2>1 DEF LogTypeOK, Works, Ats, Disturbed
  <2> QED BY <2>1, <2>2
<1>4. CASE /\ task' = [task EXCEPT !["app"].at = "restart"]
           /\ UNCHANGED <<slots, cursor, logged, durable, harm>>
  <2>1. task' \in [Task -> Works] /\ Numbers'
    BY <1>2, <1>4
  <2>2. LogTypeOK'
    BY <1>1, <1>4, <2>1 DEF LogTypeOK, Works, Ats
  <2> QED BY <2>1, <2>2
<1> QED BY <1>3, <1>4 DEF Erase

LEMMA RelogTyped ==
  ASSUME LogTyped, Relog
  PROVE  LogTyped'
<1> USE DEF LogTyped
<1> DEFINE w == [task["app"] EXCEPT !.at = "restart"]
<1>1. /\ task["app"].at = "relog" /\ task' = [task EXCEPT !["app"].at = "restart"]
      /\ born' = born + 1 /\ cursor' = 1 /\ logged' = <<born + 1>> /\ durable' = logged'
      /\ slots' = [slots EXCEPT ![0] = [seq |-> 1, event |-> born + 1]]
      /\ UNCHANGED <<last, page, fetch, harm>>
  BY DEF Relog
<1>2. "app" \in Task /\ "ble" \in Task /\ task["app"] \in Works
  BY TypedTasks DEF Task
<1>3. w \in Works /\ w.at = "restart"
  BY <1>2 DEF Works, Ats
<1>4. task' = [task EXCEPT !["app"] = w]
  BY <1>1
<1> HIDE DEF w
<1>5. task' \in [Task -> Works] /\ task'["app"] = w /\ task'["ble"] = task["ble"]
  BY <1>2, <1>3, <1>4, TaskSet
<1>6. born \in Nat /\ MaxEvents \in Nat /\ cursor \in Nat /\ last \in Nat
  BY Slots, LogTypes
<1>7. born + 1 <= MaxEvents + 2
      /\ born + 1 + Extra("ble", {"clear", "begin"})' + Extra("app", {"relog"})' <= MaxEvents + 2
  <2>1. Extra("app", {"relog"}) = 1 /\ Extra("app", {"relog"})' = 0
    BY <1>1, <1>3, <1>5 DEF Extra
  <2>2. Extra("ble", {"clear", "begin"})' = Extra("ble", {"clear", "begin"})
        /\ Extra("ble", {"clear", "begin"}) \in {0, 1}
    BY <1>5 DEF Extra
  <2> QED BY <1>6, <2>1, <2>2 DEF Numbers
<1>8. born + 1 \in Event /\ 1 \in Event /\ 1 \in 0 .. MaxEvents + 2 /\ born + 1 \in 0 .. MaxEvents + 2
  BY <1>6, <1>7 DEF Event
<1>9. slots' \in [Slot -> Record \cup {Blank}]
  <2>1. [seq |-> 1, event |-> born + 1] \in Record
    BY <1>8 DEF Record
  <2> QED BY <1>1, <2>1 DEF LogTypeOK
<1>10. LogTypeOK'
  BY <1>1, <1>5, <1>8, <1>9 DEF LogTypeOK, Works, Ats
<1>11. cursor' <= born' /\ last' <= born'
  BY <1>1, <1>6 DEF Numbers
<1>12. \A o \in Task : task'[o].at \in {"write", "advance", "persist"} =>
          task'[o].seq \in 1 .. born' /\ task'[o].event \in 1 .. born'
  <2>1. \A k \in 1 .. born : k \in 1 .. born'
    BY <1>1, <1>6
  <2> QED BY <1>3, <1>5, <2>1 DEF Numbers, Task
<1>13. Numbers'
  BY <1>1, <1>3, <1>5, <1>7, <1>11, <1>12 DEF Numbers
<1> QED BY <1>10, <1>13

LEMMA RestartTyped ==
  ASSUME LogTyped, Restart
  PROVE  LogTyped'
<1> USE DEF LogTyped
<1>1. /\ last' = cursor /\ task' = [t \in Task |-> Idle] /\ page' = NoPage
      /\ fetch' = (IF fetch.at = "waiting" THEN [fetch EXCEPT !.at = "failed"] ELSE fetch)
      /\ logged' = durable /\ UNCHANGED <<slots, cursor, born, durable, harm>>
  BY DEF Restart
<1>2. MaxEvents \in Nat /\ SlotCount \in Nat /\ Idle \in Works
  BY Slots, TypedTasks
<1>3. page' \in [since : 0 .. MaxEvents + 2, sent : Nat, total : 0 .. SlotCount]
  BY <1>1, <1>2 DEF NoPage
<1>4. fetch' \in [at : {"none", "waiting", "done", "failed"}, records : Seq(Record),
                  lost : BOOLEAN, torn : BOOLEAN, asof : SUBSET Event]
  BY <1>1 DEF LogTypeOK
<1>5. task' \in [Task -> Works]
  BY <1>1, <1>2
<1>6. LogTypeOK'
  BY <1>1, <1>3, <1>4, <1>5 DEF LogTypeOK, Works, Ats
<1>7. \A t \in Task : task'[t].at = "idle"
  BY <1>1 DEF Idle
<1>8. "app" \in Task /\ "ble" \in Task /\ born \in Nat
  BY LogTypes DEF Task
<1>9. Extra("ble", {"clear", "begin"})' = 0 /\ Extra("app", {"relog"})' = 0
  BY <1>7, <1>8 DEF Extra
<1>10. born <= MaxEvents + 2
  BY DEF LogTypeOK
<1>11. Numbers'
  BY <1>1, <1>2, <1>7, <1>8, <1>9, <1>10 DEF Numbers
<1> QED BY <1>6, <1>11

Fetches == [at : {"none", "waiting", "done", "failed"}, records : Seq(Record),
            lost : BOOLEAN, torn : BOOLEAN, asof : SUBSET Event]

LEMMA CountType == ASSUME LogTypeOK, NEW since \in Nat PROVE CountSince(since) \in 0 .. SlotCount
<1>1. last \in Nat /\ SlotCount \in Nat
  BY LogTypes, Slots
<1> DEFINE start == EffectiveStart(since)
<1>2. /\ start \in Nat /\ EffectiveStart(0) \in Nat /\ EffectiveStart(0) <= start
      /\ EffectiveStart(0) = IF last > SlotCount THEN last - SlotCount ELSE 0
  BY <1>1, StartType
<1>3. CountSince(since) = IF last > start THEN last - start ELSE 0
  BY DEF CountSince
<1> HIDE DEF start
<1> QED BY <1>1, <1>2, <1>3

LEMMA EventsType == ASSUME NEW s \in Seq(Record) PROVE Events(s) \in SUBSET Event
<1>1. \A i \in DOMAIN s : s[i] \in Record
  OBVIOUS
<1> QED BY <1>1, SeqOf DEF Events

LEMMA GetTyped ==
  ASSUME LogTyped, Get
  PROVE  LogTyped'
<1> USE DEF LogTyped
<1> DEFINE w == [task["ble"] EXCEPT !.at = "paging"]
           asked == Events(Readable(0))
           count == CountSince(0)
<1>1. /\ task["ble"].at = "idle" /\ task' = [task EXCEPT !["ble"].at = "paging"]
      /\ fetch' = [NoFetch EXCEPT !.at = "waiting", !.asof = asked]
      /\ page' = [since |-> 0, sent |-> 0, total |-> count]
      /\ UNCHANGED <<slots, cursor, last, born, logged, durable, harm>>
  BY DEF Get, log, logHistory
<1>2. "ble" \in Task /\ task["ble"] \in Works
  BY TypedTasks DEF Task
<1>3. w \in Works /\ w.at = "paging"
  BY <1>2 DEF Works, Ats
<1>4. task' = [task EXCEPT !["ble"] = w]
  BY <1>1
<1>5. count \in 0 .. SlotCount /\ asked \in SUBSET Event
  BY CountType, ReadLists, EventsType DEF Listed
<1> HIDE DEF w, asked, count
<1>6. task' \in [Task -> Works]
  BY <1>2, <1>3, <1>4, TaskSet
<1>7. born \in Nat /\ MaxEvents \in Nat
  BY Slots, LogTypes
<1>8. fetch' \in Fetches
  <2>1. fetch' = [at |-> "waiting", records |-> <<>>, lost |-> FALSE, torn |-> FALSE, asof |-> asked]
    BY <1>1 DEF NoFetch
  <2>2. <<>> \in Seq(Record)
    OBVIOUS
  <2> QED BY <1>5, <2>1, <2>2 DEF Fetches
<1>9. page' \in [since : 0 .. MaxEvents + 2, sent : Nat, total : 0 .. SlotCount]
  BY <1>1, <1>5, <1>7
<1>10. LogTypeOK'
  BY <1>1, <1>6, <1>8, <1>9 DEF LogTypeOK, Works, Ats, Fetches
<1>11. cursor' <= born /\ last' <= born /\ born' = born
  BY <1>1 DEF Numbers
<1>12. Numbers'
  BY <1>2, <1>3, <1>4, <1>11, NumbersStep
<1> QED BY <1>10, <1>12

\* The page that is sent, whether or not it is delivered.
Sends(got, delivered) ==
  LET records == fetch.records \o (IF delivered THEN got ELSE <<>>)
  IN  /\ page' = [page EXCEPT !.since = NextSince(got), !.sent = @ + Len(got)]
      /\ task' = [task EXCEPT !["ble"].at = IF EndsReply(got) THEN "idle" ELSE "paging"]
      /\ fetch' = [fetch EXCEPT
                     !.records = records,
                     !.lost = @ \/ ~ delivered,
                     !.torn = @ \/ Unsettled,
                     !.at = IF @ = "waiting" /\ delivered /\ Assembled(records)
                            THEN "done" ELSE @]

\* The fields that a page changes.
PageSent(got, delivered, records) ==
  /\ task["ble"].at = "paging"
  /\ records = IF delivered THEN fetch.records \o got ELSE fetch.records
  /\ records \in Seq(Record)
  /\ page'.since = NextSince(got) /\ page'.sent = page.sent + Len(got) /\ page'.total = page.total
  /\ task'["ble"].at = (IF EndsReply(got) THEN "idle" ELSE "paging") /\ task'["app"] = task["app"]
  /\ fetch'.records = records /\ fetch'.asof = fetch.asof
  /\ fetch'.lost = (fetch.lost \/ ~ delivered)
  /\ fetch'.torn = (fetch.torn \/ Unsettled)
  /\ fetch'.at = (IF fetch.at = "waiting" /\ delivered /\ Assembled(records) THEN "done" ELSE fetch.at)
  /\ UNCHANGED <<slots, cursor, last, born, logged, durable, harm>>

LEMMA SendPageTyped ==
  ASSUME LogTyped, SendPage
  PROVE  /\ LogTyped'
         /\ \E delivered \in BOOLEAN, records \in Seq(Record) : PageSent(Read(page.since), delivered, records)
<1> USE DEF LogTyped
<1> DEFINE got == Read(page.since)
<1>1. /\ task["ble"].at = "paging" /\ \E delivered \in BOOLEAN : Sends(got, delivered)
      /\ UNCHANGED <<slots, cursor, last, born, logged, durable, harm>>
  BY DEF SendPage, log, logHistory, Sends
<1>2. PICK delivered \in BOOLEAN : Sends(got, delivered)
  BY <1>1
<1>3. page.since \in Nat /\ page.sent \in Nat /\ fetch.records \in Seq(Record)
  BY LogTypes
<1>4. got \in Seq(Record)
  BY <1>3, ReadLists DEF Listed
<1> HIDE DEF got
<1> DEFINE a == IF EndsReply(got) THEN "idle" ELSE "paging"
           w == [task["ble"] EXCEPT !.at = a]
           records == IF delivered THEN fetch.records \o got ELSE fetch.records
<1>5. "ble" \in Task /\ task["ble"] \in Works
  BY TypedTasks DEF Task
<1>6. w \in Works /\ w.at = a
  BY <1>5 DEF Works, Ats
<1>7. task' = [task EXCEPT !["ble"] = w]
  BY <1>2 DEF Sends
<1> HIDE DEF w
<1>8. task' \in [Task -> Works] /\ task'["ble"] = w /\ task'["app"] = task["app"]
  BY <1>5, <1>6, <1>7, TaskSet DEF Task
<1>9. MaxEvents \in Nat /\ Len(got) \in Nat
  BY <1>4, Slots
<1>10. NextSince(got) \in 0 .. MaxEvents + 2
  <2>1. CASE got = <<>>
    BY <2>1 DEF NextSince, LogTypeOK
  <2>2. CASE got # <<>>
    <3>1. got[Len(got)] \in Record
      BY <1>4, <2>2
    <3>2. got[Len(got)].seq \in Event
      BY <3>1 DEF Record
    <3> QED BY <1>9, <2>2, <3>2 DEF NextSince, Event
  <2> QED BY <2>1, <2>2
<1>11. /\ page' = [page EXCEPT !.since = NextSince(got), !.sent = page.sent + Len(got)]
  BY <1>2 DEF Sends
<1>12. page' \in [since : 0 .. MaxEvents + 2, sent : Nat, total : 0 .. SlotCount]
       /\ page'.since = NextSince(got) /\ page'.sent = page.sent + Len(got) /\ page'.total = page.total
  <2>1. page \in [since : 0 .. MaxEvents + 2, sent : Nat, total : 0 .. SlotCount]
    BY DEF LogTypeOK
  <2>2. page.sent + Len(got) \in Nat
    BY <1>3, <1>9
  <2> DEFINE a1 == NextSince(got)
             b1 == page.sent + Len(got)
  <2>3. a1 \in 0 .. MaxEvents + 2 /\ b1 \in Nat /\ page' = [page EXCEPT !.since = a1, !.sent = b1]
    BY <1>10, <1>11, <2>2
  <2> HIDE DEF a1, b1
  <2>4. page' \in [since : 0 .. MaxEvents + 2, sent : Nat, total : 0 .. SlotCount]
        /\ page'.since = a1 /\ page'.sent = b1 /\ page'.total = page.total
    BY <2>1, <2>3
  <2> QED BY <2>4 DEF a1, b1
<1>13. records \in Seq(Record) /\ records = fetch.records \o (IF delivered THEN got ELSE <<>>)
  <2>1. fetch.records \o <<>> = fetch.records
    BY <1>3, ConcatEmptySeq
  <2>2. fetch.records \o got \in Seq(Record)
    BY <1>3, <1>4
  <2> QED BY <1>3, <2>1, <2>2
<1> DEFINE b == IF fetch.at = "waiting" /\ delivered /\ Assembled(records) THEN "done" ELSE fetch.at
           lost == fetch.lost \/ ~ delivered
           torn == fetch.torn \/ Unsettled
<1>14. fetch' = [fetch EXCEPT !.records = records, !.lost = lost, !.torn = torn, !.at = b]
  BY <1>2, <1>13 DEF Sends
<1>15. fetch \in Fetches
  BY DEF LogTypeOK, Fetches
<1>16. b \in {"none", "waiting", "done", "failed"}
  BY <1>15 DEF Fetches
<1>17. lost \in BOOLEAN /\ torn \in BOOLEAN
  BY <1>2
<1> HIDE DEF b, lost, torn, records
<1>18. fetch' \in Fetches /\ fetch'.records = records /\ fetch'.lost = lost /\ fetch'.torn = torn
       /\ fetch'.at = b /\ fetch'.asof = fetch.asof
  BY <1>13, <1>14, <1>15, <1>16, <1>17 DEF Fetches
<1>19. LogTypeOK'
  BY <1>1, <1>8, <1>12, <1>18 DEF LogTypeOK, Works, Ats, Fetches
<1>20. cursor' <= born /\ last' <= born /\ born' = born
  BY <1>1 DEF Numbers
<1>21. Numbers'
  <2>1. a \in {"idle", "paging"}
    OBVIOUS
  <2> HIDE DEF a
  <2> QED BY <1>5, <1>6, <1>7, <1>20, <2>1, NumbersStep
<1>22. PageSent(got, delivered, records)
  <2>1. records = IF delivered THEN fetch.records \o got ELSE fetch.records
    BY DEF records
  <2>2. fetch'.lost = (fetch.lost \/ ~ delivered) /\ fetch'.torn = (fetch.torn \/ Unsettled)
    BY <1>18 DEF lost, torn
  <2>3. fetch'.at = (IF fetch.at = "waiting" /\ delivered /\ Assembled(records) THEN "done" ELSE fetch.at)
    BY <1>18 DEF b
  <2> QED BY <1>1, <1>6, <1>8, <1>12, <1>13, <1>18, <2>1, <2>2, <2>3 DEF PageSent
<1> QED BY <1>13, <1>19, <1>21, <1>22 DEF got

LEMMA FetchTimeoutTyped ==
  ASSUME LogTyped, FetchTimeout
  PROVE  LogTyped'
<1> USE DEF LogTyped
<1>1. fetch' = [fetch EXCEPT !.at = "failed"]
      /\ UNCHANGED <<slots, cursor, last, task, page, born, logged, durable, harm>>
  BY DEF FetchTimeout, log, logHistory
<1>2. fetch' \in Fetches
  BY <1>1 DEF LogTypeOK, Fetches
<1>3. LogTypeOK'
  BY <1>1, <1>2 DEF LogTypeOK, Fetches
<1>4. Numbers'
  BY <1>1 DEF Numbers, Extra
<1> QED BY <1>3, <1>4

LEMMA StutterTyped ==
  ASSUME LogTyped, UNCHANGED logVars
  PROVE  LogTyped'
BY DEF LogTyped, LogTypeOK, Numbers, Extra, logVars, log, logHistory

LEMMA NextTyped == LogTyped /\ [LogNext]_logVars => LogTyped'
<1> SUFFICES ASSUME LogTyped, [LogNext]_logVars PROVE LogTyped'
  OBVIOUS
<1>1. ASSUME NEW t \in Task, AppendSteps(t) PROVE LogTyped'
  BY <1>1, AppendTyped, WriteTyped, AdvanceTyped, PersistTyped DEF AppendSteps
<1>2. CASE BeginClear
  BY <1>2, BeginClearTyped
<1>3. CASE PersistClear
  BY <1>3, PersistClearTyped
<1>4. CASE Erase
  BY <1>4, EraseTyped
<1>5. CASE Relog
  BY <1>5, RelogTyped
<1>6. CASE Restart
  BY <1>6, RestartTyped
<1>7. CASE Get
  BY <1>7, GetTyped
<1>8. CASE SendPage
  BY <1>8, SendPageTyped
<1>9. CASE FetchTimeout
  BY <1>9, FetchTimeoutTyped
<1>10. CASE UNCHANGED logVars
  BY <1>10, StutterTyped
<1> QED BY <1>1, <1>2, <1>3, <1>4, <1>5, <1>6, <1>7, <1>8, <1>9, <1>10 DEF LogNext

-----------------------------------------------------------------------------
(* The pages of a reply                                                    *)

Climbs(records) == \A i, j \in DOMAIN records : i < j => records[i].seq < records[j].seq
Below(records, m) == \A i \in DOMAIN records : records[i].seq <= m

\* A list of numbers up to m, continued by one of numbers above m, is in order.
LEMMA Joined ==
  ASSUME NEW a \in Seq(Record), NEW b \in Seq(Record), NEW m \in Nat, NEW k \in Nat, m <= k,
         Climbs(a), Climbs(b), Below(a, m), Below(b, k), \A i \in DOMAIN b : m < b[i].seq
  PROVE  Climbs(a \o b) /\ Below(a \o b, k)
<1> DEFINE c == a \o b
           p == Len(a)
           q == Len(b)
<1>1. p \in Nat /\ q \in Nat /\ DOMAIN a = 1 .. p /\ DOMAIN b = 1 .. q /\ DOMAIN c = 1 .. p + q
  OBVIOUS
<1>2. \A i \in 1 .. p + q : c[i] = IF i <= p THEN a[i] ELSE b[i - p]
  OBVIOUS
<1>3. (\A i \in 1 .. p : a[i].seq \in Nat) /\ (\A i \in 1 .. q : b[i].seq \in Nat)
  <2>1. (\A i \in 1 .. p : a[i] \in Record) /\ (\A i \in 1 .. q : b[i] \in Record)
    OBVIOUS
  <2> QED BY <2>1, SeqOf
<1> HIDE DEF c, p, q
<1>4. ASSUME NEW i \in 1 .. p + q
      PROVE  /\ i <= p => i \in 1 .. p /\ c[i] = a[i] /\ c[i].seq <= m
             /\ i > p => i - p \in 1 .. q /\ c[i] = b[i - p] /\ m < c[i].seq /\ c[i].seq <= k
             /\ c[i].seq \in Nat
  <2>1. CASE i <= p
    <3>1. i \in 1 .. p /\ c[i] = a[i]
      BY <1>1, <1>2, <2>1
    <3> QED BY <1>1, <1>3, <2>1, <3>1 DEF Below
  <2>2. CASE i > p
    <3>1. i - p \in 1 .. q /\ c[i] = b[i - p]
      BY <1>1, <1>2, <2>2
    <3> QED BY <1>1, <1>3, <2>2, <3>1 DEF Below
  <2> QED BY <1>1, <2>1, <2>2
<1>5. ASSUME NEW i \in 1 .. p + q, NEW j \in 1 .. p + q, i < j PROVE c[i].seq < c[j].seq
  <2>1. CASE j <= p
    <3>1. i <= p
      BY <1>1, <1>5, <2>1
    <3> QED BY <1>1, <1>4, <1>5, <2>1, <3>1 DEF Climbs
  <2>2. CASE i <= p /\ j > p
    BY <1>1, <1>4, <1>5, <2>2
  <2>3. CASE i > p /\ j > p
    <3>1. i - p < j - p
      BY <1>1, <1>5
    <3> QED BY <1>1, <1>4, <1>5, <2>3, <3>1 DEF Climbs
  <2> QED BY <1>1, <2>1, <2>2, <2>3
<1>6. ASSUME NEW i \in 1 .. p + q PROVE c[i].seq <= k
  BY <1>1, <1>4, <1>6
<1> QED BY <1>1, <1>5, <1>6 DEF Climbs, Below, c

\* A page: records of the ring after page.since, in order; the next page starts
\* after them.
LEMMA PageFacts ==
  ASSUME LogTypeOK, NEW got, got = Read(page.since)
  PROVE  /\ got \in Seq(Record) /\ Len(got) \in Nat /\ Len(got) <= Batch
         /\ NextSince(got) \in Nat /\ page.since <= NextSince(got)
         /\ got = <<>> => NextSince(got) = page.since
         /\ got # <<>> => NextSince(got) = got[Len(got)].seq /\ NextSince(got) <= last
         /\ Climbs(got) /\ Below(got, NextSince(got))
         /\ \A i \in DOMAIN got :
              /\ page.since < got[i].seq /\ EffectiveStart(page.since) < got[i].seq /\ got[i].seq <= last
              /\ got[i] = slots[SlotOf(got[i].seq)]
<1>1. page.since \in Nat /\ last \in Nat
  BY LogTypes
<1>2. Listed(got, EffectiveStart(page.since), last, Batch)
  BY <1>1, ReadLists
<1>3. got \in Seq(Record) /\ Len(got) \in Nat /\ DOMAIN got = 1 .. Len(got) /\ Len(got) <= Batch
  BY <1>2 DEF Listed
<1>4. EffectiveStart(page.since) \in Nat /\ page.since <= EffectiveStart(page.since)
  BY <1>1, StartType
<1>5. ASSUME NEW i \in DOMAIN got
      PROVE  /\ got[i].seq \in Nat
             /\ page.since < got[i].seq /\ EffectiveStart(page.since) < got[i].seq /\ got[i].seq <= last
             /\ got[i] = slots[SlotOf(got[i].seq)]
  <2>1. got[i] \in Record
    BY <1>3
  <2>2. got[i].seq \in Nat
    BY <2>1, SeqOf
  <2>3. EffectiveStart(page.since) < got[i].seq /\ got[i].seq <= last /\ got[i] = slots[SlotOf(got[i].seq)]
    BY <1>2, <1>3 DEF Listed
  <2> QED BY <1>1, <1>4, <2>2, <2>3
<1>6. Climbs(got)
  BY <1>2, <1>3 DEF Climbs, Listed
<1>7. CASE got = <<>>
  <2>1. NextSince(got) = page.since /\ Len(got) = 0
    BY <1>7 DEF NextSince
  <2>2. DOMAIN got = {}
    BY <1>3, <2>1
  <2>3. Below(got, NextSince(got))
    BY <2>2 DEF Below
  <2> QED BY <1>1, <1>3, <1>5, <1>6, <1>7, <2>1, <2>3
<1>8. CASE got # <<>>
  <2>1. Len(got) \in DOMAIN got /\ NextSince(got) = got[Len(got)].seq
    BY <1>3, <1>8 DEF NextSince
  <2>2. Below(got, got[Len(got)].seq)
    <3> SUFFICES ASSUME NEW i \in DOMAIN got PROVE got[i].seq <= got[Len(got)].seq
      BY DEF Below
    <3>1. CASE i = Len(got)
      BY <1>5, <2>1, <3>1
    <3>2. CASE i # Len(got)
      <4>1. i < Len(got)
        BY <1>3, <3>2
      <4>2. got[i].seq < got[Len(got)].seq
        BY <1>6, <2>1, <4>1 DEF Climbs
      <4> QED BY <1>5, <2>1, <4>2
    <3> QED BY <3>1, <3>2
  <2> QED BY <1>1, <1>3, <1>5, <1>6, <1>8, <2>1, <2>2
<1> QED BY <1>7, <1>8

\* What the phone holds after a page, in order; whether the reply goes on.
LEMMA PageAsked ==
  ASSUME LogTypeOK, Asked(page, fetch), NEW got, got = Read(page.since),
         NEW delivered \in BOOLEAN, NEW records, PageSent(got, delivered, records)
  PROVE  /\ records \in Seq(Record)
         /\ Climbs(records) /\ Below(records, page'.since)
         /\ ~ EndsReply(got) => Asked(page', fetch')
         /\ ~ fetch'.lost => Len(records) = page'.sent /\ ~ fetch.lost /\ delivered
         /\ fetch'.at = "done" => ~ fetch'.lost /\ Len(records) >= page.total
         /\ ~ fetch'.lost /\ Assembled(records) => fetch'.at = "done"
<1>1. /\ got \in Seq(Record) /\ Len(got) \in Nat /\ Len(got) <= Batch
      /\ NextSince(got) \in Nat /\ page.since <= NextSince(got)
      /\ Climbs(got) /\ Below(got, NextSince(got))
      /\ \A i \in DOMAIN got : page.since < got[i].seq
  BY PageFacts
<1>2. /\ fetch.records \in Seq(Record) /\ page.since \in Nat /\ page.sent \in Nat /\ page.total \in Nat
      /\ Batch \in Nat /\ Batch > 0 /\ Len(fetch.records) \in Nat
  BY LogTypes, Slots
<1>3. /\ Climbs(fetch.records) /\ Below(fetch.records, page.since) /\ fetch.at = "waiting"
      /\ (page.sent = 0 \/ page.sent < page.total)
      /\ fetch.lost => Len(fetch.records) + Batch <= page.sent
      /\ ~ fetch.lost => Len(fetch.records) = page.sent
  BY DEF Asked, Climbs, Below
<1>4. /\ records = IF delivered THEN fetch.records \o got ELSE fetch.records
      /\ page'.since = NextSince(got) /\ page'.sent = page.sent + Len(got) /\ page'.total = page.total
      /\ fetch'.records = records /\ fetch'.lost = (fetch.lost \/ ~ delivered)
      /\ fetch'.at = (IF delivered /\ Assembled(records) THEN "done" ELSE "waiting")
  BY <1>3 DEF PageSent
<1>5. Climbs(records) /\ Below(records, page'.since) /\ records \in Seq(Record)
      /\ Len(records) = IF delivered THEN Len(fetch.records) + Len(got) ELSE Len(fetch.records)
  <2>1. CASE delivered
    <3>1. records = fetch.records \o got
      BY <1>4, <2>1
    <3>2. Climbs(fetch.records \o got) /\ Below(fetch.records \o got, NextSince(got))
      BY <1>1, <1>2, <1>3, Joined
    <3>3. fetch.records \o got \in Seq(Record) /\ Len(fetch.records \o got) = Len(fetch.records) + Len(got)
      BY <1>1, <1>2
    <3> QED BY <1>4, <2>1, <3>1, <3>2, <3>3
  <2>2. CASE ~ delivered
    <3>1. \A i \in DOMAIN fetch.records : fetch.records[i].seq \in Nat
      <4>1. \A i \in DOMAIN fetch.records : fetch.records[i] \in Record
        BY <1>2
      <4> QED BY <4>1, SeqOf
    <3>2. Below(fetch.records, NextSince(got))
      BY <1>1, <1>2, <1>3, <3>1 DEF Below
    <3> QED BY <1>2, <1>3, <1>4, <2>2, <3>2
  <2> QED BY <2>1, <2>2
<1>6. ~ fetch'.lost => Len(records) = page'.sent /\ ~ fetch.lost /\ delivered
  BY <1>3, <1>4, <1>5
<1>7. fetch'.at = "done" => ~ fetch'.lost /\ Len(records) >= page.total
  <2> SUFFICES ASSUME delivered, Len(records) >= page.total PROVE ~ fetch.lost
    BY <1>4 DEF Assembled
  <2>1. Len(records) = Len(fetch.records) + Len(got)
    BY <1>5
  <2>2. Len(fetch.records) + Batch > page.sent
    <3>1. CASE page.sent = 0
      BY <1>2, <3>1
    <3>2. CASE page.sent < page.total
      <4> DEFINE L == Len(fetch.records)
                 G == Len(got)
                 T == page.total
                 U == page.sent
      <4>1. L \in Nat /\ G \in Nat /\ G <= Batch /\ T \in Nat /\ U \in Nat /\ U < T /\ Batch \in Nat
        BY <1>1, <1>2, <3>2
      <4>2. T <= L + G
        BY <2>1
      <4> HIDE DEF L, G, T, U
      <4>3. L + Batch > U
        BY <4>1, <4>2
      <4> QED BY <4>3 DEF L, U
    <3> QED BY <1>3, <3>1, <3>2
  <2> QED BY <1>2, <1>3, <2>2
<1>8. ASSUME ~ EndsReply(got) PROVE Asked(page', fetch')
  <2>1. Len(got) = Batch /\ page.sent + Len(got) < page.total
    BY <1>1, <1>2, <1>8 DEF EndsReply
  <2>2. ~ Assembled(records)
    BY <1>1, <1>2, <1>3, <1>5, <2>1 DEF Assembled
  <2>3. IF fetch'.lost THEN Len(records) + Batch <= page'.sent ELSE Len(records) = page'.sent
    <3>1. page'.sent = page.sent + Batch
      BY <1>4, <2>1
    <3>2. CASE ~ delivered
      <4>1. Len(fetch.records) <= page.sent
        BY <1>2, <1>3
      <4>2. Len(records) + Batch <= page'.sent
        BY <1>2, <1>5, <3>1, <3>2, <4>1
      <4> QED BY <1>4, <3>2, <4>2
    <3>3. CASE delivered /\ fetch.lost
      <4>1. Len(records) + Batch <= page'.sent
        BY <1>2, <1>3, <1>5, <2>1, <3>1, <3>3
      <4> QED BY <1>4, <3>3, <4>1
    <3>4. CASE delivered /\ ~ fetch.lost
      <4>1. Len(records) = page'.sent
        BY <1>2, <1>3, <1>5, <2>1, <3>1, <3>4
      <4> QED BY <1>4, <3>4, <4>1
    <3> QED BY <3>2, <3>3, <3>4
  <2>4. fetch'.at = "waiting" /\ page'.sent < page'.total
    BY <1>4, <2>1, <2>2
  <2> QED BY <1>4, <1>5, <2>3, <2>4 DEF Asked, Climbs, Below
<1> QED BY <1>4, <1>5, <1>6, <1>7, <1>8

\* A number in reach that is found is what was logged under it.
LEMMA FoundLogged ==
  ASSUME LogTypeOK, last = Len(logged), Ring(slots, last, logged),
         NEW n \in Nat, EffectiveStart(0) < n, n <= last, Found(n)
  PROVE  slots[SlotOf(n)].event = logged[n]
<1>1. n \in Within(last)
  <2>1. last \in Nat /\ EffectiveStart(0) \in Nat
    BY LogTypes, StartType
  <2>2. n \in EffectiveStart(0) + 1 .. last
    BY <2>1
  <2> QED BY <2>1, <2>2, WithinReach
<1>2. ~ Passed(slots, n)
  BY DEF Found, Passed
<1>3. Genuine(slots, n, logged)
  BY <1>1, <1>2 DEF Ring
<1>4. slots[SlotOf(n)] = [seq |-> n, event |-> logged[n]]
  BY <1>3 DEF Genuine
<1> QED BY <1>4

\* A page of a settled ring holds the next numbers, one by one.
LEMMA SettledPage ==
  ASSUME LogTypeOK, last = Len(logged), Ring(slots, last, logged), ~ Unsettled, page.since <= last,
         NEW got, got = Read(page.since)
  PROVE  \E g \in Nat :
           /\ page.since <= g /\ g <= last
           /\ g = page.since \/ (g = last - SlotCount /\ page.since < g)
           /\ \A base \in Nat : base = 0 \/ base <= last - SlotCount => base <= g
           /\ Len(got) = IF last - g < Batch THEN last - g ELSE Batch
           /\ \A i \in 1 .. Len(got) : got[i].event = logged[g + i]
           /\ NextSince(got) = IF Len(got) = 0 THEN page.since ELSE g + Len(got)
<1>1. PICK h : Edge(h)
  BY EdgeExists
<1>2. last \in Nat /\ page.since \in Nat /\ SlotCount \in Nat /\ SlotCount > 0 /\ Batch \in Nat /\ Batch > 0
  BY LogTypes, Slots
<1> DEFINE start == EffectiveStart(0)
<1>3. start \in Nat /\ start <= last /\ start = IF last > SlotCount THEN last - SlotCount ELSE 0
  BY <1>2, StartType
<1>4. h = start
  <2>1. h \in start .. last /\ start + 1 .. h = {}
    BY <1>1 DEF Edge, Unsettled, start
  <2> HIDE DEF start
  <2> QED BY <1>2, <1>3, <2>1
<1> DEFINE g == IF page.since > h THEN page.since ELSE h
<1>5. g \in Nat /\ page.since <= g /\ g <= last /\ h <= g
      /\ (g = page.since \/ (g = last - SlotCount /\ page.since < g))
  <2> HIDE DEF start
  <2> QED BY <1>2, <1>3, <1>4
<1>6. \A base \in Nat : base = 0 \/ base <= last - SlotCount => base <= g
  <2> HIDE DEF start
  <2> QED BY <1>2, <1>3, <1>4
<1>7. g = IF page.since > h THEN page.since ELSE h
  OBVIOUS
<1> HIDE DEF g, start
<1>8. Run(got, g, last, Batch)
  BY <1>1, <1>2, <1>5, <1>7, ReadRuns
<1>9. Len(got) = IF last - g < Batch THEN last - g ELSE Batch
  <2>1. Len(got) = IF last <= g THEN 0 ELSE IF last - g < Batch THEN last - g ELSE Batch
    BY <1>8 DEF Run
  <2> QED BY <1>2, <1>5, <2>1
<1>10. ASSUME NEW i \in 1 .. Len(got) PROVE got[i].event = logged[g + i] /\ got[i].seq = g + i
  <2>1. got[i] = slots[SlotOf(g + i)]
    BY <1>8 DEF Run
  <2>2. g + i \in start + 1 .. last /\ g + i > h
    BY <1>2, <1>3, <1>4, <1>5, <1>9
  <2>3. slots[SlotOf(g + i)] = [seq |-> g + i, event |-> logged[g + i]]
    BY <1>1, <2>2 DEF Edge, start
  <2> QED BY <2>1, <2>3
<1>11. NextSince(got) = IF Len(got) = 0 THEN page.since ELSE g + Len(got)
  <2>1. got \in Seq(Record) /\ Len(got) \in Nat
    BY PageFacts
  <2>2. CASE Len(got) = 0
    <3>1. got = <<>>
      BY <2>1, <2>2, EmptySeq
    <3> QED BY <2>2, <3>1 DEF NextSince
  <2>3. CASE Len(got) # 0
    <3>1. got # <<>> /\ Len(got) \in 1 .. Len(got)
      BY <2>1, <2>3
    <3>2. got[Len(got)].seq = g + Len(got)
      BY <1>10, <3>1
    <3> QED BY <2>3, <3>1, <3>2 DEF NextSince
  <2> QED BY <2>2, <2>3
<1> QED BY <1>5, <1>6, <1>9, <1>10, <1>11

\* What a page adds to what the phone holds is what was logged.
LEMMA PageTrue ==
  ASSUME LogTypeOK, last = Len(logged), Ring(slots, last, logged),
         Paged(page, fetch, last, logged), Asked(page, fetch),
         NEW got, got = Read(page.since), NEW delivered \in BOOLEAN, NEW records,
         PageSent(got, delivered, records)
  PROVE  /\ page'.since <= last
         /\ \A i \in DOMAIN records : records[i].event = logged[records[i].seq]
<1>1. last \in Nat /\ page.since \in Nat /\ fetch.records \in Seq(Record)
  BY LogTypes
<1>2. /\ got \in Seq(Record) /\ page.since <= last
      /\ got = <<>> => NextSince(got) = page.since
      /\ got # <<>> => NextSince(got) <= last
  BY PageFacts DEF Paged
<1>3. ASSUME NEW i \in DOMAIN got PROVE got[i].event = logged[got[i].seq]
  <2> DEFINE n == got[i].seq
  <2>1. n \in Nat /\ EffectiveStart(page.since) < n /\ n <= last /\ got[i] = slots[SlotOf(n)]
    <3>1. got[i] \in Record
      BY <1>2
    <3> QED BY <3>1, SeqOf, PageFacts
  <2>2. EffectiveStart(0) \in Nat /\ EffectiveStart(page.since) \in Nat
        /\ EffectiveStart(0) <= EffectiveStart(page.since)
    BY <1>1, StartType
  <2>3. Found(n)
    BY <2>1 DEF Found
  <2> HIDE DEF n
  <2>4. EffectiveStart(0) < n
    BY <2>1, <2>2
  <2>5. slots[SlotOf(n)].event = logged[n]
    BY <2>1, <2>3, <2>4, FoundLogged
  <2> QED BY <2>1, <2>5 DEF n
<1>4. \A i \in DOMAIN fetch.records : fetch.records[i].event = logged[fetch.records[i].seq]
  BY DEF Paged
<1>5. page'.since <= last
  BY <1>2 DEF PageSent
<1>6. \A i \in DOMAIN records : records[i].event = logged[records[i].seq]
  <2>1. CASE ~ delivered
    BY <1>4, <2>1 DEF PageSent
  <2>2. CASE delivered
    <3>1. records = fetch.records \o got
      BY <2>2 DEF PageSent
    <3>2. \A i \in DOMAIN records : \/ i \in DOMAIN fetch.records /\ records[i] = fetch.records[i]
                                    \/ \E j \in DOMAIN got : records[i] = got[j]
      <4> SUFFICES ASSUME NEW i \in DOMAIN records
                   PROVE  \/ i \in DOMAIN fetch.records /\ records[i] = fetch.records[i]
                          \/ \E j \in DOMAIN got : records[i] = got[j]
        OBVIOUS
      <4> DEFINE p == Len(fetch.records)
                 q == Len(got)
      <4>1. p \in Nat /\ q \in Nat /\ i \in 1 .. p + q /\ DOMAIN fetch.records = 1 .. p /\ DOMAIN got = 1 .. q
            /\ records[i] = IF i <= p THEN fetch.records[i] ELSE got[i - p]
        <5>1. DOMAIN fetch.records = 1 .. p /\ DOMAIN got = 1 .. q /\ p \in Nat /\ q \in Nat
          BY <1>1, <1>2
        <5>2. /\ fetch.records \o got \in Seq(Record)
              /\ Len(fetch.records \o got) = p + q
              /\ \A k \in 1 .. p + q : (fetch.records \o got)[k] = IF k <= p THEN fetch.records[k] ELSE got[k - p]
          BY <1>1, <1>2, ConcatProperties
        <5>3. i \in 1 .. p + q
          <6>1. DOMAIN (fetch.records \o got) = 1 .. Len(fetch.records \o got)
            BY <5>2
          <6> HIDE DEF p, q
          <6> QED BY <3>1, <5>2, <6>1
        <5> HIDE DEF p, q
        <5> QED BY <3>1, <5>1, <5>2, <5>3
      <4> HIDE DEF p, q
      <4>2. i > p => i - p \in 1 .. q
        BY <4>1
      <4> QED BY <4>1, <4>2
    <3> QED BY <1>3, <1>4, <3>2
  <2> QED BY <2>1, <2>2
<1> QED BY <1>5, <1>6

\* A page of a settled ring, delivered with those before it, covers the events
\* that the request could read as far as it goes; the last one completes the list.
LEMMA PageCovers ==
  ASSUME LogTypeOK, last = Len(logged), Ring(slots, last, logged),
         Paged(page, fetch, last, logged), Asked(page, fetch),
         NEW got, got = Read(page.since), NEW delivered \in BOOLEAN, NEW records,
         PageSent(got, delivered, records), ~ fetch'.lost, ~ fetch'.torn
  PROVE  /\ page'.sent + (last - page'.since) >= page'.total
         /\ \E base \in Nat : Covers(base, page', fetch', last, logged)
         /\ EndsReply(got) => Assembled(records)
<1>1. /\ last \in Nat /\ page.since \in Nat /\ page.sent \in Nat /\ page.total \in Nat
      /\ page.total <= SlotCount
      /\ SlotCount \in Nat /\ SlotCount > 0 /\ Batch \in Nat /\ Batch > 0 /\ fetch.records \in Seq(Record)
  <2>1. page.total \in 0 .. SlotCount
    BY DEF LogTypeOK
  <2> QED BY <2>1, LogTypes, Slots
<1>2. ~ fetch.lost /\ ~ fetch.torn /\ ~ Unsettled /\ delivered /\ records = fetch.records \o got
      /\ fetch'.records = records /\ fetch'.asof = fetch.asof
      /\ page'.since = NextSince(got) /\ page'.sent = page.sent + Len(got) /\ page'.total = page.total
  BY DEF PageSent
<1>3. Len(records) = page'.sent
  BY <1>2, PageAsked
<1>4. /\ page.since <= last
      /\ page.sent + (last - page.since) >= page.total
      /\ \E base \in Nat : Covers(base, page, fetch, last, logged)
  BY <1>2 DEF Paged
<1>5. got \in Seq(Record) /\ Len(got) \in Nat
  BY PageFacts
<1> DEFINE c == Len(got)
<1>6. PICK g \in Nat :
        /\ page.since <= g /\ g <= last
        /\ g = page.since \/ (g = last - SlotCount /\ page.since < g)
        /\ \A base \in Nat : base = 0 \/ base <= last - SlotCount => base <= g
        /\ c = IF last - g < Batch THEN last - g ELSE Batch
        /\ \A i \in 1 .. c : got[i].event = logged[g + i]
        /\ NextSince(got) = IF c = 0 THEN page.since ELSE g + c
  BY <1>2, <1>4, SettledPage
<1>7. c \in Nat /\ page'.sent = page.sent + c /\ page'.since = IF c = 0 THEN page.since ELSE g + c
  BY <1>2, <1>5, <1>6
<1> HIDE DEF c
<1>8. page'.sent + (last - page'.since) >= page'.total
  <2>1. CASE c = 0
    BY <1>1, <1>2, <1>4, <1>6, <1>7, <2>1
  <2>2. CASE c # 0
    <3>1. page'.sent + (last - page'.since) = page.sent + (last - g)
      BY <1>1, <1>6, <1>7, <2>2
    <3>2. page.sent + (last - g) >= page.total
      BY <1>1, <1>4, <1>6
    <3> QED BY <1>2, <3>1, <3>2
  <2> QED BY <2>1, <2>2
<1>9. EndsReply(got) => Assembled(records)
  <2>1. c < Batch => page'.sent >= page.total
    BY <1>1, <1>4, <1>6, <1>7
  <2> QED BY <1>2, <1>3, <1>7, <2>1 DEF EndsReply, Assembled, c
<1>10. PICK base \in Nat : Covers(base, page, fetch, last, logged)
  BY <1>4
<1>11. (base = 0 \/ base <= last - SlotCount) /\ base <= g
       /\ (page.sent > 0 => page.since >= base + page.sent)
  BY <1>6, <1>10 DEF Covers
<1>12. page'.sent > 0 => page'.since >= base + page'.sent
  BY <1>1, <1>6, <1>7, <1>11
<1>13. /\ \A i \in DOMAIN fetch.records : i \in DOMAIN records /\ records[i] = fetch.records[i]
       /\ \A i \in 1 .. c : Len(fetch.records) + i \in DOMAIN records
                            /\ records[Len(fetch.records) + i] = got[i]
  <2> DEFINE p == Len(fetch.records)
             both == fetch.records \o got
  <2>1. p \in Nat /\ DOMAIN fetch.records = 1 .. p
    BY <1>1
  <2>2. /\ DOMAIN both = 1 .. p + c
        /\ \A k \in 1 .. p + c : both[k] = IF k <= p THEN fetch.records[k] ELSE got[k - p]
    <3>1. /\ both \in Seq(Record) /\ Len(both) = p + c
          /\ \A k \in 1 .. p + c : both[k] = IF k <= p THEN fetch.records[k] ELSE got[k - p]
      BY <1>1, <1>5, ConcatProperties DEF c
    <3> HIDE DEF both, p
    <3>2. DOMAIN both = 1 .. Len(both)
      BY <3>1, LenProperties
    <3> QED BY <3>1, <3>2
  <2>3. records = both
    BY <1>2
  <2> HIDE DEF p, both
  <2>4. \A i \in 1 .. p : i \in 1 .. p + c /\ both[i] = fetch.records[i]
    BY <1>7, <2>1, <2>2
  <2>5. \A i \in 1 .. c : p + i \in 1 .. p + c /\ both[p + i] = got[i]
    BY <1>7, <2>1, <2>2
  <2> QED BY <2>1, <2>2, <2>3, <2>4, <2>5 DEF p
<1>14. ASSUME NEW e \in fetch.asof
       PROVE  \E n \in 1 .. last :
                /\ n <= base + page.total /\ logged[n] = e
                /\ n <= page'.since => e \in Events(records) \/ n <= last - SlotCount
  <2>1. PICK n \in 1 .. last :
          /\ n <= base + page.total /\ logged[n] = e
          /\ n <= page.since => e \in Events(fetch.records) \/ n <= last - SlotCount
    BY <1>10 DEF Covers
  <2>2. ASSUME e \in Events(fetch.records) PROVE e \in Events(records)
    BY <1>13, <2>2 DEF Events
  <2>3. ASSUME n > page.since, n <= page'.since PROVE e \in Events(records) \/ n <= last - SlotCount
    <3>1. CASE n <= g
      BY <1>1, <1>6, <2>3, <3>1
    <3>2. CASE n > g
      <4>1. n - g \in 1 .. c /\ g + (n - g) = n
        BY <1>1, <1>6, <1>7, <2>3, <3>2
      <4>2. got[n - g].event = e
        BY <1>6, <2>1, <4>1
      <4> QED BY <1>13, <4>1, <4>2 DEF Events
    <3> QED BY <1>6, <3>1, <3>2
  <2>4. n <= page.since \/ n > page.since
    BY <1>1
  <2> QED BY <2>1, <2>2, <2>3, <2>4
<1>15. Covers(base, page', fetch', last, logged)
  BY <1>2, <1>11, <1>12, <1>14 DEF Covers
<1> QED BY <1>8, <1>9, <1>15

\* An event that can be read was logged under a number in reach.
LEMMA ReadableLogged ==
  ASSUME LogTypeOK, last = Len(logged), Ring(slots, last, logged), NEW e \in Events(Readable(0))
  PROVE  \E m \in 1 .. last : EffectiveStart(0) < m /\ logged[m] = e
<1>1. last \in Nat /\ EffectiveStart(0) \in Nat
  BY LogTypes, StartType
<1>2. Listed(Readable(0), EffectiveStart(0), last, SlotCount)
  BY ReadLists
<1>3. PICK i \in DOMAIN Readable(0) : Readable(0)[i].event = e
  BY DEF Events
<1>4. Readable(0) \in Seq(Record) /\ i \in 1 .. Len(Readable(0))
  BY <1>2, <1>3 DEF Listed
<1> DEFINE m == Readable(0)[i].seq
<1>5. Readable(0)[i] \in Record
  BY <1>4
<1>6. m \in Nat /\ EffectiveStart(0) < m /\ m <= last /\ Readable(0)[i] = slots[SlotOf(m)]
  BY <1>2, <1>4, <1>5, SeqOf DEF Listed
<1>7. Found(m)
  BY <1>6 DEF Found
<1> HIDE DEF m
<1>8. slots[SlotOf(m)].event = logged[m]
  BY <1>6, <1>7, FoundLogged
<1>9. m \in 1 .. last
  BY <1>1, <1>6
<1> QED BY <1>3, <1>6, <1>8, <1>9

\* A page that ends a fetch: what the list leaves out, and what it shows.
LEMMA DoneCovers ==
  ASSUME LogTypeOK, last = Len(logged), Ring(slots, last, logged), Rising(logged, born),
         Paged(page, fetch, last, logged), Asked(page, fetch),
         NEW got, got = Read(page.since), NEW delivered \in BOOLEAN, NEW records,
         PageSent(got, delivered, records), fetch'.at = "done", ~ fetch'.torn
  PROVE  fetch.asof \cap Events(Readable(0)) \subseteq Events(records)
<1>1. /\ last \in Nat /\ SlotCount \in Nat /\ page.sent \in Nat /\ page.total \in Nat
      /\ logged \in Seq(Event)
  BY LogTypes, Slots
<1>2. ~ fetch'.lost /\ Len(records) >= page.total /\ Len(records) = page'.sent
  BY PageAsked
<1>3. PICK base \in Nat : Covers(base, page', fetch', last, logged)
  BY <1>2, PageCovers
<1>4. fetch'.asof = fetch.asof /\ fetch'.records = records /\ page'.total = page.total
  BY DEF PageSent
<1>5. /\ EffectiveStart(0) \in Nat
      /\ EffectiveStart(0) = IF last > SlotCount THEN last - SlotCount ELSE 0
  BY <1>1, StartType
<1> SUFFICES ASSUME NEW e \in fetch.asof, e \in Events(Readable(0))
             PROVE  e \in Events(records)
  OBVIOUS
<1>6. PICK n \in 1 .. last :
        /\ n <= base + page.total /\ logged[n] = e
        /\ n <= page'.since => e \in Events(records) \/ n <= last - SlotCount
  BY <1>3, <1>4 DEF Covers
<1>7. PICK m \in 1 .. last : EffectiveStart(0) < m /\ logged[m] = e
  BY ReadableLogged
<1>8. n = m
  <2>1. DOMAIN logged = 1 .. last
    BY <1>1
  <2>2. \A i \in 1 .. last : logged[i] \in Nat
    <3>1. \A i \in 1 .. last : logged[i] \in Event
      BY <1>1
    <3> QED BY <3>1 DEF Event
  <2>3. \A i, j \in 1 .. last : i < j => logged[i] < logged[j]
    BY <2>1 DEF Rising
  <2>4. n < m \/ m < n \/ n = m
    OBVIOUS
  <2>5. ~ (logged[n] < logged[m]) /\ ~ (logged[m] < logged[n])
    BY <1>6, <1>7, <2>2
  <2> QED BY <2>3, <2>4, <2>5
<1>9. n > EffectiveStart(0)
  BY <1>7, <1>8
<1>10. (base = 0 \/ base <= last - SlotCount) /\ (page'.sent > 0 => page'.since >= base + page'.sent)
  BY <1>3 DEF Covers
<1>11. ~ (n <= last - SlotCount) /\ base <= EffectiveStart(0)
  BY <1>1, <1>5, <1>9, <1>10
<1>12. page'.sent \in Nat /\ page.total <= page'.sent /\ page'.since \in Nat
  <2>1. Len(records) \in Nat
    BY PageAsked
  <2>2. NextSince(got) \in Nat
    BY PageFacts
  <2> QED BY <1>1, <1>2, <2>1, <2>2 DEF PageSent
<1>13. page'.sent > 0
  BY <1>1, <1>5, <1>6, <1>9, <1>11, <1>12
<1>14. n <= page'.since
  BY <1>1, <1>6, <1>10, <1>12, <1>13
<1> QED BY <1>6, <1>11, <1>14

\* In a log that a factory reset has emptied under the reader, the reply shows at
\* most the record of the reset.
LEMMA WipedShows ==
  ASSUME LogTypeOK, Wiped, Asked(page, fetch),
         NEW got, got = Read(page.since), NEW delivered \in BOOLEAN, NEW records,
         PageSent(got, delivered, records), fetch'.at = "done"
  PROVE  Events(records) \subseteq {logged[i] : i \in DOMAIN logged}
<1>1. /\ fetch.records \in Seq(Record) /\ Len(fetch.records) \in Nat
      /\ page.since \in Nat /\ page.sent \in Nat /\ page.total \in Nat
  BY LogTypes
<1>2. /\ got \in Seq(Record) /\ Len(got) \in Nat
      /\ \A i \in DOMAIN got : page.since < got[i].seq /\ got[i] = slots[SlotOf(got[i].seq)]
  BY PageFacts
<1>3. ~ fetch'.lost /\ Len(records) >= page.total /\ ~ fetch.lost /\ delivered /\ Len(records) = page'.sent
  BY PageAsked
<1>4. records = fetch.records \o got
  BY <1>3 DEF PageSent
<1>5. ASSUME NEW i \in DOMAIN got
      PROVE  page.since = 0 /\ Len(logged) = 1 /\ got[i].event = logged[1]
  <2>1. got[i] \in Record
    BY <1>2
  <2>2. got[i].seq \in Nat /\ got[i].seq # 0 /\ page.since < got[i].seq
    BY <1>1, <1>2, <2>1, SeqOf
  <2>3. SlotOf(got[i].seq) \in Slot /\ got[i] = slots[SlotOf(got[i].seq)]
    BY <1>2, <2>2, SlotType
  <2>4. got[i] # Blank
    BY <2>2 DEF Blank
  <2>5. got[i] = slots[0] /\ slots[0] # Blank
    BY <2>3, <2>4 DEF Wiped
  <2>6. Len(logged) = 1 /\ got[i] = [seq |-> 1, event |-> logged[1]]
    BY <2>5 DEF Wiped
  <2> QED BY <1>1, <2>2, <2>6
<1>6. ASSUME page.since = 0 PROVE Len(fetch.records) = 0
  <2>1. SUFFICES ASSUME 1 \in DOMAIN fetch.records PROVE FALSE
    BY <1>1
  <2>2. fetch.records[1] \in Record /\ fetch.records[1].seq <= 0
    BY <1>1, <1>6, <2>1 DEF Asked
  <2>3. fetch.records[1].seq \in Event
    BY <2>2 DEF Record
  <2> QED BY <2>2, <2>3 DEF Event
<1>7. Len(fetch.records) = 0 \/ Len(got) # 0
  <2>1. SUFFICES ASSUME Len(got) = 0 PROVE Len(fetch.records) = 0
    OBVIOUS
  <2>2. Len(fetch.records) = page.sent /\ (page.sent = 0 \/ page.sent < page.total)
    BY <1>3 DEF Asked
  <2>3. page'.sent = page.sent
    BY <1>1, <2>1 DEF PageSent
  <2> QED BY <1>1, <1>3, <2>2, <2>3
<1>8. Len(fetch.records) = 0
  <2>1. CASE Len(got) # 0
    <3>1. 1 \in DOMAIN got
      BY <1>2, <2>1
    <3> QED BY <1>5, <1>6, <3>1
  <2> QED BY <1>7, <2>1
<1>9. records = got
  <2>1. fetch.records = <<>>
    BY <1>1, <1>8, EmptySeq
  <2> QED BY <1>2, <1>4, <2>1, ConcatEmptySeq
<1>10. ASSUME NEW i \in DOMAIN got PROVE got[i].event \in {logged[k] : k \in DOMAIN logged}
  <2>1. 1 \in DOMAIN logged
    <3>1. logged \in Seq(Event)
      BY LogTypes
    <3> QED BY <1>5, <3>1
  <2> QED BY <1>5, <2>1
<1> QED BY <1>9, <1>10 DEF Events

\* Another event in the log takes nothing from the reply.
LEMMA PagedAdvance ==
  ASSUME NEW l \in Nat, NEW lg \in Seq(Event), Len(lg) = l, NEW e \in Event,
         NEW pg, pg.since \in Nat, pg.sent \in Nat, pg.total \in Nat,
         NEW ft, ft.records \in Seq(Record), Asked(pg, ft), Paged(pg, ft, l, lg)
  PROVE  Paged(pg, ft, l + 1, Append(lg, e))
<1> DEFINE more == Append(lg, e)
<1>1. \A n \in 1 .. l : more[n] = lg[n]
  OBVIOUS
<1>0. SlotCount \in Nat
  BY Slots
<1> HIDE DEF more
<1>2. pg.since <= l + 1
  BY DEF Paged
<1>3. ASSUME NEW i \in DOMAIN ft.records PROVE ft.records[i].event = more[ft.records[i].seq]
  <2>1. ft.records[i] \in Record
    OBVIOUS
  <2>2. ft.records[i].seq \in Event /\ ft.records[i].seq <= pg.since
    BY <2>1 DEF Record, Asked
  <2>3. ft.records[i].seq \in 1 .. l
    BY <2>2 DEF Event, Paged
  <2> QED BY <1>1, <2>3 DEF Paged
<1>4. ASSUME ~ ft.lost /\ ~ ft.torn
      PROVE  /\ pg.sent + ((l + 1) - pg.since) >= pg.total
             /\ \E base \in Nat : Covers(base, pg, ft, l + 1, more)
  <2>1. pg.sent + (l - pg.since) >= pg.total
    BY <1>4 DEF Paged
  <2>2. PICK base \in Nat : Covers(base, pg, ft, l, lg)
    BY <1>4 DEF Paged
  <2>3. base = 0 \/ base <= (l + 1) - SlotCount
    BY <1>0, <2>2 DEF Covers
  <2>4. ASSUME NEW x \in ft.asof
        PROVE  \E n \in 1 .. l + 1 :
                 /\ n <= base + pg.total /\ more[n] = x
                 /\ n <= pg.since => x \in Events(ft.records) \/ n <= (l + 1) - SlotCount
    <3>1. PICK n \in 1 .. l :
            /\ n <= base + pg.total /\ lg[n] = x
            /\ n <= pg.since => x \in Events(ft.records) \/ n <= l - SlotCount
      BY <2>2 DEF Covers
    <3>2. n \in 1 .. l + 1 /\ more[n] = x /\ (n <= l - SlotCount => n <= (l + 1) - SlotCount)
      BY <1>0, <1>1, <3>1
    <3> QED BY <3>1, <3>2
  <2>5. pg.sent > 0 => pg.since >= base + pg.sent
    BY <2>2 DEF Covers
  <2>6. Covers(base, pg, ft, l + 1, more)
    BY <2>3, <2>4, <2>5 DEF Covers
  <2> QED BY <2>1, <2>6
<1> QED BY <1>2, <1>3, <1>4 DEF Paged, more

\* The first page is yet to be sent.
LEMMA PagedFirst ==
  ASSUME LogTypeOK, last = Len(logged), Ring(slots, last, logged), NEW pg, NEW ft,
         pg = [since |-> 0, sent |-> 0, total |-> CountSince(0)],
         ft.records = <<>>, ft.asof = Events(Readable(0))
  PROVE  Paged(pg, ft, last, logged)
<1> DEFINE start == EffectiveStart(0)
<1>1. last \in Nat /\ start \in Nat /\ start <= last /\ SlotCount \in Nat
      /\ start = IF last > SlotCount THEN last - SlotCount ELSE 0
  BY LogTypes, StartType, Slots
<1>2. CountSince(0) = IF last > start THEN last - start ELSE 0
  BY DEF CountSince
<1>3. \A e \in ft.asof : \E m \in 1 .. last : start < m /\ logged[m] = e
  BY ReadableLogged
<1> HIDE DEF start
<1>4. CountSince(0) = last - start
  BY <1>1, <1>2
<1>5. pg.since = 0 /\ pg.sent = 0 /\ pg.total = last - start
  BY <1>4
<1>6. Covers(start, pg, ft, last, logged)
  <2>1. start = 0 \/ start <= last - SlotCount
    BY <1>1
  <2>2. ASSUME NEW e \in ft.asof
        PROVE  \E n \in 1 .. last :
                 /\ n <= start + pg.total /\ logged[n] = e
                 /\ n <= pg.since => e \in Events(ft.records) \/ n <= last - SlotCount
    <3>1. PICK m \in 1 .. last : logged[m] = e
      BY <1>3
    <3>2. m <= start + pg.total /\ ~ (m <= pg.since)
      BY <1>1, <1>5, <3>1
    <3> QED BY <3>1, <3>2
  <2> QED BY <1>5, <2>1, <2>2 DEF Covers
<1>7. DOMAIN ft.records = {}
  OBVIOUS
<1>8. pg.since <= last /\ pg.sent + (last - pg.since) >= pg.total
  BY <1>1, <1>5
<1> QED BY <1>1, <1>6, <1>7, <1>8 DEF Paged

-----------------------------------------------------------------------------
(* A log that nothing has disturbed, step by step                          *)

\* What holds of the flash and the memory as long as nothing has disturbed them.
Clean == Flash /\ (Wiped \/ InMemory)

\* An append has the log to itself, or it is disturbed.
LEMMA Undisturbed ==
  ASSUME NEW t \in Task, Disturbed(t) = {}
  PROVE  harm = {} /\ \A o \in Task \ {t} : ~ Writing(o) /\ ~ Appending(o)
<1>1. harm = {} /\ \A o \in Task \ {t} : ~ Writing(o)
  BY DEF Disturbed
<1>2. \A o \in Task : Appending(o) => Writing(o)
  BY DEF Appending, Writing
<1> QED BY <1>1, <1>2

LEMMA TwoTasks ==
  /\ "app" \in Task /\ "ble" \in Task
  /\ \A t \in Task : t = "app" \/ t = "ble"
  /\ \A t, o \in Task : t # o => \A x \in Task : x = t \/ x = o
BY DEF Task

\* Taking the next number.
LEMMA AppendClean ==
  ASSUME LogTyped, NEW t \in Task, BeginAppend(t), harm = {} => Clean, harm' = {}
  PROVE  Clean'
<1> DEFINE w == [at |-> "write", seq |-> last + 1, event |-> born + 1]
<1>1. /\ task[t].at \in {"idle", "begin"}
      /\ born' = born + 1 /\ task' = [task EXCEPT ![t] = w]
      /\ slots' = slots /\ cursor' = cursor /\ last' = last /\ page' = page /\ fetch' = fetch
      /\ logged' = logged /\ durable' = durable
      /\ harm' = Disturbed(t)
  BY DEF BeginAppend, log
<1>2. LogTypeOK /\ LogTypeOK' /\ last \in Nat /\ born \in Nat /\ cursor \in Nat
      /\ logged \in Seq(Event) /\ durable \in Seq(Event)
  BY AppendTyped, LogTypes DEF LogTyped
<1>3. harm = {} /\ \A o \in Task \ {t} : ~ Writing(o) /\ ~ Appending(o)
  BY <1>1, Undisturbed
<1>4. Clean
  BY <1>3
<1>5. task'[t] = w /\ \A o \in Task \ {t} : task'[o] = task[o]
  BY <1>1, TypedTasks, <1>2
<1>6. w.at = "write" /\ w.seq = last + 1 /\ w.event = born + 1
  OBVIOUS
<1> HIDE DEF w
<1>7. InMemory
  <2>1. SUFFICES ASSUME Wiped PROVE FALSE
    BY <1>4 DEF Clean
  <2>2. task["app"].at \in {"relog", "restart"}
    BY <2>1 DEF Wiped
  <2>3. t = "ble"
    BY <1>1, <2>2, TwoTasks
  <2>4. Writing("app")
    BY <2>2 DEF Writing
  <2> QED BY <1>3, <2>3, <2>4, TwoTasks
<1>8. /\ Rising(logged, born + 1) /\ Rising(durable, born + 1)
      /\ \A i \in DOMAIN logged : logged[i] < born + 1
  <2>1. Rising(logged, born) /\ Rising(durable, born) /\ born + 1 \in Nat /\ born <= born + 1 /\ born < born + 1
    BY <1>2, <1>4 DEF Clean, Flash
  <2> QED BY <1>2, <2>1, RisingLater
<1>9. \A o \in Task \ {t} : Appending(o)' = FALSE
  BY <1>3, <1>5 DEF Appending
<1>10. ~ (Appending("app")' /\ Appending("ble")')
  BY <1>9, TwoTasks
<1>11. Flash'
  BY <1>1, <1>4, <1>8, <1>10 DEF Clean, Flash
<1>12. ASSUME NEW o \in Task PROVE Stage(task[o], slots, last, born, logged)'
  <2>1. CASE o = t
    BY <1>1, <1>5, <1>6, <1>8, <2>1 DEF Stage
  <2>2. CASE o # t
    <3>1. task'[o].at \notin {"write", "advance", "persist", "clear", "begin"}
      BY <1>3, <1>5, <2>2 DEF Appending
    <3> QED BY <3>1 DEF Stage
  <2> QED BY <2>1, <2>2
<1>13. task["app"].at' # "relog"
  BY <1>5, <1>6, <1>7, TwoTasks DEF InMemory
<1>14. Paging' => Paging
  BY <1>5, <1>6, TwoTasks DEF Paging
<1>15. task["ble"].at # "clear"
  <2>1. CASE t = "ble"
    BY <1>1, <2>1
  <2>2. CASE t # "ble"
    BY <1>3, <2>2, TwoTasks DEF Appending
  <2> QED BY <2>1, <2>2
<1>16. InMemory'
  BY <1>1, <1>7, <1>12, <1>13, <1>14, <1>15 DEF InMemory
<1> QED BY <1>11, <1>16 DEF Clean

\* The task that appends is alone, and the log is the one in memory.
LEMMA OneAppends ==
  ASSUME Clean, NEW t \in Task, task[t].at \in {"begin", "write", "advance", "persist", "clear"}
  PROVE  /\ InMemory
         /\ \A o \in Task \ {t} : ~ Appending(o)
         /\ task[t].at # "clear" => task["ble"].at # "clear"
<1>1. Appending(t)
  BY DEF Appending
<1>2. \A o \in Task \ {t} : ~ Appending(o)
  BY <1>1, TwoTasks DEF Clean, Flash
<1>3. ~ Wiped
  <2>1. SUFFICES ASSUME Wiped PROVE FALSE
    OBVIOUS
  <2>2. task["app"].at \in {"relog", "restart"} /\ ~ Appending("ble")
    BY <2>1 DEF Wiped
  <2> QED BY <1>1, <2>2, TwoTasks
<1>4. task[t].at # "clear" => task["ble"].at # "clear"
  <2>1. CASE t = "ble"
    BY <2>1
  <2>2. CASE t # "ble"
    BY <1>2, <2>2, TwoTasks DEF Appending
  <2> QED BY <2>1, <2>2
<1> QED BY <1>2, <1>3, <1>4 DEF Clean

\* The tasks after a step of t, when the other does not append.
LEMMA StepAlone ==
  ASSUME LogTypeOK, NEW t \in Task, NEW w, task' = [task EXCEPT ![t] = w],
         \A o \in Task \ {t} : ~ Appending(o), w.at # "paging", w.at # "relog", task["app"].at # "relog"
  PROVE  /\ task'[t] = w
         /\ \A o \in Task \ {t} : task'[o] = task[o]
         /\ ~ (Appending("app")' /\ Appending("ble")')
         /\ \A o \in Task \ {t} : Stage(task[o], slots, last, born, logged)'
         /\ task["app"].at' # "relog"
         /\ Paging' => Paging /\ t = "app"
<1>1. task'[t] = w /\ \A o \in Task \ {t} : task'[o] = task[o]
  BY TypedTasks
<1>2. \A o \in Task \ {t} : Appending(o)' = FALSE
  BY <1>1 DEF Appending
<1>3. ~ (Appending("app")' /\ Appending("ble")')
  BY <1>2, TwoTasks
<1>4. ASSUME NEW o \in Task \ {t} PROVE Stage(task[o], slots, last, born, logged)'
  <2>1. task'[o].at \notin {"write", "advance", "persist", "clear", "begin"}
    BY <1>1 DEF Appending
  <2> QED BY <2>1 DEF Stage
<1>5. task["app"].at' # "relog"
  BY <1>1, TwoTasks
<1>6. Paging' => Paging /\ t = "app"
  BY <1>1, TwoTasks DEF Paging
<1> QED BY <1>1, <1>3, <1>4, <1>5, <1>6

\* Writing the slot: the number a round before it is overwritten, the log in memory
\* does not hold the new record yet, and a restart finds the ring as it was saved.
LEMMA WriteClean ==
  ASSUME LogTyped, NEW t \in Task, WriteSlot(t), harm = {} => Clean, harm' = {}
  PROVE  Clean'
<1> DEFINE w == [task[t] EXCEPT !.at = "advance"]
           r == [seq |-> task[t].seq, event |-> task[t].event]
<1>1. /\ task[t].at = "write" /\ task' = [task EXCEPT ![t] = w]
      /\ cursor' = cursor /\ last' = last /\ page' = page /\ fetch' = fetch /\ born' = born
      /\ logged' = logged /\ durable' = durable
  BY DEF WriteSlot
<1>2. harm = {} /\ slots' = [slots EXCEPT ![SlotOf(task[t].seq)] = r]
  <2>1. PICK ok \in WriteOutcomes :
          /\ slots' = IF ok THEN [slots EXCEPT ![SlotOf(task[t].seq)] = r] ELSE slots
          /\ harm' = Outcome(ok)
    BY DEF WriteSlot
  <2> QED BY <2>1 DEF Outcome
<1>3. LogTypeOK /\ SlotsTyped(slots) /\ last \in Nat /\ born \in Nat /\ cursor \in Nat /\ task[t] \in Works
  BY LogTypes, TypedTasks DEF LogTyped
<1>4. Clean /\ InMemory /\ (\A o \in Task \ {t} : ~ Appending(o)) /\ task["ble"].at # "clear"
  BY <1>1, <1>2, OneAppends
<1>5. w.at = "advance" /\ w.seq = task[t].seq /\ w.event = task[t].event
      /\ r.seq = task[t].seq /\ r.event = task[t].event
  BY <1>3 DEF Works
<1>6. task[t].seq = last + 1 /\ task[t].event = born /\ \A i \in DOMAIN logged : logged[i] < born
  BY <1>1, <1>4 DEF InMemory, Stage
<1>7. r = [seq |-> w.seq, event |-> w.event]
  BY <1>5
<1> HIDE DEF w, r
<1>8. /\ task'[t] = w /\ \A o \in Task \ {t} : task'[o] = task[o]
      /\ ~ (Appending("app")' /\ Appending("ble")')
      /\ \A o \in Task \ {t} : Stage(task[o], slots, last, born, logged)'
      /\ task["app"].at' # "relog"
      /\ Paging' => Paging
  <2>1. w.at # "paging" /\ w.at # "relog" /\ task["app"].at # "relog"
    BY <1>4, <1>5 DEF InMemory
  <2> QED BY <1>1, <1>3, <1>4, <2>1, StepAlone
<1>9. slots' = [slots EXCEPT ![SlotOf(last + 1)] = r] /\ r.seq = last + 1
  BY <1>2, <1>5, <1>6
<1>10. cursor <= last /\ Overtaken(slots, cursor, last) /\ Ring(slots, cursor, durable) /\ Ring(slots, last, logged)
  BY <1>4 DEF Clean, Flash, InMemory
<1>11. Ring(slots', cursor, durable) /\ Overtaken(slots', cursor, last)
  BY <1>3, <1>9, <1>10, RingWritten
<1>12. Ring(slots', last, logged)
  <2>1. Overtaken(slots, last, last) /\ last <= last
    BY <1>3, NotOvertaken
  <2> QED BY <1>3, <1>9, <1>10, <2>1, RingWritten
<1>13. Flash'
  BY <1>1, <1>4, <1>8, <1>11 DEF Clean, Flash
<1>14. Stage(task[t], slots, last, born, logged)'
  <2>1. SlotOf(last + 1) \in Slot
    BY <1>3, SlotType
  <2>2. slots'[SlotOf(w.seq)] = r
    BY <1>3, <1>5, <1>6, <1>9, <2>1 DEF SlotsTyped
  <2>3. slots'[SlotOf(w.seq)] = [seq |-> w.seq, event |-> w.event]
    BY <1>7, <2>2
  <2> QED BY <1>1, <1>5, <1>6, <1>8, <2>3 DEF Stage
<1>15. InMemory'
  BY <1>1, <1>4, <1>8, <1>11, <1>12, <1>14, <1>10 DEF InMemory
<1> QED BY <1>13, <1>15 DEF Clean

\* Moving the cursor in memory: the number now overwritten is out of reach.
LEMMA AdvanceClean ==
  ASSUME LogTyped, NEW t \in Task, Advance(t), harm = {} => Clean, harm' = {},
         Paging => Asked(page, fetch)
  PROVE  Clean'
<1> DEFINE w == [task[t] EXCEPT !.at = "persist"]
           e == task[t].event
<1>1. /\ task[t].at = "advance" /\ task' = [task EXCEPT ![t] = w]
      /\ last' = task[t].seq /\ logged' = Append(logged, e)
      /\ slots' = slots /\ cursor' = cursor /\ page' = page /\ fetch' = fetch /\ born' = born
      /\ durable' = durable /\ harm' = harm
  BY DEF Advance
<1>3. LogTypeOK /\ SlotsTyped(slots) /\ last \in Nat /\ born \in Nat /\ cursor \in Nat /\ task[t] \in Works
      /\ logged \in Seq(Event) /\ durable \in Seq(Event)
      /\ page.since \in Nat /\ page.sent \in Nat /\ page.total \in Nat /\ fetch.records \in Seq(Record)
  BY LogTypes, TypedTasks DEF LogTyped
<1>4. Clean /\ InMemory /\ (\A o \in Task \ {t} : ~ Appending(o)) /\ task["ble"].at # "clear"
  BY <1>1, OneAppends
<1>5. w.at = "persist" /\ w.seq = task[t].seq
  BY <1>3 DEF Works
<1>6. /\ task[t].seq = last + 1 /\ e = born /\ \A i \in DOMAIN logged : logged[i] < born
      /\ slots[SlotOf(last + 1)] = [seq |-> last + 1, event |-> e]
      /\ last = Len(logged)
  BY <1>1, <1>4 DEF InMemory, Stage
<1>7. e \in Event
  <2>1. e \in 1 .. born /\ born \in 0 .. MaxEvents + 2
    BY <1>1 DEF LogTyped, Numbers, LogTypeOK
  <2> QED BY <2>1, Slots DEF Event
<1> HIDE DEF w, e
<1>8. /\ task'[t] = w /\ \A o \in Task \ {t} : task'[o] = task[o]
      /\ ~ (Appending("app")' /\ Appending("ble")')
      /\ \A o \in Task \ {t} : Stage(task[o], slots, last, born, logged)'
      /\ task["app"].at' # "relog"
      /\ Paging' => Paging
  <2>1. w.at # "paging" /\ w.at # "relog" /\ task["app"].at # "relog"
    BY <1>4, <1>5 DEF InMemory
  <2> QED BY <1>1, <1>3, <1>4, <2>1, StepAlone
<1>9. Rising(Append(logged, e), born)
  <2>1. Rising(logged, born) /\ e <= born /\ \A i \in DOMAIN logged : logged[i] < e
    BY <1>3, <1>4, <1>6 DEF Clean, Flash
  <2> QED BY <1>3, <1>7, <2>1, RisingMore
<1>10. Flash'
  BY <1>1, <1>4, <1>8, <1>9 DEF Clean, Flash
<1>11. Ring(slots, last + 1, Append(logged, e))
  <2>1. Ring(slots, last, logged)
    BY <1>4 DEF InMemory
  <2> QED BY <1>3, <1>6, <1>7, <2>1, RingAdvanced
<1>12. cursor <= last + 1 /\ Overtaken(slots, cursor, last + 1)
  <2>1. cursor <= last /\ Overtaken(slots, cursor, last)
    BY <1>4 DEF InMemory
  <2>2. slots[SlotOf(last + 1)].seq = last + 1
    BY <1>6
  <2>3. Overtaken(slots, cursor, last + 1)
    BY <1>3, <2>1, <2>2, OvertakenNext
  <2> QED BY <1>3, <2>1, <2>3
<1>13. Paging' => Paged(page, fetch, last + 1, Append(logged, e))
  <2>1. SUFFICES ASSUME Paging PROVE Paged(page, fetch, last + 1, Append(logged, e))
    BY <1>8
  <2>2. Paged(page, fetch, last, logged) /\ Asked(page, fetch)
    BY <1>4, <2>1 DEF InMemory
  <2> QED BY <1>3, <1>6, <1>7, <2>2, PagedAdvance
<1>14. last' = last + 1 /\ last + 1 = Len(Append(logged, e))
  BY <1>1, <1>3, <1>6
<1>15. Stage(task[t], slots, last, born, logged)'
  BY <1>1, <1>5, <1>8 DEF Stage
<1>16. InMemory'
  BY <1>1, <1>8, <1>11, <1>12, <1>13, <1>14, <1>15 DEF InMemory
<1> QED BY <1>10, <1>16 DEF Clean

\* Saving the cursor, or failing to: a restart then finds the log as it was.
LEMMA PersistClean ==
  ASSUME LogTyped, NEW t \in Task, Persist(t), harm = {} => Clean, harm' = {}
  PROVE  Clean'
<1>1. /\ task[t].at = "persist" /\ task' = [task EXCEPT ![t] = Idle]
      /\ \/ cursor' = task[t].seq /\ durable' = logged
         \/ cursor' = cursor /\ durable' = durable
      /\ last' = last /\ logged' = logged
      /\ slots' = slots /\ page' = page /\ fetch' = fetch /\ born' = born /\ harm' = harm
  BY DEF Persist
<1>3. LogTypeOK /\ last \in Nat
  BY LogTypes DEF LogTyped
<1>4. Clean /\ InMemory /\ (\A o \in Task \ {t} : ~ Appending(o)) /\ task["ble"].at # "clear"
  BY <1>1, OneAppends
<1>5. Idle.at = "idle"
  BY DEF Idle
<1>6. task[t].seq = last /\ last = Len(logged) /\ Ring(slots, last, logged)
  BY <1>1, <1>4 DEF InMemory, Stage
<1>8. /\ task'[t] = Idle /\ \A o \in Task \ {t} : task'[o] = task[o]
      /\ ~ (Appending("app")' /\ Appending("ble")')
      /\ \A o \in Task \ {t} : Stage(task[o], slots, last, born, logged)'
      /\ task["app"].at' # "relog"
      /\ Paging' => Paging
  <2>1. Idle.at # "paging" /\ Idle.at # "relog" /\ task["app"].at # "relog"
    BY <1>4, <1>5 DEF InMemory
  <2> QED BY <1>1, <1>3, <1>4, <2>1, StepAlone
<1>9. Flash'
  BY <1>1, <1>4, <1>6, <1>8 DEF Clean, Flash
<1>10. cursor' <= last /\ Overtaken(slots, cursor', last)
  <2>1. cursor <= last /\ Overtaken(slots, cursor, last)
    BY <1>4 DEF InMemory
  <2>2. last <= last /\ Overtaken(slots, last, last)
    BY <1>3, NotOvertaken
  <2> QED BY <1>1, <1>6, <2>1, <2>2
<1>11. Stage(task[t], slots, last, born, logged)'
  BY <1>5, <1>8 DEF Stage
<1>12. InMemory'
  BY <1>1, <1>4, <1>8, <1>10, <1>11 DEF InMemory
<1> QED BY <1>9, <1>12 DEF Clean

\* A change of owner empties the memory, not yet the flash.
LEMMA BeginClearClean ==
  ASSUME LogTyped, BeginClear, harm = {} => Clean, harm' = {}
  PROVE  Clean'
<1> DEFINE w == [task["ble"] EXCEPT !.at = "clear"]
<1>1. /\ task' = [task EXCEPT !["ble"] = w] /\ last' = 0 /\ logged' = <<>>
      /\ harm' = Disturbed("ble")
      /\ slots' = slots /\ cursor' = cursor /\ page' = page /\ fetch' = fetch /\ born' = born
      /\ durable' = durable
  BY DEF BeginClear
<1>2. LogTypeOK /\ "ble" \in Task /\ task["ble"] \in Works
  BY TwoTasks, TypedTasks DEF LogTyped
<1>3. harm = {} /\ \A o \in Task \ {"ble"} : ~ Writing(o) /\ ~ Appending(o)
  BY <1>1, <1>2, Undisturbed
<1>4. Clean /\ task["app"].at # "relog"
  BY <1>3, TwoTasks DEF Writing
<1>5. w.at = "clear"
  BY <1>2 DEF Works
<1> HIDE DEF w
<1>8. /\ task'["ble"] = w /\ \A o \in Task \ {"ble"} : task'[o] = task[o]
      /\ ~ (Appending("app")' /\ Appending("ble")')
      /\ \A o \in Task \ {"ble"} : Stage(task[o], slots, last, born, logged)'
      /\ task["app"].at' # "relog"
      /\ Paging' => FALSE
  <2>1. w.at # "paging" /\ w.at # "relog"
    BY <1>5
  <2> QED BY <1>1, <1>2, <1>3, <1>4, <2>1, StepAlone
<1>9. Rising(<<>>, born)
  BY DEF Rising
<1>10. Flash'
  BY <1>1, <1>4, <1>8, <1>9 DEF Clean, Flash
<1>11. Ring(slots, 0, <<>>) /\ Len(<<>>) = 0
  BY EmptyRing
<1>12. Stage(task["ble"], slots, last, born, logged)'
  BY <1>1, <1>5, <1>8 DEF Stage
<1>13. InMemory'
  BY <1>1, <1>5, <1>8, <1>11, <1>12 DEF InMemory
<1> QED BY <1>10, <1>13 DEF Clean

\* It empties the flash; the old records stay in their slots, out of reach.
LEMMA PersistClearClean ==
  ASSUME LogTyped, PersistClear, harm = {} => Clean, harm' = {}
  PROVE  Clean'
<1> DEFINE w == [task["ble"] EXCEPT !.at = "begin"]
<1>1. /\ task["ble"].at = "clear" /\ task' = [task EXCEPT !["ble"] = w] /\ durable' = logged
      /\ slots' = slots /\ last' = last /\ page' = page /\ fetch' = fetch /\ born' = born
      /\ logged' = logged
  BY DEF PersistClear
<1>2. LogTypeOK /\ "ble" \in Task /\ task["ble"] \in Works
  BY TwoTasks, TypedTasks DEF LogTyped
<1>3. harm = {} /\ cursor' = 0
  <2>1. PICK ok \in WriteOutcomes : cursor' = (IF ok THEN 0 ELSE cursor) /\ harm' = Outcome(ok)
    BY DEF PersistClear
  <2> QED BY <2>1 DEF Outcome
<1>4. Clean /\ InMemory /\ (\A o \in Task \ {"ble"} : ~ Appending(o))
  BY <1>1, <1>2, <1>3, OneAppends
<1>5. w.at = "begin"
  BY <1>2 DEF Works
<1>6. last = 0 /\ last = Len(logged)
  BY <1>1, <1>2, <1>4 DEF InMemory, Stage
<1> HIDE DEF w
<1>8. /\ task'["ble"] = w /\ \A o \in Task \ {"ble"} : task'[o] = task[o]
      /\ ~ (Appending("app")' /\ Appending("ble")')
      /\ \A o \in Task \ {"ble"} : Stage(task[o], slots, last, born, logged)'
      /\ task["app"].at' # "relog"
      /\ Paging' => FALSE
  <2>1. w.at # "paging" /\ w.at # "relog" /\ task["app"].at # "relog"
    BY <1>4, <1>5 DEF InMemory
  <2> QED BY <1>1, <1>2, <1>4, <2>1, StepAlone
<1>9. Ring(slots, 0, logged)
  BY EmptyRing
<1>10. Flash'
  BY <1>1, <1>3, <1>4, <1>6, <1>8, <1>9 DEF Clean, Flash
<1>11. Overtaken(slots, 0, 0)
  BY NotOvertaken
<1>12. Stage(task["ble"], slots, last, born, logged)'
  BY <1>1, <1>5, <1>6, <1>8 DEF Stage
<1>13. InMemory'
  BY <1>1, <1>3, <1>4, <1>6, <1>8, <1>9, <1>11, <1>12 DEF InMemory
<1> QED BY <1>10, <1>13 DEF Clean

\* A factory reset empties the flash under the memory.
LEMMA EraseClean ==
  ASSUME LogTyped, Erase, harm = {} => Clean, harm' = {}
  PROVE  Clean'
<1>1. LogTypeOK /\ "app" \in Task /\ "ble" \in Task /\ task["app"] \in Works /\ task["app"].at = "idle"
      /\ last' = last /\ page' = page /\ fetch' = fetch /\ born' = born
  BY TwoTasks, TypedTasks DEF LogTyped, Erase
<1>2. CASE /\ slots' = [i \in Slot |-> Blank] /\ cursor' = 0 /\ logged' = <<>> /\ durable' = <<>>
           /\ harm' = Disturbed("app") /\ task' = [task EXCEPT !["app"].at = "relog"]
  <2>1. harm = {} /\ \A o \in Task \ {"app"} : ~ Writing(o) /\ ~ Appending(o)
    BY <1>1, <1>2, Undisturbed
  <2>2. task'["ble"] = task["ble"] /\ task'["app"].at = "relog"
    BY <1>1, <1>2, TypedTasks DEF Works
  <2>3. ~ Appending("ble")'
    BY <2>1, <2>2, TwoTasks DEF Appending
  <2>4. Rising(<<>>, born) /\ Ring(slots', 0, <<>>) /\ Len(<<>>) = 0
    BY EmptyRing DEF Rising
  <2>5. Flash'
    BY <1>1, <1>2, <2>3, <2>4 DEF Flash
  <2>6. \A i \in Slot : slots'[i] = Blank
    BY <1>2
  <2>7. 0 \in Slot
    BY Slots
  <2>8. Wiped'
    BY <1>2, <2>2, <2>3, <2>6, <2>7 DEF Wiped
  <2> QED BY <2>5, <2>8 DEF Clean
<1>3. CASE /\ task' = [task EXCEPT !["app"].at = "restart"]
           /\ UNCHANGED <<slots, cursor, logged, durable, harm>>
  <2>1. Clean
    BY <1>3
  <2>2. task'["ble"] = task["ble"] /\ task'["app"].at = "restart"
    BY <1>1, <1>3, TypedTasks DEF Works
  <2>3. InMemory
    BY <1>1, <2>1 DEF Clean, Wiped
  <2>4. ~ Appending("app")' /\ (Appending("ble")' => Appending("ble"))
    BY <2>2 DEF Appending
  <2>5. Flash'
    BY <1>1, <1>3, <2>1, <2>4 DEF Clean, Flash
  <2>6. Stage(task["ble"], slots, last, born, logged)'
    BY <1>1, <1>3, <2>2, <2>3 DEF InMemory
  <2>7. Stage(task["app"], slots, last, born, logged)'
    BY <2>2 DEF Stage
  <2>8. Paging' => Paging
    BY <2>2 DEF Paging
  <2>9. InMemory'
    BY <1>1, <1>3, <2>2, <2>3, <2>6, <2>7, <2>8, TwoTasks DEF InMemory
  <2> QED BY <2>5, <2>9 DEF Clean
<1> QED BY <1>2, <1>3 DEF Erase

\* Its own record is the first of the log a restart finds.
LEMMA RelogClean ==
  ASSUME LogTyped, Relog, harm = {} => Clean, harm' = {}
  PROVE  Clean'
<1> DEFINE e == born + 1
<1>1. /\ task["app"].at = "relog" /\ task' = [task EXCEPT !["app"].at = "restart"]
      /\ born' = e /\ cursor' = 1 /\ logged' = <<e>> /\ durable' = <<e>>
      /\ slots' = [slots EXCEPT ![0] = [seq |-> 1, event |-> e]]
      /\ harm' = harm
  BY DEF Relog
<1>2. LogTypeOK /\ SlotsTyped(slots) /\ "app" \in Task /\ "ble" \in Task /\ task["app"] \in Works /\ born \in Nat
      /\ 0 \in Slot /\ SlotCount \in Nat /\ SlotCount > 0
  BY TwoTasks, TypedTasks, LogTypes, Slots DEF LogTyped
<1>3. e \in Nat
  BY <1>2
<1> HIDE DEF e
<1>4. Clean /\ Wiped
  BY <1>1 DEF Clean, InMemory
<1>5. task'["ble"] = task["ble"] /\ task'["app"].at = "restart"
  BY <1>1, <1>2, TypedTasks DEF Works
<1>6. ~ Appending("ble")'
  BY <1>4, <1>5 DEF Appending, Wiped
<1>7. slots'[0] = [seq |-> 1, event |-> e] /\ \A i \in Slot \ {0} : slots'[i] = Blank
  BY <1>1, <1>2, <1>4 DEF Wiped, SlotsTyped
<1>8. Len(<<e>>) = 1 /\ <<e>>[1] = e /\ DOMAIN <<e>> = {1}
  OBVIOUS
<1>9. Wiped'
  BY <1>1, <1>5, <1>6, <1>7, <1>8 DEF Wiped
<1>10. Rising(<<e>>, e)
  BY <1>3, <1>8 DEF Rising
<1>11. Ring(slots', 1, <<e>>)
  <2>1. Within(1) = {1}
    BY <1>2 DEF Within
  <2>2. SlotOf(1) = 0
    <3>1. 0 % SlotCount = 0
      BY <1>2
    <3> QED BY <3>1 DEF SlotOf
  <2>3. Genuine(slots', 1, <<e>>)
    BY <1>7, <1>8, <2>2 DEF Genuine
  <2> QED BY <2>1, <2>3 DEF Ring
<1>12. Flash'
  BY <1>1, <1>6, <1>8, <1>10, <1>11 DEF Flash
<1> QED BY <1>9, <1>12 DEF Clean

\* A restart finds what the flash holds.
LEMMA RestartClean ==
  ASSUME LogTyped, Restart, harm = {} => Clean, harm' = {}
  PROVE  Clean'
<1>1. /\ last' = cursor /\ task' = [t \in Task |-> Idle]
      /\ logged' = durable /\ slots' = slots /\ cursor' = cursor /\ born' = born /\ durable' = durable
      /\ harm' = harm
  BY DEF Restart
<1>2. Flash /\ cursor \in Nat
  BY <1>1, LogTypes DEF Clean, LogTyped
<1>3. \A t \in Task : task'[t].at = "idle"
  BY <1>1 DEF Idle
<1>4. task'["app"].at = "idle" /\ task'["ble"].at = "idle"
  BY <1>3, TwoTasks
<1>5. Flash'
  BY <1>1, <1>2, <1>4 DEF Flash, Appending
<1>6. \A t \in Task : Stage(task[t], slots, last, born, logged)'
  BY <1>3 DEF Stage
<1>7. Overtaken(slots, cursor, cursor) /\ cursor <= cursor
  BY <1>2, NotOvertaken
<1>8. InMemory'
  BY <1>1, <1>2, <1>4, <1>6, <1>7 DEF InMemory, Paging, Flash
<1> QED BY <1>5, <1>8 DEF Clean

\* A request announces what can be read.
LEMMA GetClean ==
  ASSUME LogTyped, Get, harm = {} => Clean, harm' = {}
  PROVE  Clean'
<1>1. /\ task["ble"].at = "idle" /\ task' = [task EXCEPT !["ble"].at = "paging"]
      /\ fetch' = [NoFetch EXCEPT !.at = "waiting", !.asof = Events(Readable(0))]
      /\ page' = [since |-> 0, sent |-> 0, total |-> CountSince(0)]
      /\ slots' = slots /\ cursor' = cursor /\ last' = last
      /\ born' = born /\ logged' = logged /\ durable' = durable /\ harm' = harm
  BY DEF Get, log, logHistory
<1>2. LogTypeOK /\ "app" \in Task /\ "ble" \in Task /\ task["ble"] \in Works
  BY TwoTasks, TypedTasks DEF LogTyped
<1>3. task'["app"] = task["app"] /\ task'["ble"].at = "paging"
  BY <1>1, <1>2, TypedTasks DEF Works
<1>4. ~ Appending("ble")' /\ (Appending("app")' <=> Appending("app"))
  BY <1>3 DEF Appending
<1>5. Clean
  BY <1>1
<1>6. Flash'
  BY <1>1, <1>4, <1>5 DEF Clean, Flash
<1>7. CASE Wiped
  <2>1. Wiped'
    BY <1>1, <1>3, <1>4, <1>7 DEF Wiped
  <2> QED BY <1>6, <2>1 DEF Clean
<1>8. CASE InMemory
  <2>1. fetch'.records = <<>> /\ fetch'.asof = Events(Readable(0))
    BY <1>1 DEF NoFetch
  <2>2. Paged(page', fetch', last, logged)
    BY <1>1, <1>2, <1>8, <2>1, PagedFirst DEF InMemory
  <2>3. Stage(task["app"], slots, last, born, logged)'
    BY <1>1, <1>2, <1>3, <1>8 DEF InMemory
  <2>4. Stage(task["ble"], slots, last, born, logged)'
    BY <1>3 DEF Stage
  <2>5. \A t \in Task : Stage(task[t], slots, last, born, logged)'
    BY <2>3, <2>4, TwoTasks
  <2>6. InMemory'
    BY <1>1, <1>3, <1>8, <2>2, <2>5 DEF InMemory
  <2> QED BY <1>6, <2>6 DEF Clean
<1> QED BY <1>5, <1>7, <1>8 DEF Clean

\* A page changes nothing of the log.
LEMMA PageClean ==
  ASSUME LogTyped, SendPage, harm = {} => Clean, harm' = {}, Paging => Asked(page, fetch)
  PROVE  Clean'
<1> DEFINE got == Read(page.since)
<1>1. PICK delivered \in BOOLEAN, records \in Seq(Record) : PageSent(got, delivered, records)
  BY SendPageTyped
<1>2. LogTypeOK /\ got = Read(page.since)
  BY DEF LogTyped
<1> HIDE DEF got
<1>3. /\ task["ble"].at = "paging"
      /\ task'["ble"].at \in {"idle", "paging"} /\ task'["app"] = task["app"]
      /\ slots' = slots /\ cursor' = cursor /\ last' = last
      /\ born' = born /\ logged' = logged /\ durable' = durable /\ harm' = harm
  BY <1>1 DEF PageSent
<1>4. ~ Appending("ble")' /\ (Appending("app")' <=> Appending("app"))
  BY <1>3 DEF Appending
<1>5. Clean /\ Asked(page, fetch)
  BY <1>3 DEF Paging
<1>6. Flash'
  BY <1>3, <1>4, <1>5 DEF Clean, Flash
<1>7. CASE Wiped
  <2>1. Wiped'
    BY <1>3, <1>4, <1>7 DEF Wiped
  <2> QED BY <1>6, <2>1 DEF Clean
<1>8. CASE InMemory
  <2>1. last = Len(logged) /\ Ring(slots, last, logged) /\ Paged(page, fetch, last, logged)
    BY <1>3, <1>8 DEF InMemory, Paging
  <2>2. page'.since <= last /\ \A i \in DOMAIN records : records[i].event = logged[records[i].seq]
    BY <1>1, <1>2, <1>5, <2>1, PageTrue
  <2>3. ~ fetch'.lost /\ ~ fetch'.torn =>
          /\ page'.sent + (last - page'.since) >= page'.total
          /\ \E base \in Nat : Covers(base, page', fetch', last, logged)
    BY <1>1, <1>2, <1>5, <2>1, PageCovers
  <2>4. fetch'.records = records
    BY <1>1 DEF PageSent
  <2>5. Paged(page', fetch', last, logged)
    BY <2>2, <2>3, <2>4 DEF Paged
  <2>6. Stage(task["app"], slots, last, born, logged)'
    BY <1>3, <1>8, TwoTasks DEF InMemory
  <2>7. Stage(task["ble"], slots, last, born, logged)'
    BY <1>3 DEF Stage
  <2>8. \A t \in Task : Stage(task[t], slots, last, born, logged)'
    BY <2>6, <2>7, TwoTasks
  <2>9. InMemory'
    BY <1>3, <1>8, <2>5, <2>8 DEF InMemory
  <2> QED BY <1>6, <2>9 DEF Clean
<1> QED BY <1>5, <1>7, <1>8 DEF Clean

LEMMA TimeoutClean ==
  ASSUME FetchTimeout, harm = {} => Clean, harm' = {}
  PROVE  Clean'
<1>1. task["ble"].at # "paging" /\ UNCHANGED <<slots, cursor, last, task, page, born, logged, durable, harm>>
  BY DEF FetchTimeout, log, logHistory
<1>2. ~ Paging'
  BY <1>1 DEF Paging
<1> QED BY <1>1, <1>2 DEF Clean, Flash, Wiped, InMemory, Appending

LEMMA StutterClean ==
  ASSUME UNCHANGED logVars, harm = {} => Clean, harm' = {}
  PROVE  Clean'
BY DEF Clean, Flash, Wiped, InMemory, Appending, Paging, logVars, log, logHistory

LEMMA NextClean ==
  ASSUME LogTyped, Paging => Asked(page, fetch), harm = {} => Clean, [LogNext]_logVars, harm' = {}
  PROVE  Clean'
<1>1. ASSUME NEW t \in Task, AppendSteps(t) PROVE Clean'
  BY <1>1, AppendClean, WriteClean, AdvanceClean, PersistClean DEF AppendSteps
<1>2. CASE BeginClear
  BY <1>2, BeginClearClean
<1>3. CASE PersistClear
  BY <1>3, PersistClearClean
<1>4. CASE Erase
  BY <1>4, EraseClean
<1>5. CASE Relog
  BY <1>5, RelogClean
<1>6. CASE Restart
  BY <1>6, RestartClean
<1>7. CASE Get
  BY <1>7, GetClean
<1>8. CASE SendPage
  BY <1>8, PageClean
<1>9. CASE FetchTimeout
  BY <1>9, TimeoutClean
<1>10. CASE UNCHANGED logVars
  BY <1>10, StutterClean
<1> QED BY <1>1, <1>2, <1>3, <1>4, <1>5, <1>6, <1>7, <1>8, <1>9, <1>10 DEF LogNext

-----------------------------------------------------------------------------
(* The invariant of the log                                                *)

\* The log starts empty.
LEMMA InitLog == LogInit => LogInv
<1> SUFFICES ASSUME LogInit PROVE LogInv
  OBVIOUS
<1>1. /\ cursor = 0 /\ last = 0 /\ born = 0 /\ logged = <<>> /\ durable = <<>>
      /\ fetch = NoFetch /\ \A t \in Task : task[t].at = "idle"
  BY DEF LogInit, Idle
<1>2. LogTyped
  BY InitTyped
<1>3. ~ Paging /\ ~ Appending("app") /\ ~ Appending("ble") /\ task["app"].at = "idle" /\ task["ble"].at = "idle"
  BY <1>1, TwoTasks DEF Paging, Appending
<1>4. fetch.at = "none"
  BY <1>1 DEF NoFetch
<1>5. Ring(slots, 0, <<>>)
  BY EmptyRing
<1>6. Rising(<<>>, 0)
  BY DEF Rising
<1>7. Len(<<>>) = 0
  OBVIOUS
<1>8. Flash
  BY <1>1, <1>3, <1>5, <1>6, <1>7 DEF Flash
<1>9. Overtaken(slots, 0, 0)
  BY DEF Overtaken, Within
<1>10. \A t \in Task : Stage(task[t], slots, 0, 0, <<>>)
  BY <1>1 DEF Stage
<1>11. InMemory
  BY <1>1, <1>3, <1>5, <1>7, <1>9, <1>10 DEF InMemory
<1> QED BY <1>2, <1>3, <1>4, <1>8, <1>11 DEF LogTyped, LogInv, FetchAnswered

\* What has disturbed the log is not forgotten.
LEMMA HarmKept == [LogNext]_logVars /\ harm' = {} => harm = {}
BY DEF LogNext, AppendSteps, BeginAppend, WriteSlot, Advance, Persist, BeginClear, PersistClear,
       Erase, Relog, Restart, Get, SendPage, FetchTimeout, Disturbed, Outcome, log, logHistory, logVars

\* The actions of a writer leave the reply and the fetch as they are.
Writes == (\E t \in Task : AppendSteps(t)) \/ BeginClear \/ PersistClear \/ Erase \/ Relog \/ UNCHANGED logVars

LEMMA WritersApart ==
  ASSUME LogTyped, Writes
  PROVE  UNCHANGED <<page, fetch>> /\ Paging' = Paging
<1>1. ASSUME NEW t \in Task, AppendSteps(t) PROVE UNCHANGED <<page, fetch>> /\ Paging' = Paging
  <2>1. UNCHANGED <<page, fetch>>
    BY <1>1 DEF AppendSteps, BeginAppend, WriteSlot, Advance, Persist
  <2>2. task[t].at # "paging" /\ \A o \in Task : o # t => task'[o] = task[o]
    BY <1>1, TypedTasks DEF LogTyped, AppendSteps, BeginAppend, WriteSlot, Advance, Persist
  <2>3. task \in [Task -> Works]
    BY TypedTasks DEF LogTyped
  <2>4. CASE BeginAppend(t)
    <3>1. task' = [task EXCEPT ![t] = [at |-> "write", seq |-> last + 1, event |-> born + 1]]
      BY <2>4 DEF BeginAppend
    <3>2. task'[t].at = "write"
      BY <2>3, <3>1
    <3> QED BY <2>1, <2>2, <3>2, TwoTasks DEF Paging
  <2>5. CASE WriteSlot(t) \/ Advance(t)
    <3>1. task'[t].at \in {"advance", "persist"}
      BY <2>3, <2>5 DEF Works, WriteSlot, Advance
    <3> QED BY <2>1, <2>2, <3>1, TwoTasks DEF Paging
  <2>6. CASE Persist(t)
    <3>1. task'[t] = Idle
      BY <2>3, <2>6 DEF Persist
    <3> QED BY <2>1, <2>2, <3>1, TwoTasks DEF Paging, Idle
  <2> QED BY <1>1, <2>4, <2>5, <2>6 DEF AppendSteps
<1>2. ASSUME BeginClear \/ PersistClear \/ Erase \/ Relog PROVE UNCHANGED <<page, fetch>> /\ Paging' = Paging
  <2>1. UNCHANGED <<page, fetch>>
    BY <1>2 DEF BeginClear, PersistClear, Erase, Relog
  <2>2. CASE BeginClear \/ PersistClear
    BY <2>1, <2>2, TypedTasks, TwoTasks DEF LogTyped, Works, BeginClear, PersistClear, Paging
  <2>3. CASE Erase \/ Relog
    BY <2>1, <2>3, TypedTasks, TwoTasks DEF LogTyped, Works, Erase, Relog, Paging
  <2> QED BY <1>2, <2>2, <2>3
<1>3. ASSUME UNCHANGED logVars PROVE UNCHANGED <<page, fetch>> /\ Paging' = Paging
  BY <1>3 DEF logVars, Paging
<1> QED BY <1>1, <1>2, <1>3 DEF Writes

\* The reply and what the phone holds of it go together as long as it is sent.
LEMMA NextAsked ==
  ASSUME LogTyped, Paging => Asked(page, fetch), [LogNext]_logVars
  PROVE  (Paging => Asked(page, fetch))'
<1>1. CASE Writes
  <2>1. UNCHANGED <<page, fetch>> /\ Paging' = Paging
    BY <1>1, WritersApart
  <2> QED BY <2>1 DEF Asked
<1>2. CASE Restart
  <2>1. task'["ble"].at = "idle"
    BY <1>2, TwoTasks DEF Restart, Idle
  <2> QED BY <2>1 DEF Paging
<1>3. CASE Get
  <2>1. page'.sent = 0 /\ page'.since = 0
    BY <1>3 DEF Get
  <2>2. fetch'.at = "waiting" /\ fetch'.records = <<>> /\ fetch'.lost = FALSE
    BY <1>3 DEF Get, NoFetch
  <2> QED BY <2>1, <2>2 DEF Asked
<1>4. CASE SendPage
  <2> DEFINE got == Read(page.since)
  <2>1. PICK delivered \in BOOLEAN, records \in Seq(Record) : PageSent(got, delivered, records)
    BY <1>4, SendPageTyped
  <2>2. LogTypeOK /\ got = Read(page.since)
    BY DEF LogTyped
  <2> HIDE DEF got
  <2>3. Asked(page, fetch)
    BY <2>1 DEF PageSent, Paging
  <2>4. ~ EndsReply(got) => Asked(page', fetch')
    BY <2>1, <2>2, <2>3, PageAsked
  <2>5. Paging' => ~ EndsReply(got)
    BY <2>1 DEF PageSent, Paging
  <2> QED BY <2>4, <2>5
<1>5. CASE FetchTimeout
  <2>1. ~ Paging'
    BY <1>5 DEF FetchTimeout, Paging
  <2> QED BY <2>1
<1> QED BY <1>1, <1>2, <1>3, <1>4, <1>5 DEF LogNext, Writes

\* A reply that has ended with every frame delivered, from a settled ring, holds
\* the records that were announced.
LEMMA NextAnswered ==
  ASSUME LogInv, [LogNext]_logVars
  PROVE  FetchAnswered'
<1> SUFFICES ASSUME fetch'.at = "waiting", task'["ble"].at # "paging", harm' = {}
             PROVE  fetch'.lost \/ fetch'.torn
  BY DEF FetchAnswered
<1>1. harm = {}
  BY HarmKept
<1>2. CASE Writes
  <2>1. UNCHANGED <<page, fetch>> /\ Paging' = Paging
    BY <1>2, WritersApart DEF LogInv, LogTyped
  <2> QED BY <1>1, <2>1 DEF LogInv, FetchAnswered, Paging
<1>3. CASE Restart
  <2>1. fetch' = IF fetch.at = "waiting" THEN [fetch EXCEPT !.at = "failed"] ELSE fetch
    BY <1>3 DEF Restart
  <2>2. fetch \in Fetches
    BY DEF LogInv, LogTypeOK, Fetches
  <2>3. fetch'.at # "waiting"
    BY <2>1, <2>2 DEF Fetches
  <2> QED BY <2>3
<1>4. CASE Get
  <2>1. Paging'
    BY <1>4, TypedTasks, TwoTasks DEF Get, Paging, LogInv, Works
  <2> QED BY <2>1 DEF Paging
<1>5. CASE SendPage
  <2> DEFINE got == Read(page.since)
  <2>1. PICK delivered \in BOOLEAN, records \in Seq(Record) : PageSent(got, delivered, records)
    BY <1>5, SendPageTyped DEF LogInv, LogTyped
  <2>2. LogTypeOK /\ got = Read(page.since)
    BY DEF LogInv
  <2> HIDE DEF got
  <2>3. Asked(page, fetch) /\ (Wiped \/ InMemory) /\ Paging
    BY <1>1, <2>1 DEF PageSent, Paging, LogInv
  <2>4. EndsReply(got)
    BY <2>1 DEF PageSent
  <2>5. CASE Wiped
    BY <2>1, <2>5 DEF Wiped, Unsettled, PageSent
  <2>6. CASE InMemory
    <3> SUFFICES ASSUME ~ fetch'.lost, ~ fetch'.torn PROVE FALSE
      OBVIOUS
    <3>1. last = Len(logged) /\ Ring(slots, last, logged) /\ Paged(page, fetch, last, logged)
      BY <2>3, <2>6 DEF InMemory
    <3>2. Assembled(records)
      BY <2>1, <2>2, <2>3, <2>4, <3>1, PageCovers
    <3>3. fetch'.at = "done"
      BY <2>1, <2>2, <2>3, <3>2, PageAsked
    <3> QED BY <3>3
  <2> QED BY <2>3, <2>5, <2>6
<1>6. CASE FetchTimeout
  <2>1. fetch' = [fetch EXCEPT !.at = "failed"] /\ fetch \in Fetches
    BY <1>6 DEF FetchTimeout, LogInv, LogTypeOK, Fetches
  <2>2. fetch'.at # "waiting"
    BY <2>1 DEF Fetches
  <2> QED BY <2>2
<1> QED BY <1>2, <1>3, <1>4, <1>5, <1>6 DEF LogNext, Writes

\* No step breaks the invariant.
LEMMA NextLog == LogInv /\ [LogNext]_logVars => LogInv'
<1> SUFFICES ASSUME LogInv, [LogNext]_logVars PROVE LogInv'
  OBVIOUS
<1>1. LogTyped /\ (Paging => Asked(page, fetch)) /\ (harm = {} => Clean)
  BY DEF LogInv, LogTyped, Clean
<1>2. LogTyped'
  BY <1>1, NextTyped
<1>3. (Paging => Asked(page, fetch))'
  BY <1>1, NextAsked
<1>4. harm' = {} => Clean'
  BY <1>1, NextClean
<1>5. FetchAnswered'
  BY NextAnswered
<1> QED BY <1>2, <1>3, <1>4, <1>5 DEF LogInv, LogTyped, Clean

\* The event log keeps its invariant, for every size of the ring and of a page,
\* any number of events and any order of the steps of the two tasks.
LEMMA LogAlways == LogSpec => []LogInv
<1> QED BY InitLog, NextLog, PTL DEF LogSpec

\* The log holds the latest events in the order they happened and nothing else
\* (mc_event_log.c), whatever was cut short by a power cut, left behind by a change
\* of owner or overwritten by the ring, and a fetch of it that lost no frame ends.
THEOREM LogIsSound == LogSpec => []LogSound
<1> QED BY LogAlways, InvSound, PTL

-----------------------------------------------------------------------------
(* The list that a fetch resolves with                                     *)

\* Only a page resolves a fetch.
LEMMA PageResolves ==
  ASSUME LogTyped, [LogNext]_logVars, fetch.at = "waiting", fetch'.at = "done"
  PROVE  SendPage
<1>1. ~ Writes
  BY WritersApart
<1>2. ~ Restart
  BY DEF Restart, LogTyped, LogTypeOK
<1>3. ~ Get
  BY DEF Get
<1>4. ~ FetchTimeout
  BY DEF FetchTimeout, LogTyped, LogTypeOK
<1> QED BY <1>1, <1>2, <1>3, <1>4 DEF LogNext, Writes

\* The list that the fetch resolves with.
Shown ==
  LET shown == fetch'.records
  IN  /\ \A i, j \in DOMAIN shown : i < j => shown[i].seq < shown[j].seq
      /\ ~ fetch'.torn => fetch.asof \cap Events(Readable(0)) \subseteq Events(shown)
      /\ Events(shown) \subseteq {logged[i] : i \in DOMAIN logged}

\* The list of the page that resolves a fetch is in order, leaves out no event that
\* could be read throughout, and shows none that was not logged.
LEMMA FetchStep ==
  ASSUME LogInv, [LogNext]_logVars, fetch.at = "waiting", fetch'.at = "done", harm = {}
  PROVE  Shown
<1> DEFINE got == Read(page.since)
<1>1. SendPage
  BY PageResolves DEF LogInv, LogTyped
<1>2. PICK delivered \in BOOLEAN, records \in Seq(Record) : PageSent(got, delivered, records)
  BY <1>1, SendPageTyped DEF LogInv, LogTyped
<1>3. LogTypeOK /\ got = Read(page.since)
  BY DEF LogInv
<1> HIDE DEF got
<1>4. Asked(page, fetch) /\ Flash /\ (Wiped \/ InMemory)
  BY <1>2 DEF PageSent, Paging, LogInv
<1>5. fetch'.records = records
  BY <1>2 DEF PageSent
<1>6. Climbs(records) /\ Below(records, page'.since)
  BY <1>2, <1>3, <1>4, PageAsked
<1>7. CASE Wiped
  <2>1. fetch'.torn
    BY <1>2, <1>7 DEF Wiped, Unsettled, PageSent
  <2>2. Events(records) \subseteq {logged[i] : i \in DOMAIN logged}
    BY <1>2, <1>3, <1>4, <1>7, WipedShows
  <2> QED BY <1>5, <1>6, <2>1, <2>2 DEF Shown, Climbs
<1>8. CASE InMemory
  <2>1. /\ last = Len(logged) /\ Ring(slots, last, logged) /\ Paged(page, fetch, last, logged)
        /\ Rising(logged, born)
    <3>1. Paging
      BY <1>2 DEF PageSent, Paging
    <3> QED BY <1>4, <1>8, <3>1 DEF InMemory, Flash
  <2>2. ~ fetch'.torn => fetch.asof \cap Events(Readable(0)) \subseteq Events(records)
    BY <1>2, <1>3, <1>4, <2>1, DoneCovers
  <2>3. page'.since <= last /\ \A i \in DOMAIN records : records[i].event = logged[records[i].seq]
    BY <1>2, <1>3, <1>4, <2>1, PageTrue
  <2>4. page'.since \in Nat /\ last \in Nat /\ logged \in Seq(Event)
    <3>1. NextSince(got) \in Nat
      BY <1>3, PageFacts
    <3> QED BY <1>2, <1>3, <3>1, LogTypes DEF PageSent
  <2>5. ASSUME NEW i \in DOMAIN records PROVE records[i].event \in {logged[k] : k \in DOMAIN logged}
    <3>1. records[i] \in Record
      OBVIOUS
    <3>2. records[i].seq \in Nat /\ records[i].seq >= 1
      BY <3>1 DEF Record, Event
    <3>3. records[i].seq <= page'.since
      BY <1>6 DEF Below
    <3>4. records[i].seq \in 1 .. last
      BY <2>3, <2>4, <3>2, <3>3
    <3>5. records[i].seq \in DOMAIN logged
      BY <2>1, <2>4, <3>4
    <3> QED BY <2>3, <3>5
  <2>6. Events(records) \subseteq {logged[i] : i \in DOMAIN logged}
    BY <2>5 DEF Events
  <2> QED BY <1>5, <1>6, <2>2, <2>6 DEF Shown, Climbs
<1> QED BY <1>4, <1>7, <1>8

\* What getEventLog() resolves with is in order, without a repeat, complete but for
\* what the ring has evicted, and of the log as it is, though app_task goes on
\* logging between the pages.
THEOREM LogIsShown == LogSpec => FetchShows
<1>1. LogInv /\ [LogNext]_logVars =>
        [fetch.at = "waiting" /\ fetch'.at = "done" /\ harm = {} => Shown]_logVars
  BY FetchStep
<1>2. FetchShows <=> [][fetch.at = "waiting" /\ fetch'.at = "done" /\ harm = {} => Shown]_logVars
  BY DEF FetchShows, Shown
<1> QED BY LogAlways, <1>1, <1>2, PTL DEF LogSpec

=============================================================================

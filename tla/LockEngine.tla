----------------------------- MODULE LockEngine -----------------------------
(***************************************************************************)
(* mc_lock.c as functions on a board, the pair of a lock record and the    *)
(* engine record it immobilizes.  Like OutputEngine it has no state of its *)
(* own; Lock and Device keep the board and compose the calls.              *)
(*                                                                         *)
(* Time is relative.  parked_for, entry_age and quiet count the ticks      *)
(* since parked_since_ms, entry_start_ms and last_attempt_ms, and are 0    *)
(* while nothing reads them; backoff counts the ticks left until           *)
(* backoff_until_ms, so backoff > 0 is the code's backoff_active.  The     *)
(* salted hash of the cheat-code is the code itself, <<>> when none is     *)
(* set.                                                                    *)
(***************************************************************************)
EXTENDS OutputEngine, Sequences

CONSTANTS
  Codes,          \* the cheat-codes a rider may choose
  Button,         \* the handlebar buttons
  Grace,          \* auto_lock_grace_ms, in ticks
  Window,         \* cheatcode_window_ms
  QuietReset,     \* MC_LOCK_QUIET_RESET_MS
  FreeAttempts,   \* MC_LOCK_FREE_ATTEMPTS
  BackoffTicks    \* <<15 s, 30 s, 60 s>>: the steps of backoff_duration_ms()

ASSUME LockAssumption ==
  /\ Codes \subseteq Seq(Button) \ {<<>>}
  /\ Grace \in Nat /\ Window \in Nat /\ QuietReset \in Nat /\ FreeAttempts \in Nat
  /\ BackoffTicks \in [1 .. 3 -> Nat \ {0}]

Methods == {"phone", "switch"}
LockStates == {"DISABLED", "UNLOCKED", "PARKED", "LOCKED"}

\* Bound of the count.  From here on the penalty stays the longest one; the
\* code's uint16_t counts on, and is back at zero after 65,536 wrong entries.
MaxWrong == FreeAttempts + 3

LockConfig ==
  [ immobilizer_enabled : BOOLEAN,
    methods             : SUBSET Methods,
    switch_input        : BOOLEAN,            \* ignition_switch_input >= 0
    code                : Codes \cup {<<>>} ]

LockRecord ==
  [ config      : LockConfig,
    state       : LockStates,
    locked_flag : BOOLEAN,
    parked_for  : Nat,
    entry       : Seq(Button),
    entry_age   : Nat,
    wrong       : Nat,
    backoff     : Nat,
    quiet       : Nat,
    prev_switch : BOOLEAN,
    dirty       : BOOLEAN ]

Board == [lock : LockRecord, output : Engine]

DefaultLockConfig ==
  [ immobilizer_enabled |-> FALSE, methods |-> {},
    switch_input |-> FALSE, code |-> <<>> ]

SwitchActive(cfg) == "switch" \in cfg.methods /\ cfg.switch_input

\* mc_lock_config_validate() accepts the configuration.
ValidLockConfig(cfg, outputs) ==
  /\ cfg.immobilizer_enabled =>
       /\ cfg.code # <<>> \/ SwitchActive(cfg)
       /\ FirstChannel(outputs.is_ignition) # None
  /\ "switch" \in cfg.methods => cfg.switch_input

\* What mc_diag_tick() can report of the engine: it is never running with an
\* assigned ignition that is off.
MayRun(o) == FirstChannel(o.config.is_ignition) = None \/ IgnitionLive(o)

-----------------------------------------------------------------------------
(* Entering a state                                                        *)

\* force_off_on_lock(): every lit channel is commanded off, running hazards
\* excepted; if the ignition is among them its off edge takes the rest along.
ForceOff(o) ==
  LET spared == IF o.hazard_active THEN o.config.hazard_member ELSE {}
      doused == o.commanded \ spared
      dark   == ClearDeadlines([o EXCEPT !.commanded = @ \ doused],
                               doused \cap OnSide(o.config))
  IN  IF doused \cap o.config.is_ignition # {} THEN IgnitionOff(dark) ELSE dark

ResetCheatcode(l) ==
  [l EXCEPT !.entry = <<>>, !.entry_age = 0, !.wrong = 0,
            !.quiet = 0, !.backoff = 0]

\* locked_flag follows the state, and marks the lock dirty when it changes.
SetFlag(l, flag) ==
  [l EXCEPT !.locked_flag = flag, !.dirty = @ \/ l.locked_flag # flag]

EnterLocked(b) ==
  [ lock   |-> [SetFlag(b.lock, TRUE) EXCEPT !.state = "LOCKED", !.parked_for = 0],
    output |-> SetImmobilized(ForceOff(b.output), TRUE) ]

\* Mutant: unlocking leaves the ignition off.
EnterUnlockedDark(b) ==
  [ lock   |-> ResetCheatcode([SetFlag(b.lock, FALSE) EXCEPT
                                 !.state = "UNLOCKED", !.parked_for = 0]),
    output |-> SetImmobilized(b.output, FALSE) ]

\* Leaving LOCKED lifts the immobilizer, forgets the cheat-code attempts and
\* turns the key.
EnterUnlocked(b) ==
  LET l    == [SetFlag(b.lock, FALSE) EXCEPT !.state = "UNLOCKED", !.parked_for = 0]
      free == SetImmobilized(b.output, FALSE)
      ign  == FirstChannel(free.config.is_ignition)
  IN  IF b.lock.state # "LOCKED" THEN [b EXCEPT !.lock = l]
      ELSE [ lock   |-> ResetCheatcode(l),
             output |-> IF ign = None THEN free
                        ELSE OutputSet(free, ign, TRUE, "local") ]

EnterDisabled(b) ==
  LET l == [SetFlag(b.lock, FALSE) EXCEPT !.state = "DISABLED", !.parked_for = 0]
  IN  IF b.lock.state # "LOCKED" THEN [b EXCEPT !.lock = l]
      ELSE [ lock   |-> ResetCheatcode(l),
             output |-> SetImmobilized(b.output, FALSE) ]

-----------------------------------------------------------------------------
(* Boot                                                                    *)

\* Mutant: only a running engine counts, which is never known at boot.
RidingEngineOnly(o) == o.engine_running

\* The ride-safe question of a boot and of the parked-only lock rule.
Riding(o) == o.engine_running \/ IgnitionLive(o)

\* mc_lock_init() on an engine whose outputs are restored: a persisted lock
\* is overridden when the bike seems to be running.
LockInit(cfg, flag, o) ==
  LET locked == cfg.immobilizer_enabled /\ flag /\ ~ Riding(o)
      l == [ config |-> cfg,
             state |-> CASE ~ cfg.immobilizer_enabled -> "DISABLED"
                         [] locked -> "LOCKED"
                         [] OTHER -> "UNLOCKED",
             locked_flag |-> locked,
             parked_for |-> 0, entry |-> <<>>, entry_age |-> 0,
             wrong |-> 0, backoff |-> 0, quiet |-> 0, prev_switch |-> FALSE,
             dirty |-> cfg.immobilizer_enabled /\ flag /\ Riding(o) ]
  IN  [ lock   |-> l,
        output |-> IF locked THEN ForceOff(SetImmobilized(o, TRUE))
                   ELSE SetImmobilized(o, FALSE) ]

-----------------------------------------------------------------------------
(* mc_lock_tick()                                                          *)

\* Mutant: the backoff is over at the first tick.
BackoffLeftNone(l) == 0

BackoffLeft(l) == IF l.backoff > 0 THEN l.backoff - 1 ELSE 0

\* Mutant: every tick takes the parking time anew.
ParkedForRestarted(l) == 0

ParkedFor(l) == IF l.state = "PARKED" THEN l.parked_for + 1 ELSE 0

\* One tick of time goes by, and the timers that ran out act.
Elapse(l) ==
  LET backoff == BackoffLeft(l)
      quiet   == IF l.wrong > 0 THEN l.quiet + 1 ELSE 0
      forgive == l.wrong > 0 /\ backoff = 0 /\ quiet >= QuietReset
      expired == l.entry # <<>> /\ l.entry_age + 1 >= Window
  IN  [l EXCEPT
         !.backoff    = backoff,
         !.wrong      = IF forgive THEN 0 ELSE @,
         !.quiet      = IF forgive THEN 0
                        ELSE IF quiet > QuietReset THEN QuietReset ELSE quiet,
         !.entry      = IF expired THEN <<>> ELSE @,
         !.entry_age  = IF expired \/ l.entry = <<>> THEN 0 ELSE @ + 1,
         !.parked_for = ParkedFor(l)]

\* Outside LOCKED a movement of the ignition switch moves the ignition.
FollowSwitch(b, level) ==
  LET ign == FirstChannel(b.output.config.is_ignition)
  IN  IF /\ SwitchActive(b.lock.config)
         /\ level # b.lock.prev_switch
         /\ b.lock.state # "LOCKED"
         /\ ign # None
         /\ (ign \in b.output.commanded) # level
      THEN OutputSet(b.output, ign, level, "local")
      ELSE b.output

\* The state machine, once the timers and the switch have been looked at.
GoTo(b, state) == [b EXCEPT !.lock = [@ EXCEPT !.state = state, !.parked_for = 0]]

EnabledTick(b, level) ==
  CASE b.lock.state = "DISABLED" -> GoTo(b, "UNLOCKED")
    [] b.lock.state = "UNLOCKED" ->
         IF Riding(b.output) THEN b ELSE GoTo(b, "PARKED")
    [] b.lock.state = "PARKED" ->
         IF Riding(b.output) THEN GoTo(b, "UNLOCKED")
         ELSE IF b.lock.parked_for >= Grace THEN EnterLocked(b) ELSE b
    [] b.lock.state = "LOCKED" ->
         IF level /\ "switch" \in b.lock.config.methods THEN EnterUnlocked(b) ELSE b

\* The switch is remembered, and followed.
Switched(b, level) ==
  [ lock |-> [b.lock EXCEPT !.prev_switch = level], output |-> FollowSwitch(b, level) ]

\* With the immobilizer off the switch is not even remembered.
LockTick(b, level) ==
  LET c == [b EXCEPT !.lock = Elapse(@)]
  IN  IF c.lock.config.immobilizer_enabled THEN EnabledTick(Switched(c, level), level)
      ELSE IF c.lock.state = "DISABLED" THEN c ELSE EnterDisabled(c)

-----------------------------------------------------------------------------
(* The commands                                                            *)

\* Mutant: the parked-only rule is forgotten.
RequestLockRiding(b) ==
  IF b.lock.config.immobilizer_enabled /\ b.lock.state # "LOCKED"
  THEN EnterLocked(b) ELSE b

RequestLock(b) ==
  IF /\ b.lock.config.immobilizer_enabled
     /\ b.lock.state # "LOCKED"
     /\ ~ Riding(b.output)
  THEN EnterLocked(b) ELSE b

\* Mutant: any authenticated phone unlocks.
RequestUnlockAnyMethod(b) ==
  IF b.lock.state = "LOCKED" THEN EnterUnlocked(b) ELSE b

RequestUnlock(b) ==
  IF b.lock.state = "LOCKED" /\ "phone" \in b.lock.config.methods
  THEN EnterUnlocked(b) ELSE b

BackoffDuration(wrong) ==
  CASE wrong <= FreeAttempts     -> 0
    [] wrong = FreeAttempts + 1  -> BackoffTicks[1]
    [] wrong = FreeAttempts + 2  -> BackoffTicks[2]
    [] OTHER                     -> BackoffTicks[3]

\* The presses that count: LOCKED, with a code set and no backoff running.
Listening(l) == l.state = "LOCKED" /\ l.config.code # <<>> /\ l.backoff = 0

\* A stale entry is forgotten by the press that comes too late.
Fresh(l) == l.entry = <<>> \/ l.entry_age >= Window
Entered(l, button) == Append(IF Fresh(l) THEN <<>> ELSE l.entry, button)

Typed(l, button) ==
  [l EXCEPT !.entry = Entered(l, button), !.entry_age = IF Fresh(l) THEN 0 ELSE @]

Judged(l) == [l EXCEPT !.entry = <<>>, !.entry_age = 0]

Penalized(l) ==
  LET wrong == IF l.wrong < MaxWrong THEN l.wrong + 1 ELSE MaxWrong
  IN  [Judged(l) EXCEPT !.wrong = wrong, !.quiet = 0, !.backoff = BackoffDuration(wrong)]

\* mc_lock_cheatcode_press(): the entry is judged when it is long enough.
CheatcodePress(b, button) ==
  LET entry == Entered(b.lock, button)
      code  == b.lock.config.code
  IN  IF ~ Listening(b.lock) THEN b
      ELSE IF Len(entry) < Len(code) THEN [b EXCEPT !.lock = Typed(@, button)]
      ELSE IF entry = code THEN EnterUnlocked([b EXCEPT !.lock = Judged(@)])
      ELSE [b EXCEPT !.lock = Penalized(@)]

SetCheatcode(b, code) ==
  [b EXCEPT !.lock = [ResetCheatcode(@) EXCEPT !.config.code = code, !.dirty = TRUE]]

\* Mutant: the code can be cleared with the immobilizer on.
ClearCheatcodeAnytime(b) == SetCheatcode(b, <<>>)

ClearCheatcode(b) ==
  IF b.lock.config.immobilizer_enabled THEN b ELSE SetCheatcode(b, <<>>)

\* mc_lock_apply_config(): refused whole when it does not validate.
ApplyLockConfig(b, enabled, methods, input) ==
  LET was == b.lock.config.immobilizer_enabled
      cfg == [b.lock.config EXCEPT !.immobilizer_enabled = enabled,
                                   !.methods = methods, !.switch_input = input]
      c == [b EXCEPT !.lock = [@ EXCEPT !.config = cfg, !.dirty = TRUE]]
  IN  IF ~ ValidLockConfig(cfg, b.output.config) THEN b
      ELSE IF was /\ ~ enabled THEN EnterDisabled(c)
      ELSE IF enabled /\ ~ was THEN GoTo(c, "UNLOCKED")
      ELSE c

TransferOwnership(b) ==
  [EnterDisabled(b) EXCEPT !.lock.config = DefaultLockConfig, !.lock.dirty = TRUE]
=============================================================================

-------------------------------- MODULE Lock --------------------------------
(***************************************************************************)
(* The immobilizer wired to the output engine it obeys: mc_lock.c over     *)
(* mc_output.c, called by the tick, the buttons and the BLE session, in    *)
(* any order and each call in one piece.  What persists, what the two      *)
(* tasks can do to each other inside a call, and configuration writes are  *)
(* in Device.                                                              *)
(***************************************************************************)
EXTENDS LockEngine

CONSTANT Configs            \* the output configurations a board may be given

ASSUME ConfigsAssumption ==
  \A cfg \in Configs : cfg \in OutputConfig /\ ValidOutputConfig(cfg)

VARIABLES
  lock,     \* mc_lock_t
  output,   \* mc_output_engine_t
  key       \* the position of the rider's ignition switch

vars == <<lock, output, key>>

board == [lock |-> lock, output |-> output]

Becomes(b) == lock' = b.lock /\ output' = b.output

Locked == lock.state = "LOCKED"

Init ==
  /\ \E c \in Configs :
       LET b == LockInit(DefaultLockConfig, FALSE, InitEngine(c, {}))
       IN  lock = b.lock /\ output = b.output
  /\ key = FALSE

-----------------------------------------------------------------------------
(* The tick, and what it reads                                             *)

\* app_task: the engine's timers, then the lock's.  An input that is not
\* assigned reads as an open switch.
Tick ==
  LET ticked == [board EXCEPT !.output = OutputTick(@)]
  IN  /\ Becomes(LockTick(ticked, lock.config.switch_input /\ key))
      /\ UNCHANGED key

\* mc_diag_tick()
EngineDetected(running) ==
  /\ running => MayRun(output)
  /\ output' = SetEngineRunning(output, running)
  /\ UNCHANGED <<lock, key>>

TurnKey ==
  /\ key' = ~ key
  /\ UNCHANGED <<lock, output>>

-----------------------------------------------------------------------------
(* Outputs: BLE and button bindings                                        *)

Command(ch, on, source) ==
  /\ output' = OutputSet(output, ch, on, source)
  /\ UNCHANGED <<lock, key>>

Hazard ==
  /\ output' = HazardPress(output)
  /\ UNCHANGED <<lock, key>>

-----------------------------------------------------------------------------
(* The lock: BLE ops, a phone that authenticates, and the buttons          *)

LockOp ==
  /\ Becomes(RequestLock(board))
  /\ UNCHANGED key

UnlockOp ==
  /\ Becomes(RequestUnlock(board))
  /\ UNCHANGED key

ButtonPress(button) ==
  /\ Becomes(CheatcodePress(board, button))
  /\ UNCHANGED key

SetCode(code) ==
  /\ Becomes(SetCheatcode(board, code))
  /\ UNCHANGED key

ClearCode ==
  /\ Becomes(ClearCheatcode(board))
  /\ UNCHANGED key

SetConfig(enabled, methods, input) ==
  /\ Becomes(ApplyLockConfig(board, enabled, methods, input))
  /\ UNCHANGED key

Transfer ==
  /\ Becomes(TransferOwnership(board))
  /\ UNCHANGED key

\* persist_lock_cb(), seen from here: the flag that asks for it is cleared.
Saved ==
  /\ lock' = [lock EXCEPT !.dirty = FALSE]
  /\ UNCHANGED <<output, key>>

Next ==
  \/ Tick
  \/ \E running \in BOOLEAN : EngineDetected(running)
  \/ TurnKey
  \/ \E ch \in Channel, on \in BOOLEAN, source \in Sources :
       Command(ch, on, source)
  \/ Hazard
  \/ LockOp
  \/ UnlockOp
  \/ \E button \in Button : ButtonPress(button)
  \/ \E code \in Codes : SetCode(code)
  \/ ClearCode
  \/ \E enabled, input \in BOOLEAN, methods \in SUBSET Methods :
       SetConfig(enabled, methods, input)
  \/ Transfer
  \/ Saved

Spec == Init /\ [][Next]_vars

-----------------------------------------------------------------------------

TypeOK ==
  /\ lock \in LockRecord
  /\ output \in Engine
  /\ output.config \in Configs
  /\ key \in BOOLEAN

\* The three copies of "locked" and the two of "enabled" never disagree:
\* the inhibit the engine obeys, the flag that is persisted and the state.
StateAgrees ==
  /\ output.immobilized <=> Locked
  /\ lock.locked_flag <=> Locked
  /\ lock.state = "DISABLED" <=> ~ lock.config.immobilizer_enabled

\* Whatever happens to a locked bike, nothing but hazard members is lit on
\* it: not by a command, the tick, the key, or the end of the hazards.
LockedOnlyHazards ==
  Locked => output.commanded \subseteq output.config.hazard_member

\* The parked-only lock rule, as a standing fact: a locked bike is not
\* running and its key is off (an ignition that joins the hazards aside).
LockedParked ==
  Locked /\ output.config.is_ignition \cap output.config.hazard_member = {} =>
    ~ output.engine_running /\ ~ IgnitionLive(output)

\* No lock-out: while the immobilizer is on there is a way in that needs no
\* phone, and a key to turn, through every order of setting and clearing the
\* code, the methods and the owner.
WayBackIn ==
  lock.config.immobilizer_enabled =>
    /\ lock.config.code # <<>> \/ SwitchActive(lock.config)
    /\ output.config.is_ignition # {}

\* Wrong entries, backoff and a half-typed code exist only on a locked bike:
\* riding with the same buttons never counts against the rider.
AttemptsOnlyLocked ==
  ~ Locked => lock.wrong = 0 /\ lock.backoff = 0 /\ lock.entry = <<>>

\* What LOCKED means, in every module's state.
LockSound == TypeOK /\ StateAgrees /\ LockedOnlyHazards /\ AttemptsOnlyLocked

\* A wrong entry is judged: it is counted, and a penalty starts.  With the
\* count at its last step only the penalty tells.
JudgedWrong == lock'.wrong > lock.wrong \/ lock'.backoff > lock.backoff

\* Brute force is slowed down: past the free attempts a wrong entry is
\* judged only when the backoff of the one before it has been sat out, the
\* longest one, which all further guessing pays, included.
BackoffServed ==
  [][JudgedWrong /\ lock.wrong > FreeAttempts
     => lock.quiet >= BackoffDuration(lock.wrong)]_vars

\* A bike leaves LOCKED by a key of the owner's or because the owner switched
\* the immobilizer off; during a backoff no code does it.
UnlockAuthorized ==
  [][Locked /\ ~ Locked' =>
       \/ "phone" \in lock.config.methods
       \/ SwitchActive(lock.config) /\ key
       \/ lock.config.code # <<>> /\ lock.backoff = 0
            /\ \E b \in Button : Append(lock.entry, b) = lock.config.code
       \/ ~ lock'.config.immobilizer_enabled]_vars

-----------------------------------------------------------------------------
(* What the lock promises                                                  *)

Phase == CASE lock.state = "DISABLED" -> "off"
           [] lock.state = "LOCKED"   -> "locked"
           [] OTHER                   -> "open"

Immob == INSTANCE Immobilizer
           WITH phase <- Phase, live <- IgnitionLive(output),
                running <- output.engine_running

\* The ignition is driven by nothing but its commands and the key.
PlainIgnition ==
  \A cfg \in Configs : cfg.is_ignition \cap (cfg.is_starter \cup cfg.hazard_member) = {}

\* Every call into mc_lock and mc_output, seen through phase, key and engine,
\* is a step of Immobilizer or changes nothing there: no order of calls locks
\* a running bike, turns the key of a locked one, or unlocks without it.
ImplementsImmobilizer == Immob!Spec
=============================================================================

------------------------------ MODULE LockProofs ------------------------------
(***************************************************************************)
(* The safety of Lock for any number of channels, any configurations and   *)
(* any timings.  The inductive invariant is that the board is sound (see   *)
(* EngineProofs) and that an enabled immobilizer has a way back in:        *)
(* without the ignition that WayBackIn promises, the engine of a locked    *)
(* bike could be reported running, and LockedParked is lost.               *)
(***************************************************************************)
EXTENDS Lock, EngineProofs

IInv == TypeOK /\ Sound(board) /\ WayBackIn

\* What IInv asks of the configuration of a lock.
HasWayIn(b) ==
  b.lock.config.immobilizer_enabled =>
    /\ b.lock.config.code # <<>> \/ SwitchActive(b.lock.config)
    /\ b.output.config.is_ignition # {}

LEMMA BoardParts == board.lock = lock /\ board.output = output
BY DEF board

LEMMA WayInOfBoard == HasWayIn(board) <=> WayBackIn
BY DEF board, HasWayIn, WayBackIn

\* A call that leaves the board sound and the way in intact keeps IInv.
LEMMA CallKeepsIInv ==
  ASSUME IInv, NEW b, Becomes(b), Safe(board, b), HasWayIn(b),
         key' \in BOOLEAN
  PROVE  IInv'
<1>1. b \in Board /\ b.output.config = output.config
  BY BoardParts DEF Safe, Sound
<1>2. lock' \in LockRecord /\ output' \in Engine /\ output'.config \in Configs
  BY <1>1, BoardFields DEF Becomes, IInv, TypeOK
<1>3. board' = b
  BY <1>1 DEF board, Becomes, Board
<1>4. Sound(board')
  BY <1>3 DEF Safe
<1>5. WayBackIn'
  BY DEF Becomes, HasWayIn, WayBackIn
<1> QED BY <1>2, <1>4, <1>5 DEF IInv, TypeOK

\* In particular a call that keeps the configuration of the lock.
LEMMA CallKeepingConfig ==
  ASSUME IInv, NEW b, Becomes(b), Safe(board, b), b.lock.config = lock.config,
         key' \in BOOLEAN
  PROVE  IInv'
<1>1. HasWayIn(b)
  BY WayInOfBoard, BoardParts DEF IInv, HasWayIn, Safe
<1> QED BY <1>1, CallKeepsIInv

LEMMA InitIInv == Init => IInv
<1> SUFFICES ASSUME Init PROVE IInv
  OBVIOUS
<1>1. PICK c \in Configs :
        LET b == LockInit(DefaultLockConfig, FALSE, InitEngine(c, {}))
        IN  lock = b.lock /\ output = b.output
  BY DEF Init
<1> DEFINE b == LockInit(DefaultLockConfig, FALSE, InitEngine(c, {}))
<1>2. Sound(b) /\ b.output.config = c /\ ~ b.lock.config.immobilizer_enabled
  BY FirstBootSound, ConfigsAssumption
<1>3. lock = b.lock /\ output = b.output
  BY <1>1
<1> HIDE DEF b
<1>4. board = b
  BY <1>2, <1>3 DEF board, Sound, Board
<1>5. lock \in LockRecord /\ output \in Engine
  BY <1>2, <1>3, BoardFields DEF Sound
<1> QED BY <1>2, <1>3, <1>4, <1>5 DEF IInv, TypeOK, WayBackIn, Init

LEMMA NextIInv == IInv /\ [Next]_vars => IInv'
<1> SUFFICES ASSUME IInv, [Next]_vars PROVE IInv'
  OBVIOUS
<1>0. /\ Sound(board) /\ lock \in LockRecord /\ output \in Engine
      /\ key \in BOOLEAN
  BY DEF IInv, TypeOK
<1>1. CASE Tick
  <2> DEFINE ticked == [board EXCEPT !.output = OutputTick(@)]
             level == lock.config.switch_input /\ key
             b == LockTick(ticked, level)
  <2>1. Safe(board, ticked) /\ ticked.lock = lock
    BY <1>0, OutputTickSafe, OutputSafe, BoardParts
  <2>2. level \in BOOLEAN
    BY <1>0 DEF LockRecord, LockConfig
  <2>3. Becomes(b) /\ key' = key
    BY <1>1 DEF Tick
  <2> HIDE DEF ticked, level
  <2>4. Safe(ticked, b) /\ b.lock.config = ticked.lock.config
    BY <2>1, <2>2, LockTickSafe DEF Safe
  <2> HIDE DEF b
  <2>5. Safe(board, b) /\ b.lock.config = lock.config
    BY <2>1, <2>4, SafeTrans
  <2> QED BY <1>0, <2>3, <2>5, CallKeepingConfig
<1>2. ASSUME NEW running \in BOOLEAN, EngineDetected(running) PROVE IInv'
  <2> DEFINE b == [board EXCEPT !.output = SetEngineRunning(@, running)]
  <2>1. Safe(board, b) /\ b.lock = lock
    BY <1>0, <1>2, EngineDetectedSafe, BoardParts DEF IInv, WayBackIn, EngineDetected
  <2>2. Becomes(b) /\ UNCHANGED key
    BY <1>2 DEF EngineDetected, Becomes, board
  <2> HIDE DEF b
  <2> QED BY <1>0, <2>1, <2>2, CallKeepingConfig
<1>3. CASE TurnKey
  <2>1. UNCHANGED <<lock, output>> /\ key' \in BOOLEAN
    BY <1>0, <1>3 DEF TurnKey
  <2> QED BY <2>1 DEF IInv, TypeOK, WayBackIn, board
<1>4. ASSUME NEW ch \in Channel, NEW on \in BOOLEAN, NEW source \in Sources,
             Command(ch, on, source)
      PROVE  IInv'
  <2> DEFINE p == OutputSet(output, ch, on, source)
             b == [board EXCEPT !.output = p]
  <2>1. Safe(board, b) /\ b.lock = lock
    BY <1>0, OutputSetSafe, OutputSafe, BoardParts
  <2>2. Becomes(b) /\ UNCHANGED key
    BY <1>4 DEF Command, Becomes, board
  <2> HIDE DEF b
  <2> QED BY <1>0, <2>1, <2>2, CallKeepingConfig
<1>5. CASE Hazard
  <2> DEFINE p == HazardPress(output)
             b == [board EXCEPT !.output = p]
  <2>1. Safe(board, b) /\ b.lock = lock
    BY <1>0, HazardPressSafe, OutputSafe, BoardParts
  <2>2. Becomes(b) /\ UNCHANGED key
    BY <1>5 DEF Hazard, Becomes, board
  <2> HIDE DEF b
  <2> QED BY <1>0, <2>1, <2>2, CallKeepingConfig
<1>6. CASE LockOp
  BY <1>0, <1>6, RequestLockSafe, CallKeepingConfig, BoardParts DEF LockOp
<1>7. CASE UnlockOp
  BY <1>0, <1>7, RequestUnlockSafe, CallKeepingConfig, BoardParts DEF UnlockOp
<1>8. ASSUME NEW button \in Button, ButtonPress(button) PROVE IInv'
  BY <1>0, <1>8, CheatcodePressSafe, CallKeepingConfig, BoardParts DEF ButtonPress
<1>9. ASSUME NEW code \in Codes, SetCode(code) PROVE IInv'
  <2> DEFINE b == SetCheatcode(board, code)
  <2>1. /\ Safe(board, b) /\ b.lock.config = [lock.config EXCEPT !.code = code]
        /\ b.output = output
    BY <1>0, SetCheatcodeSafe, BoardParts
  <2>2. Becomes(b) /\ UNCHANGED key
    BY <1>9 DEF SetCode
  <2>3. code # <<>>
    BY LockAssumption
  <2> HIDE DEF b
  <2>4. HasWayIn(b)
    BY <1>0, <2>1, <2>3 DEF HasWayIn, IInv, WayBackIn, LockRecord, LockConfig
  <2> QED BY <1>0, <2>1, <2>2, <2>4, CallKeepsIInv
<1>10. CASE ClearCode
  <2>1. CASE lock.config.immobilizer_enabled
    <3>1. ClearCheatcode(board) = board
      BY <2>1, BoardParts DEF ClearCheatcode
    <3> QED BY <1>0, <1>10, <3>1, CallKeepingConfig, BoardParts DEF ClearCode, Safe
  <2>2. CASE ~ lock.config.immobilizer_enabled
    <3> DEFINE b == SetCheatcode(board, <<>>)
    <3>1. /\ Safe(board, b) /\ b.lock.config = [lock.config EXCEPT !.code = <<>>]
      BY <1>0, SetCheatcodeSafe, BoardParts
    <3>2. Becomes(b) /\ UNCHANGED key
      BY <1>10, <2>2, BoardParts DEF ClearCode, ClearCheatcode
    <3> HIDE DEF b
    <3>3. HasWayIn(b)
      BY <1>0, <2>2, <3>1 DEF HasWayIn, LockRecord, LockConfig
    <3> QED BY <1>0, <3>1, <3>2, <3>3, CallKeepsIInv
  <2> QED BY <2>1, <2>2
<1>11. ASSUME NEW enabled \in BOOLEAN, NEW methods \in SUBSET Methods,
              NEW input \in BOOLEAN, SetConfig(enabled, methods, input)
       PROVE  IInv'
  <2> DEFINE b == ApplyLockConfig(board, enabled, methods, input)
  <2>1. /\ Safe(board, b)
        /\ b = board \/ ValidLockConfig(b.lock.config, output.config)
    BY <1>0, ApplyLockConfigSafe, BoardParts
  <2>2. Becomes(b) /\ UNCHANGED key
    BY <1>11 DEF SetConfig
  <2> HIDE DEF b
  <2>3. CASE b = board
    BY <1>0, <2>1, <2>2, <2>3, CallKeepingConfig, BoardParts
  <2>4. CASE ValidLockConfig(b.lock.config, output.config)
    <3>1. FirstChannel({}) = None
      BY DEF FirstChannel
    <3>2. HasWayIn(b)
      BY <2>1, <2>4, <3>1, BoardParts DEF HasWayIn, ValidLockConfig, Safe
    <3> QED BY <1>0, <2>1, <2>2, <3>2, CallKeepsIInv
  <2> QED BY <2>1, <2>3, <2>4
<1>12. CASE Transfer
  <2> DEFINE b == TransferOwnership(board)
  <2>1. Safe(board, b) /\ HasWayIn(b)
    BY <1>0, TransferSafe DEF HasWayIn
  <2>2. Becomes(b) /\ UNCHANGED key
    BY <1>12 DEF Transfer
  <2> HIDE DEF b
  <2> QED BY <1>0, <2>1, <2>2, CallKeepsIInv
<1>13. CASE Saved
  <2> DEFINE m == [lock EXCEPT !.dirty = FALSE]
             b == [board EXCEPT !.lock = m]
  <2>1. SameLock(lock, m) /\ (NoAttempts(lock) => NoAttempts(m))
    BY <1>0 DEF SameLock, LockRecord, NoAttempts
  <2>2. m = lock'  /\ UNCHANGED <<output, key>>
    BY <1>13 DEF Saved
  <2> HIDE DEF m
  <2>3. IsLocked(board) \/ NoAttempts(m)
    BY <1>0, <2>1, BoardParts DEF Sound
  <2>4. Safe(board, b) /\ b.lock = m /\ b.output = output
    BY <1>0, <2>1, <2>3, SameLockSafe, BoardParts
  <2>5. Becomes(b)
    BY <2>2, <2>4 DEF Becomes
  <2> HIDE DEF b
  <2> QED BY <1>0, <2>1, <2>2, <2>4, <2>5, CallKeepingConfig DEF SameLock
<1>14. CASE UNCHANGED vars
  BY <1>14 DEF vars, IInv, TypeOK, WayBackIn, board
<1> QED BY <1>1, <1>2, <1>3, <1>4, <1>5, <1>6, <1>7, <1>8, <1>9, <1>10, <1>11,
           <1>12, <1>13, <1>14 DEF Next

\* Every state the lock and the outputs can reach together is sound.
THEOREM InvariantHolds == Spec => []IInv
BY InitIInv, NextIInv, PTL DEF Spec

\* The lock record, the engine record and the configuration stay typed.
THEOREM LockTypeOK == Spec => []TypeOK
<1>1. IInv => TypeOK
  BY DEF IInv
<1> QED BY <1>1, InvariantHolds, PTL

\* The engine's inhibit, the persisted flag and the state always agree.
THEOREM StatesAgree == Spec => []StateAgrees
<1>1. IInv => StateAgrees
  BY BoardParts DEF IInv, Sound, StateAgrees, Locked, IsLocked
<1> QED BY <1>1, InvariantHolds, PTL

\* A locked bike lights nothing but hazard members.
THEOREM LockedBikesAreDark == Spec => []LockedOnlyHazards
<1>1. IInv => LockedOnlyHazards
  BY BoardParts DEF IInv, Sound, LockedOnlyHazards, Locked, IsLocked
<1> QED BY <1>1, InvariantHolds, PTL

\* A locked bike is parked: no engine running, no key on.
THEOREM LockedBikesAreParked == Spec => []LockedParked
<1>1. ASSUME IInv, Locked, output.config.is_ignition \cap output.config.hazard_member = {}
      PROVE  ~ output.engine_running /\ ~ IgnitionLive(output)
  <2>1. Sound(board) /\ IsLocked(board) /\ KeyApart(board.output)
    BY <1>1, BoardParts DEF IInv, IsLocked, Locked, KeyApart
  <2>2. output.config.is_ignition # {}
    BY <1>1, <2>1, BoardParts, SoundLeaves DEF IInv, WayBackIn
  <2>3. ~ IgnitionLive(output)
    BY <2>1, <2>2, LockedKeyOff, BoardParts
  <2>4. ~ output.engine_running
    BY <2>1, BoardParts DEF Sound
  <2> QED BY <2>3, <2>4
<1>2. IInv => LockedParked
  BY <1>1 DEF LockedParked
<1> QED BY <1>2, InvariantHolds, PTL

\* An enabled immobilizer always has a phone-less way in and a key to turn.
THEOREM NoLockOut == Spec => []WayBackIn
<1>1. IInv => WayBackIn
  BY DEF IInv
<1> QED BY <1>1, InvariantHolds, PTL

\* Nothing is held against a rider whose bike is not locked.
THEOREM AttemptsAreLocked == Spec => []AttemptsOnlyLocked
<1>1. IInv => AttemptsOnlyLocked
  BY BoardParts DEF IInv, Sound, AttemptsOnlyLocked, Locked, IsLocked, NoAttempts
<1> QED BY <1>1, InvariantHolds, PTL

\* All that LOCKED means, together.
THEOREM LockIsSound == Spec => []LockSound
<1>1. TypeOK /\ StateAgrees /\ LockedOnlyHazards /\ AttemptsOnlyLocked => LockSound
  BY DEF LockSound
<1> QED BY <1>1, LockTypeOK, StatesAgree, LockedBikesAreDark, AttemptsAreLocked, PTL

-----------------------------------------------------------------------------
(* Lock implements Immobilizer                                             *)

\* A locked bike with a plain ignition turns its key to unlock.
LEMMA LockedKeyTurns ==
  ASSUME PlainIgnition, IInv, IsLocked(board)
  PROVE  KeyTurns(output) /\ KeyApart(output)
<1>1. lock.config.immobilizer_enabled
  BY BoardParts, SoundLeaves DEF IInv
<1>2. output.config \in Configs /\ output.config.is_ignition # {}
  BY <1>1 DEF IInv, TypeOK, WayBackIn
<1> QED BY <1>2 DEF PlainIgnition, KeyTurns, KeyApart

\* It is dark and its engine is off.
Rests == Locked => ~ IgnitionLive(output) /\ ~ output.engine_running

LEMMA LockedAtRest == ASSUME PlainIgnition, IInv PROVE Rests
<1> SUFFICES ASSUME Locked PROVE ~ IgnitionLive(output) /\ ~ output.engine_running
  BY DEF Rests
<1>0. IsLocked(board)
  BY BoardParts DEF Locked, IsLocked
<1>1. KeyTurns(output) /\ KeyApart(output)
  BY <1>0, LockedKeyTurns
<1>2. Sound(board)
  BY DEF IInv
<1> QED BY <1>0, <1>1, <1>2, LockedKeyOff, BoardParts DEF Sound, KeyTurns

\* Every step moves between the phases as Moves says.
LEMMA NextMoves ==
  ASSUME PlainIgnition, IInv, Next
  PROVE  Moves(board, board')
<1>0. /\ Sound(board) /\ lock \in LockRecord /\ output \in Engine
      /\ key \in BOOLEAN
  BY DEF IInv, TypeOK
<1>1. IsLocked(board) => KeyTurns(board.output)
  BY LockedKeyTurns, BoardParts
<1>2. ASSUME NEW b, Becomes(b), Moves(board, b)
      PROVE  Moves(board, board')
  BY <1>2 DEF Becomes, board, Moves, IsOff, IsLocked
<1>3. CASE lock'.state = lock.state
  BY <1>3 DEF board, Moves, IsOff, IsLocked
<1>4. CASE Tick
  <2> DEFINE ticked == [board EXCEPT !.output = OutputTick(@)]
             level == lock.config.switch_input /\ key
             b == LockTick(ticked, level)
  <2>1. /\ Safe(board, ticked) /\ ticked.lock = lock
        /\ ticked.output = OutputTick(output)
    BY <1>0, OutputTickSafe, OutputSafe, BoardParts
  <2>2. OutputTick(output).engine_running = output.engine_running
    BY <1>0, OutputTickKeeps DEF Keeps, Untouched
  <2>3. level \in BOOLEAN
    BY <1>0 DEF LockRecord, LockConfig
  <2>4. Becomes(b)
    BY <1>4 DEF Tick
  <2> HIDE DEF ticked, level
  <2>5. IsLocked(ticked) => KeyTurns(ticked.output)
    BY <1>1, <2>1, BoardParts DEF IsLocked, KeyTurns, Safe
  <2>6. Ticks(ticked, b)
    BY <2>1, <2>3, <2>5, LockTickTicks DEF Safe
  <2> HIDE DEF b
  <2>7. Moves(board, b)
    BY <2>1, <2>2, <2>6, BoardParts DEF Ticks, Moves, IsOff, IsLocked
  <2> QED BY <1>2, <2>4, <2>7
<1>5. CASE LockOp
  BY <1>0, <1>2, <1>5, RequestLockMoves DEF LockOp
<1>6. CASE UnlockOp
  BY <1>0, <1>1, <1>2, <1>6, RequestUnlockMoves DEF UnlockOp
<1>7. ASSUME NEW button \in Button, ButtonPress(button) PROVE Moves(board, board')
  BY <1>0, <1>1, <1>2, <1>7, CheatcodePressMoves DEF ButtonPress
<1>8. ASSUME NEW code \in Codes, SetCode(code) PROVE Moves(board, board')
  BY <1>0, <1>2, <1>8, SetCheatcodeMoves DEF SetCode
<1>9. CASE ClearCode
  <2>1. Moves(board, ClearCheatcode(board))
    BY <1>0, SetCheatcodeMoves, SameStateMoves DEF ClearCheatcode
  <2> QED BY <1>2, <1>9, <2>1 DEF ClearCode
<1>10. ASSUME NEW enabled \in BOOLEAN, NEW methods \in SUBSET Methods,
              NEW input \in BOOLEAN, SetConfig(enabled, methods, input)
       PROVE  Moves(board, board')
  BY <1>0, <1>2, <1>10, ApplyLockConfigMoves DEF SetConfig
<1>11. CASE Transfer
  BY <1>0, <1>2, <1>11, TransferMoves DEF Transfer
<1>12. CASE Saved
  <2>1. lock'.state = lock.state
    BY <1>0, <1>12 DEF Saved, LockRecord
  <2> QED BY <1>3, <2>1
<1>13. CASE lock' = lock
  BY <1>3, <1>13
<1> QED BY <1>4, <1>5, <1>6, <1>7, <1>8, <1>9, <1>10, <1>11, <1>12, <1>13
     DEF Next, EngineDetected, TurnKey, Command, Hazard

\* A step of the lock and the outputs is a step of the promise, or a stutter.
LEMMA NextImplements ==
  ASSUME PlainIgnition, IInv, IInv', Rests, Rests', [Next]_vars
  PROVE  [Immob!Next]_<<Phase, IgnitionLive(output), output.engine_running>>
<1> DEFINE live == IgnitionLive(output)
           running == output.engine_running
<1>1. CASE UNCHANGED vars
  BY <1>1 DEF vars, Phase, IgnitionLive
<1>2. CASE Next
  <2>1. Moves(board, board')
    BY <1>2, NextMoves
  <2>2. /\ lock.state \in LockStates /\ lock'.state \in LockStates
        /\ running \in BOOLEAN /\ running' \in BOOLEAN
    BY DEF IInv, TypeOK, LockRecord, Engine
  <2>3. /\ live \in BOOLEAN /\ live' \in BOOLEAN
    BY DEF IgnitionLive
  <2>4. lock.state = "LOCKED" => ~ live /\ ~ running
    BY DEF Rests, Locked
  <2>5. lock'.state = "LOCKED" => ~ live' /\ ~ running'
    BY DEF Rests, Locked
  <2> QED BY <2>1, <2>2, <2>3, <2>4, <2>5
  DEF Moves, IsOff, IsLocked, board, LockStates, Phase, Immob!Next, Immob!Ride,
      Immob!Engage, Immob!Release, Immob!Enable, Immob!Disable
<1> QED BY <1>1, <1>2

LEMMA InitImplements == ASSUME Init PROVE Immob!Init
<1>1. PICK c \in Configs :
        LET b == LockInit(DefaultLockConfig, FALSE, InitEngine(c, {}))
        IN  lock = b.lock /\ output = b.output
  BY DEF Init
<1>2. lock.state = "DISABLED" /\ output = SetImmobilized(InitEngine(c, {}), FALSE)
  BY <1>1 DEF LockInit, DefaultLockConfig
<1> QED BY <1>2 DEF Immob!Init, Phase, IgnitionLive, SetImmobilized, InitEngine

\* With an ignition that is neither the starter nor a hazard member, every
\* behaviour of the lock and the outputs is one the immobilizer promises.
THEOREM LockImplementsImmobilizer ==
  ASSUME PlainIgnition PROVE Spec => ImplementsImmobilizer
<1>1. Init => Immob!Init
  BY InitImplements
<1>2. IInv => Rests
  BY LockedAtRest
<1>3. IInv /\ IInv' /\ Rests /\ Rests' /\ [Next]_vars =>
        [Immob!Next]_<<Phase, IgnitionLive(output), output.engine_running>>
  BY NextImplements
<1> QED BY <1>1, <1>2, <1>3, InvariantHolds, PTL DEF Spec, ImplementsImmobilizer, Immob!Spec

-----------------------------------------------------------------------------
(* Backoff and the way out of LOCKED                                       *)

\* The penalty of the last wrong entry: what has been sat out and what is left
\* of it add up, unless the quiet period, which forgives all, ends it first.
Served(l) ==
  l.wrong > 0 =>
    \/ l.quiet + l.backoff >= BackoffDuration(l.wrong)
    \/ l.quiet >= QuietReset /\ l.backoff > 0

\* A half-typed code is never stale (with no window, none is finished).
InTime(l) ==
  l.entry # <<>> =>
    l.entry_age < Window \/ (Window = 0 /\ Len(l.config.code) > 1)

Fair(l) == Served(l) /\ InTime(l)

\* A call that does not judge an entry keeps the attempts or forgets them.
Spares(l, m) ==
  \/ m.wrong = 0 /\ m.entry = <<>> /\ m.backoff = 0
  \/ /\ m.wrong = l.wrong /\ m.quiet = l.quiet /\ m.backoff = l.backoff
     /\ m.entry = l.entry /\ m.entry_age = l.entry_age
     /\ m.config.code = l.config.code

LEMMA SparedFair ==
  ASSUME NEW l \in LockRecord, NEW m, Spares(l, m), Fair(l)
  PROVE  Fair(m) /\ m.wrong <= l.wrong /\ m.backoff <= l.backoff
BY DEF Spares, Fair, Served, InTime, LockRecord

LEMMA EnterLockedSpares ==
  ASSUME NEW b \in Board
  PROVE  Spares(b.lock, EnterLocked(b).lock) /\ EnterLocked(b).lock.state = "LOCKED"
BY BoardFields DEF Spares, EnterLocked, SetFlag, LockRecord

LEMMA EnterUnlockedSpares ==
  ASSUME NEW b \in Board
  PROVE  Spares(b.lock, EnterUnlocked(b).lock)
<1> DEFINE f == SetFlag(b.lock, FALSE)
           l == [f EXCEPT !.state = "UNLOCKED", !.parked_for = 0]
<1>1. f \in LockRecord /\ Spares(b.lock, f)
  BY BoardFields, SetFlagType DEF Spares, SetFlag, LockRecord
<1>2. l \in LockRecord /\ Spares(b.lock, l)
  <2> HIDE DEF f
  <2> QED BY <1>1 DEF Spares, LockRecord, LockStates
<1>3. Spares(b.lock, ResetCheatcode(l))
  <2> HIDE DEF l
  <2> QED BY <1>2 DEF Spares, ResetCheatcode, LockRecord
<1>4. EnterUnlocked(b).lock = l \/ EnterUnlocked(b).lock = ResetCheatcode(l)
  <2>1. [b EXCEPT !.lock = l].lock = l
    <3> HIDE DEF l
    <3> QED BY DEF Board
  <2> QED BY <2>1 DEF EnterUnlocked
<1> QED BY <1>2, <1>3, <1>4

LEMMA EnterDisabledSpares ==
  ASSUME NEW b \in Board
  PROVE  Spares(b.lock, EnterDisabled(b).lock)
<1> DEFINE f == SetFlag(b.lock, FALSE)
           l == [f EXCEPT !.state = "DISABLED", !.parked_for = 0]
<1>1. f \in LockRecord /\ Spares(b.lock, f)
  BY BoardFields, SetFlagType DEF Spares, SetFlag, LockRecord
<1>2. l \in LockRecord /\ Spares(b.lock, l)
  <2> HIDE DEF f
  <2> QED BY <1>1 DEF Spares, LockRecord, LockStates
<1>3. Spares(b.lock, ResetCheatcode(l))
  <2> HIDE DEF l
  <2> QED BY <1>2 DEF Spares, ResetCheatcode, LockRecord
<1>4. EnterDisabled(b).lock = l \/ EnterDisabled(b).lock = ResetCheatcode(l)
  <2>1. [b EXCEPT !.lock = l].lock = l
    <3> HIDE DEF l
    <3> QED BY DEF Board
  <2> QED BY <2>1 DEF EnterDisabled
<1> QED BY <1>2, <1>3, <1>4

LEMMA GoToSpares ==
  ASSUME NEW b \in Board, NEW state
  PROVE  Spares(b.lock, GoTo(b, state).lock)
BY BoardFields DEF GoTo, Spares, Board, LockRecord

LEMMA SparesRefl == ASSUME NEW l PROVE Spares(l, l)
BY DEF Spares

LEMMA EnabledTickSpares ==
  ASSUME NEW b \in Board, NEW level, b.lock.state \in {"DISABLED", "UNLOCKED", "PARKED", "LOCKED"}
  PROVE  Spares(b.lock, EnabledTick(b, level).lock)
BY EnterLockedSpares, EnterUnlockedSpares, GoToSpares, SparesRefl DEF EnabledTick

\* One tick brings the end of the penalty nearer by one, or forgives.
LEMMA ElapseFair ==
  ASSUME NEW l \in LockRecord, Fair(l)
  PROVE  /\ Fair(Elapse(l)) /\ Elapse(l).wrong <= l.wrong
         /\ Elapse(l).backoff <= l.backoff
<1> DEFINE backoff == BackoffLeft(l)
           quiet   == IF l.wrong > 0 THEN l.quiet + 1 ELSE 0
           forgive == l.wrong > 0 /\ backoff = 0 /\ quiet >= QuietReset
           expired == l.entry # <<>> /\ l.entry_age + 1 >= Window
           m == Elapse(l)
<1>1. /\ m.backoff = backoff /\ m.config = l.config
      /\ m.wrong = IF forgive THEN 0 ELSE l.wrong
      /\ m.quiet = IF forgive THEN 0 ELSE IF quiet > QuietReset THEN QuietReset ELSE quiet
      /\ m.entry = IF expired THEN <<>> ELSE l.entry
      /\ m.entry_age = IF expired \/ l.entry = <<>> THEN 0 ELSE l.entry_age + 1
  <2> DEFINE w == IF forgive THEN 0 ELSE l.wrong
             q == IF forgive THEN 0 ELSE IF quiet > QuietReset THEN QuietReset ELSE quiet
             e == IF expired THEN <<>> ELSE l.entry
             a == IF expired \/ l.entry = <<>> THEN 0 ELSE l.entry_age + 1
             p == ParkedFor(l)
  <2>1. m = [l EXCEPT !.backoff = backoff, !.wrong = w, !.quiet = q, !.entry = e,
                      !.entry_age = a, !.parked_for = p]
    BY DEF Elapse
  <2> HIDE DEF m, backoff, w, q, e, a, p
  <2>2. /\ m.backoff = backoff /\ m.config = l.config /\ m.wrong = w
        /\ m.quiet = q /\ m.entry = e /\ m.entry_age = a
    BY <2>1 DEF LockRecord
  <2> USE DEF m
  <2> QED BY <2>2 DEF w, q, e, a
<1>2. /\ l.wrong \in Nat /\ l.quiet \in Nat /\ l.backoff \in Nat /\ l.entry_age \in Nat
      /\ Window \in Nat /\ QuietReset \in Nat
      /\ backoff = IF l.backoff > 0 THEN l.backoff - 1 ELSE 0
  BY LockAssumption DEF LockRecord, BackoffLeft
<1>3. m.wrong <= l.wrong /\ m.backoff <= l.backoff
  BY <1>1, <1>2
<1>4. BackoffDuration(l.wrong) \in Nat
  BY <1>2, BackoffDurationType
<1>5. Served(m)
  <2> SUFFICES ASSUME m.wrong > 0
               PROVE  \/ m.quiet + m.backoff >= BackoffDuration(m.wrong)
                      \/ m.quiet >= QuietReset /\ m.backoff > 0
    BY DEF Served
  <2>1. m.wrong = l.wrong /\ ~ forgive /\ l.wrong > 0
    BY <1>1
  <2>2. \/ l.quiet + l.backoff >= BackoffDuration(l.wrong)
        \/ l.quiet >= QuietReset /\ l.backoff > 0
    BY <2>1 DEF Fair, Served
  <2> HIDE DEF m
  <2> QED BY <1>1, <1>2, <1>4, <2>1, <2>2
<1>6. InTime(m)
  <2> HIDE DEF m
  <2> QED BY <1>1, <1>2 DEF InTime
<1> QED BY <1>3, <1>5, <1>6 DEF Fair

LEMMA LockTickFair ==
  ASSUME NEW b, Sound(b), NEW level \in BOOLEAN, Fair(b.lock)
  PROVE  LET m == LockTick(b, level).lock
         IN  Fair(m) /\ m.wrong <= b.lock.wrong /\ m.backoff <= b.lock.backoff
<1> DEFINE l == Elapse(b.lock)
           c == [b EXCEPT !.lock = Elapse(@)]
           s == Switched(c, level)
<1>0. b \in Board /\ b.lock \in LockRecord /\ LockTick(b, level) \in Board
  BY BoardFields, LockTickSafe DEF Sound, Safe
<1>1. /\ SameLock(b.lock, l) /\ Fair(l) /\ l.wrong <= b.lock.wrong
      /\ l.backoff <= b.lock.backoff
  BY <1>0, ElapseSame, ElapseFair
<1>2. l \in LockRecord /\ l.state \in LockStates
  BY <1>1 DEF SameLock, LockRecord
<1>3. c \in Board /\ c.lock = l /\ Safe(b, c)
  <2>1. c = [b EXCEPT !.lock = l] /\ (IsLocked(b) \/ NoAttempts(l))
    BY <1>0, ElapseSame DEF Sound
  <2> HIDE DEF l
  <2>2. c \in Board /\ c.lock = l
    BY <1>0, <1>2, <2>1 DEF Board
  <2> HIDE DEF c
  <2> QED BY <1>1, <2>1, <2>2, SameLockSafe
<1>4. Spares(l, s.lock) /\ s \in Board /\ s.lock.state = l.state
  <2> HIDE DEF c, l
  <2>1. Safe(c, s)
    BY <1>3, SwitchedSafe DEF Safe
  <2> QED BY <1>2, <1>3, <2>1 DEF Switched, Spares, LockRecord, Safe, Sound
<1>5. ASSUME NEW m, Spares(l, m), m = LockTick(b, level).lock
      PROVE  Fair(m) /\ m.wrong <= b.lock.wrong /\ m.backoff <= b.lock.backoff
  <2>1. Fair(m) /\ m.wrong <= l.wrong /\ m.backoff <= l.backoff
    BY <1>1, <1>2, <1>5, SparedFair
  <2>2. /\ m.wrong \in Nat /\ l.wrong \in Nat /\ b.lock.wrong \in Nat
        /\ m.backoff \in Nat /\ l.backoff \in Nat /\ b.lock.backoff \in Nat
    <3>1. m \in LockRecord
      BY <1>0, <1>5, BoardFields
    <3> QED BY <1>0, <1>2, <3>1 DEF LockRecord
  <2> QED BY <1>1, <2>1, <2>2
<1>6. CASE c.lock.config.immobilizer_enabled
  <2>1. LockTick(b, level) = EnabledTick(s, level)
    BY <1>6 DEF LockTick
  <2> HIDE DEF s, l
  <2>2. Spares(s.lock, EnabledTick(s, level).lock)
    BY <1>2, <1>4, EnabledTickSpares DEF LockStates
  <2>3. Spares(l, EnabledTick(s, level).lock)
    BY <1>4, <2>2 DEF Spares
  <2> QED BY <1>5, <2>1, <2>3
<1>7. CASE ~ c.lock.config.immobilizer_enabled
  <2>1. LockTick(b, level) = IF c.lock.state = "DISABLED" THEN c ELSE EnterDisabled(c)
    BY <1>7 DEF LockTick
  <2> HIDE DEF c, l
  <2>2. Spares(l, LockTick(b, level).lock)
    BY <1>3, <2>1, EnterDisabledSpares, SparesRefl
  <2> QED BY <1>5, <2>2
<1> QED BY <1>6, <1>7

\* A wrong entry is judged.
Counts(l, m) == m.wrong > l.wrong \/ m.backoff > l.backoff

\* A press judges an entry only with the backoff over, and finishes only a
\* code that was begun in time.
LEMMA CheatcodePressFair ==
  ASSUME NEW b, Sound(b), NEW button \in Button, Fair(b.lock)
  PROVE  LET m == CheatcodePress(b, button).lock
         IN  /\ Fair(m)
             /\ Counts(b.lock, m) /\ b.lock.wrong > 0 =>
                  b.lock.quiet >= BackoffDuration(b.lock.wrong)
             /\ b.lock.state = "LOCKED" /\ m.state # "LOCKED" =>
                  /\ b.lock.config.code # <<>> /\ b.lock.backoff = 0
                  /\ Append(b.lock.entry, button) = b.lock.config.code
<1> DEFINE l == b.lock
           entry == Entered(l, button)
           code == l.config.code
           r == CheatcodePress(b, button)
<1>0. b \in Board /\ l \in LockRecord
  BY BoardFields DEF Sound
<1>1. /\ l.wrong \in Nat /\ l.quiet \in Nat /\ l.backoff \in Nat /\ l.entry_age \in Nat
      /\ l.entry \in Seq(Button) /\ code \in Seq(Button) /\ Window \in Nat
      /\ BackoffDuration(l.wrong) \in Nat
  BY <1>0, LockAssumption, BackoffDurationType, EmptySeq DEF LockRecord, LockConfig
<1>2. Served(l) /\ InTime(l)
  BY DEF Fair
<1>3. CASE ~ Listening(l)
  BY <1>1, <1>3 DEF CheatcodePress, Counts
<1>4. CASE Listening(l) /\ Len(entry) < Len(code)
  <2>1. r.lock = Typed(l, button)
    BY <1>0, <1>4 DEF CheatcodePress, Board
  <2>2. entry \in Seq(Button) /\ Len(entry) >= 1
    <3>1. Len(entry) = Len(IF Fresh(l) THEN <<>> ELSE l.entry) + 1 /\ entry \in Seq(Button)
      BY <1>1, EmptySeq, AppendProperties DEF Entered
    <3>2. Len(IF Fresh(l) THEN <<>> ELSE l.entry) \in Nat
      BY <1>1, EmptySeq
    <3> QED BY <3>1, <3>2
  <2>3. Len(code) > 1
    <3>1. Len(entry) \in Nat /\ Len(code) \in Nat
      BY <1>1, <2>2
    <3> QED BY <1>4, <2>2, <3>1
  <2>4. /\ r.lock.wrong = l.wrong /\ r.lock.quiet = l.quiet /\ r.lock.backoff = l.backoff
        /\ r.lock.state = l.state /\ r.lock.config = l.config
        /\ r.lock.entry_age = IF Fresh(l) THEN 0 ELSE l.entry_age
    BY <1>0, <2>1 DEF Typed, LockRecord
  <2>5. InTime(r.lock)
    BY <1>1, <2>3, <2>4 DEF InTime, Fresh
  <2>6. Served(r.lock)
    BY <1>2, <2>4 DEF Served
  <2> QED BY <1>1, <2>4, <2>5, <2>6 DEF Fair, Counts
<1>5. CASE Listening(l) /\ ~ Len(entry) < Len(code) /\ entry = code
  <2> DEFINE c == [b EXCEPT !.lock = Judged(@)]
  <2>1. r = EnterUnlocked(c)
    BY <1>5 DEF CheatcodePress
  <2>2. Judged(l) \in LockRecord
    BY <1>0, EntryTypes
  <2>3. c \in Board /\ c.lock = Judged(l)
    BY <1>0, <2>2 DEF Board
  <2>4. Judged(l).entry = <<>> /\ Judged(l).wrong = l.wrong /\ Judged(l).quiet = l.quiet
        /\ Judged(l).backoff = l.backoff
    BY <1>0 DEF Judged, LockRecord
  <2>5. Fair(Judged(l))
    BY <1>2, <2>4 DEF Fair, Served, InTime
  <2>6. Fair(r.lock) /\ r.lock.wrong <= l.wrong /\ r.lock.backoff <= l.backoff
    <3> HIDE DEF c
    <3> QED BY <2>1, <2>2, <2>3, <2>4, <2>5, EnterUnlockedSpares, SparedFair
  <2>7. r.lock.wrong \in Nat /\ r.lock.backoff \in Nat
    <3>1. r \in Board
      BY CheatcodePressSafe DEF Safe, Sound
    <3> QED BY <3>1, BoardFields DEF LockRecord
  <2>8. Append(l.entry, button) = code
    <3>1. CASE Fresh(l) /\ l.entry # <<>>
      <4>1. Window = 0 /\ Len(code) > 1
        BY <1>1, <1>2, <3>1 DEF Fresh, InTime
      <4>2. Len(entry) = 1
        BY <3>1, EmptySeq, AppendProperties DEF Entered
      <4> QED BY <1>5, <4>1, <4>2
    <3>2. CASE ~ (Fresh(l) /\ l.entry # <<>>)
      BY <1>5, <3>2 DEF Entered
    <3> QED BY <3>1, <3>2
  <2> QED BY <1>1, <1>5, <2>6, <2>7, <2>8 DEF Listening, Counts
<1>6. CASE Listening(l) /\ ~ Len(entry) < Len(code) /\ entry # code
  <2> DEFINE wrong == IF l.wrong < MaxWrong THEN l.wrong + 1 ELSE MaxWrong
  <2>1. r.lock = Penalized(l)
    BY <1>0, <1>6 DEF CheatcodePress, Board
  <2>2. /\ r.lock.wrong = wrong /\ r.lock.quiet = 0 /\ r.lock.entry = <<>>
        /\ r.lock.backoff = BackoffDuration(wrong) /\ r.lock.state = l.state
    BY <1>0, <2>1 DEF Penalized, Judged, LockRecord
  <2>3. wrong \in Nat
    BY <1>1, LockAssumption DEF MaxWrong
  <2>4. BackoffDuration(wrong) \in Nat
    BY <2>3, BackoffDurationType
  <2>5. Fair(r.lock)
    BY <2>2, <2>4 DEF Fair, Served, InTime
  <2>6. l.wrong > 0 => l.quiet >= BackoffDuration(l.wrong)
    BY <1>1, <1>2, <1>6 DEF Served, Listening
  <2> QED BY <2>2, <2>5, <2>6
<1> QED BY <1>3, <1>4, <1>5, <1>6

LEMMA ApplyLockConfigSpares ==
  ASSUME NEW b, Sound(b), NEW enabled \in BOOLEAN, NEW methods \in SUBSET Methods,
         NEW input \in BOOLEAN
  PROVE  LET r == ApplyLockConfig(b, enabled, methods, input)
         IN  /\ Spares(b.lock, r.lock)
             /\ IsLocked(b) /\ r.lock.state # "LOCKED" =>
                  ~ r.lock.config.immobilizer_enabled
<1> DEFINE was == b.lock.config.immobilizer_enabled
           cfg == [b.lock.config EXCEPT !.immobilizer_enabled = enabled,
                                        !.methods = methods, !.switch_input = input]
           l == [b.lock EXCEPT !.config = cfg, !.dirty = TRUE]
           c == [b EXCEPT !.lock = l]
           r == ApplyLockConfig(b, enabled, methods, input)
<1>1. b \in Board /\ b.lock \in LockRecord /\ (IsLocked(b) => was)
  BY BoardFields, SoundLeaves DEF Sound
<1>2. cfg \in LockConfig /\ cfg.code = b.lock.config.code /\ cfg.immobilizer_enabled = enabled
  BY <1>1 DEF LockRecord, LockConfig
<1>3. l \in LockRecord /\ Spares(b.lock, l) /\ l.config = cfg /\ l.state = b.lock.state
  <2> HIDE DEF cfg
  <2> QED BY <1>1, <1>2 DEF Spares, LockRecord
<1>4. c \in Board /\ c.lock = l
  <2> HIDE DEF l
  <2> QED BY <1>1, <1>3 DEF Board
<1>5. \/ r = b
      \/ r = EnterDisabled(c) /\ ~ enabled
      \/ r = GoTo(c, "UNLOCKED") /\ enabled /\ ~ was
      \/ r = c
  BY DEF ApplyLockConfig
<1>6. NoAttempts(b.lock) => NoAttempts(l)
  <2> HIDE DEF cfg
  <2> QED BY <1>1 DEF NoAttempts, LockRecord
<1> HIDE DEF c, l, r, cfg
<1>7. CASE r = EnterDisabled(c) /\ ~ enabled
  <2>1. Spares(b.lock, r.lock)
    BY <1>3, <1>4, <1>7, EnterDisabledSpares DEF Spares
  <2>2. c.output = b.output
    BY <1>1 DEF c, Board
  <2>3. AboutToLeave(c)
    BY <1>3, <1>4, <1>6, <2>2, SoundLeaves DEF AboutToLeave, IsLocked
  <2>4. r.lock.config = c.lock.config
    BY <1>7, <2>3, EnterDisabledEffect
  <2> QED BY <1>2, <1>3, <1>4, <1>7, <2>1, <2>4 DEF r
<1>8. CASE r = GoTo(c, "UNLOCKED") /\ enabled /\ ~ was
  <2>1. Spares(c.lock, r.lock)
    BY <1>4, <1>8, GoToSpares
  <2>2. Spares(b.lock, r.lock)
    BY <1>3, <1>4, <2>1 DEF Spares
  <2>3. ~ IsLocked(b)
    BY <1>1, <1>8
  <2> QED BY <2>2, <2>3 DEF r
<1>9. CASE r = c \/ r = b
  BY <1>3, <1>4, <1>9, SparesRefl DEF r, IsLocked
<1> QED BY <1>5, <1>7, <1>8, <1>9

LEMMA CommandSpares ==
  ASSUME NEW b, Sound(b)
  PROVE  /\ Spares(b.lock, RequestLock(b).lock)
         /\ Spares(b.lock, RequestUnlock(b).lock)
         /\ \A code \in Codes \cup {<<>>} : Spares(b.lock, SetCheatcode(b, code).lock)
         /\ Spares(b.lock, ClearCheatcode(b).lock)
         /\ Spares(b.lock, TransferOwnership(b).lock)
<1>0. b \in Board /\ b.lock \in LockRecord
  BY BoardFields DEF Sound
<1>1. Spares(b.lock, RequestLock(b).lock) /\ Spares(b.lock, RequestUnlock(b).lock)
  BY <1>0, EnterLockedSpares, EnterUnlockedSpares, SparesRefl DEF RequestLock, RequestUnlock
<1>2. ASSUME NEW code \in Codes \cup {<<>>}
      PROVE  Spares(b.lock, SetCheatcode(b, code).lock)
  <2> DEFINE l == [ResetCheatcode(b.lock) EXCEPT !.config.code = code, !.dirty = TRUE]
  <2>1. l.wrong = 0 /\ l.entry = <<>> /\ l.backoff = 0
    BY <1>0 DEF ResetCheatcode, LockRecord
  <2>2. SetCheatcode(b, code) = [b EXCEPT !.lock = l]
    BY DEF SetCheatcode
  <2> HIDE DEF l
  <2>3. SetCheatcode(b, code).lock = l
    BY <1>0, <2>2 DEF Board
  <2> QED BY <2>1, <2>3 DEF Spares
<1>3. Spares(b.lock, ClearCheatcode(b).lock)
  BY <1>2, SparesRefl DEF ClearCheatcode
<1>4. Spares(b.lock, TransferOwnership(b).lock)
  <2> DEFINE r == EnterDisabled(b)
             m == [r.lock EXCEPT !.config = DefaultLockConfig, !.dirty = TRUE]
             t == TransferOwnership(b)
  <2>1. /\ r = [lock |-> r.lock, output |-> r.output]
        /\ r.lock \in LockRecord /\ NoAttempts(r.lock)
    BY SoundLeaves, EnterDisabledEffect
  <2>2. t = [r EXCEPT !.lock.config = DefaultLockConfig, !.lock.dirty = TRUE]
    BY DEF TransferOwnership
  <2> HIDE DEF r, t
  <2>3. /\ t.lock.wrong = r.lock.wrong /\ t.lock.entry = r.lock.entry
        /\ t.lock.backoff = r.lock.backoff
    BY <2>1, <2>2 DEF LockRecord
  <2> QED BY <2>1, <2>3 DEF t, Spares, NoAttempts
<1> QED BY <1>1, <1>2, <1>3, <1>4

\* The ticks unlock for the owner's key only.
LEMMA LockTickLeaves ==
  ASSUME NEW b, Sound(b), NEW level \in BOOLEAN, IsLocked(b),
         LockTick(b, level).lock.state # "LOCKED"
  PROVE  level /\ "switch" \in b.lock.config.methods
<1> DEFINE m == Elapse(b.lock)
           c == [b EXCEPT !.lock = Elapse(@)]
           s == Switched(c, level)
<1>1. SameLock(b.lock, m)
  BY BoardFields, ElapseSame DEF Sound
<1>2. c.lock = m
  <2> HIDE DEF m
  <2> QED BY DEF Sound, Board, m
<1> HIDE DEF c, m
<1>3. /\ s.lock.state = "LOCKED" /\ s.lock.config = b.lock.config
      /\ b.lock.config.immobilizer_enabled
  BY <1>1, <1>2, SoundLeaves DEF Switched, SameLock, LockRecord, IsLocked
<1>4. LockTick(b, level) = EnabledTick(s, level)
  BY <1>1, <1>2, <1>3 DEF LockTick, c, SameLock
<1> HIDE DEF s
<1> QED BY <1>3, <1>4 DEF EnabledTick

-----------------------------------------------------------------------------
(* Every step judges in time and leaves LOCKED with reason                 *)

Judges(l, m) ==
  Counts(l, m) /\ l.wrong > 0 => l.quiet >= BackoffDuration(l.wrong)

LEMMA InitFair == Init => Fair(lock)
BY DEF Init, LockInit, Fair, Served, InTime

LEMMA SparedJudges ==
  ASSUME NEW l \in LockRecord, NEW m \in LockRecord, Spares(l, m), Fair(l)
  PROVE  Fair(m) /\ Judges(l, m)
<1>1. Fair(m) /\ m.wrong <= l.wrong /\ m.backoff <= l.backoff
  BY SparedFair
<1> QED BY <1>1 DEF Judges, Counts, LockRecord

LEMMA NextFair == IInv /\ Fair(lock) /\ [Next]_vars => Fair(lock)' /\ Judges(lock, lock')
<1> SUFFICES ASSUME IInv, Fair(lock), [Next]_vars
             PROVE  Fair(lock') /\ Judges(lock, lock')
  BY DEF Fair, Served, InTime
<1>0. /\ Sound(board) /\ lock \in LockRecord /\ output \in Engine /\ key \in BOOLEAN
  BY DEF IInv, TypeOK
<1>1. lock' \in LockRecord
  BY NextIInv DEF IInv, TypeOK
<1>2. CASE Spares(lock, lock')
  BY <1>0, <1>1, <1>2, SparedJudges
<1>3. CASE Tick
  <2> DEFINE ticked == [board EXCEPT !.output = OutputTick(@)]
             level == lock.config.switch_input /\ key
             m == LockTick(ticked, level).lock
  <2>1. Sound(ticked) /\ ticked.lock = lock
    BY <1>0, OutputTickSafe, OutputSafe, BoardParts DEF Safe
  <2>2. level \in BOOLEAN
    BY <1>0 DEF LockRecord, LockConfig
  <2>3. lock' = m
    BY <1>3 DEF Tick, Becomes
  <2> HIDE DEF ticked, level
  <2>4. Fair(m) /\ m.wrong <= lock.wrong /\ m.backoff <= lock.backoff
    BY <2>1, <2>2, LockTickFair
  <2> HIDE DEF m
  <2>5. Judges(lock, lock')
    BY <1>0, <1>1, <2>3, <2>4 DEF Judges, Counts, LockRecord
  <2> QED BY <2>3, <2>4, <2>5
<1>4. ASSUME NEW button \in Button, ButtonPress(button)
      PROVE  Fair(lock') /\ Judges(lock, lock')
  BY <1>0, <1>4, CheatcodePressFair, BoardParts DEF ButtonPress, Becomes, Judges
<1>5. CASE LockOp \/ UnlockOp \/ ClearCode \/ Transfer
  BY <1>0, <1>2, <1>5, CommandSpares, BoardParts
  DEF LockOp, UnlockOp, ClearCode, Transfer, Becomes
<1>6. ASSUME NEW code \in Codes, SetCode(code) PROVE Spares(lock, lock')
  BY <1>0, <1>6, CommandSpares, BoardParts DEF SetCode, Becomes
<1>7. ASSUME NEW enabled \in BOOLEAN, NEW methods \in SUBSET Methods,
             NEW input \in BOOLEAN, SetConfig(enabled, methods, input)
      PROVE  Spares(lock, lock')
  BY <1>0, <1>7, ApplyLockConfigSpares, BoardParts DEF SetConfig, Becomes
<1>8. CASE Saved
  BY <1>0, <1>2, <1>8 DEF Saved, Spares, LockRecord
<1>9. CASE lock' = lock
  BY <1>2, <1>9, SparesRefl
<1> QED BY <1>2, <1>3, <1>4, <1>5, <1>6, <1>7, <1>8, <1>9
    DEF Next, vars, EngineDetected, TurnKey, Command, Hazard

\* Nothing is judged early and no half-typed code outlives its window, in any
\* order of presses, ticks and calls.
THEOREM AttemptsAreFair == Spec => []Fair(lock)
BY InitFair, NextFair, InvariantHolds, PTL DEF Spec

\* However presses and ticks interleave, past the free attempts a wrong entry
\* is judged only after the backoff of the one before it, at the cap too.
THEOREM BackoffIsServed == Spec => BackoffServed
<1>1. IInv /\ Fair(lock) /\ [Next]_vars =>
        [JudgedWrong /\ lock.wrong > FreeAttempts
         => lock.quiet >= BackoffDuration(lock.wrong)]_vars
  BY NextFair, LockAssumption DEF Judges, Counts, JudgedWrong, IInv, TypeOK, LockRecord
<1> QED BY <1>1, InvariantHolds, AttemptsAreFair, PTL DEF Spec, BackoffServed

LEMMA NextAuthorized ==
  ASSUME IInv, Fair(lock), [Next]_vars, Locked, ~ Locked'
  PROVE  \/ "phone" \in lock.config.methods
         \/ SwitchActive(lock.config) /\ key
         \/ lock.config.code # <<>> /\ lock.backoff = 0
              /\ \E b \in Button : Append(lock.entry, b) = lock.config.code
         \/ ~ lock'.config.immobilizer_enabled
<1>0. /\ Sound(board) /\ lock \in LockRecord /\ output \in Engine /\ key \in BOOLEAN
      /\ IsLocked(board)
  BY BoardParts DEF IInv, TypeOK, Locked, IsLocked
<1>1. lock'.state # "LOCKED"
  BY DEF Locked
<1>2. CASE Tick
  <2> DEFINE ticked == [board EXCEPT !.output = OutputTick(@)]
             level == lock.config.switch_input /\ key
  <2>1. Sound(ticked) /\ ticked.lock = lock
    BY <1>0, OutputTickSafe, OutputSafe, BoardParts DEF Safe
  <2>2. level \in BOOLEAN
    BY <1>0 DEF LockRecord, LockConfig
  <2>3. lock' = LockTick(ticked, level).lock
    BY <1>2 DEF Tick, Becomes
  <2> HIDE DEF ticked, level
  <2>4. level /\ "switch" \in lock.config.methods
    BY <1>0, <1>1, <2>1, <2>2, <2>3, LockTickLeaves, BoardParts DEF IsLocked
  <2> QED BY <2>4 DEF level, SwitchActive
<1>3. ASSUME NEW button \in Button, ButtonPress(button)
      PROVE  /\ lock.config.code # <<>> /\ lock.backoff = 0
             /\ Append(lock.entry, button) = lock.config.code
  <2>1. lock' = CheatcodePress(board, button).lock
    BY <1>3 DEF ButtonPress, Becomes
  <2> QED BY <1>0, <1>1, <2>1, CheatcodePressFair, BoardParts DEF IsLocked
<1>4. ASSUME lock'.state = lock.state PROVE FALSE
  BY <1>1, <1>4 DEF Locked
<1>5. CASE LockOp
  <2>1. RequestLock(board) = board
    BY <1>0 DEF RequestLock, IsLocked
  <2> QED BY <1>4, <1>5, <2>1, BoardParts DEF LockOp, Becomes
<1>6. CASE UnlockOp
  <2>1. "phone" \in lock.config.methods \/ RequestUnlock(board) = board
    BY BoardParts DEF RequestUnlock
  <2> QED BY <1>4, <1>6, <2>1, BoardParts DEF UnlockOp, Becomes
<1>7. ASSUME NEW code \in Codes \cup {<<>>}
      PROVE  SetCheatcode(board, code).lock.state = lock.state
  <2>1. board \in Board
    BY <1>0 DEF Sound
  <2> QED BY <1>0, <2>1, BoardParts DEF SetCheatcode, ResetCheatcode, Board, LockRecord
<1>8. CASE ClearCode
  BY <1>4, <1>7, <1>8, BoardParts DEF ClearCode, Becomes, ClearCheatcode
<1>9. ASSUME NEW code \in Codes, SetCode(code) PROVE FALSE
  BY <1>4, <1>7, <1>9 DEF SetCode, Becomes
<1>10. ASSUME NEW enabled \in BOOLEAN, NEW methods \in SUBSET Methods,
              NEW input \in BOOLEAN, SetConfig(enabled, methods, input)
       PROVE  ~ lock'.config.immobilizer_enabled
  BY <1>0, <1>1, <1>10, ApplyLockConfigSpares DEF SetConfig, Becomes
<1>11. CASE Transfer
  <2>1. ~ TransferOwnership(board).lock.config.immobilizer_enabled
    BY <1>0, TransferSafe
  <2> QED BY <1>11, <2>1 DEF Transfer, Becomes
<1>12. CASE Saved
  BY <1>0, <1>4, <1>12 DEF Saved, LockRecord
<1>13. CASE lock' = lock
  BY <1>4, <1>13
<1> QED BY <1>2, <1>3, <1>5, <1>6, <1>8, <1>9, <1>10, <1>11, <1>12, <1>13, <1>4
    DEF Next, vars, EngineDetected, TurnKey, Command, Hazard

\* No order of presses, ticks, commands and configuration writes unlocks a
\* bike without the owner's phone, key or code, or the owner's say-so.
THEOREM UnlocksAreAuthorized == Spec => UnlockAuthorized
<1>1. IInv /\ Fair(lock) /\ [Next]_vars =>
        [Locked /\ ~ Locked' =>
           \/ "phone" \in lock.config.methods
           \/ SwitchActive(lock.config) /\ key
           \/ lock.config.code # <<>> /\ lock.backoff = 0
                /\ \E b \in Button : Append(lock.entry, b) = lock.config.code
           \/ ~ lock'.config.immobilizer_enabled]_vars
  BY NextAuthorized
<1> QED BY <1>1, InvariantHolds, AttemptsAreFair, PTL DEF Spec, UnlockAuthorized
=============================================================================

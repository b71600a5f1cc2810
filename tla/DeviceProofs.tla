----------------------------- MODULE DeviceProofs -----------------------------
(***************************************************************************)
(* The safety of Device for any number of channels, any configurations and *)
(* timings, any order of the steps of the two tasks, and a power cut at    *)
(* any of them.  The inductive invariant follows a lock change through its *)
(* steps: before its sweep nothing is known of the outputs, between sweep  *)
(* and inhibit they are dark but for what slipped through, after it the    *)
(* inhibit agrees with the state; and a command that has passed its check  *)
(* passed it while no lock was in force.  What is in flash, in the mirror  *)
(* and in a task's hands is what a boot may start from.                    *)
(*                                                                         *)
(* The phone writes no configuration here.  A config write puts the states *)
(* it read back over those of a lock that came in between, and hides the   *)
(* mirror it replaced from a flush under way (README, section 5).          *)
(***************************************************************************)
EXTENDS Device, EngineProofs

NoConfigWrites == "commit" \notin BleOps

\* The immobilizer has an ignition to work on.
Keyed(outputs) == outputs.config.is_ignition # {}

\* A command in hand passed its check while no lock was in force.
EarlyOnes == {cmd \in Command : cmd.early}

\* What the two tasks hold between the steps of a call.
HeldOK ==
  /\ app.at = "flushing" => app.held \subseteq {blob \in Outputs : Keyed(blob)}
  /\ app.at = "locksaving" => app.held \subseteq LockBlob
  /\ app.at \in {"levelset", "eventset", "key"} => app.held \subseteq EarlyOnes
  /\ ble.at = "locksaving" => ble.held \subseteq LockBlob
  /\ ble.at \in {"setting", "key"} => ble.held \subseteq EarlyOnes
  /\ ble.at \notin {"mirroring", "applying"}

\* The lock's own record is consistent at every step.
RecordOK(l) ==
  /\ l \in LockRecord
  /\ l.locked_flag <=> l.state = "LOCKED"
  /\ l.state = "LOCKED" => l.config.immobilizer_enabled

\* Where a task stands in a lock change.
Steps == {"sweep", "inhibit", "lift"}
Stage(task) == IF task.at \in Steps THEN task.at ELSE "none"

\* Lock changes that do not overlap: what is under way, and what is done.
Agrees ==
  ~ crossed =>
    /\ Stage(app) = "none" \/ Stage(ble) = "none"
    /\ Stage(app) = "none" /\ Stage(ble) = "none" => (output.immobilized <=> Locked)
    /\ Stage(app) \in {"sweep", "inhibit"} \/ Stage(ble) \in {"sweep", "inhibit"} => Locked
    /\ Stage(app) = "lift" \/ Stage(ble) = "lift" => ~ Locked

\* After the sweep.
Dark ==
  ~ crossed /\ Locked /\ Stage(app) # "sweep" /\ Stage(ble) # "sweep" =>
    output.commanded \ slipped \subseteq output.config.hazard_member

BoardOK ==
  /\ RecordOK(lock) /\ output \in Engine
  /\ output.config \in Configs /\ Keyed(output)
  /\ Agrees /\ Dark

IInv == TypeOK /\ BoardOK /\ HeldOK /\ Keyed(mirror) /\ Keyed(flash.outputs)

LEMMA BoardParts == board.lock = lock /\ board.output = output /\ (IsLocked(board) <=> Locked)
BY DEF board, IsLocked, Locked

LEMMA StageOf ==
  /\ Entering(app) <=> Stage(app) \in {"sweep", "inhibit"}
  /\ Entering(ble) <=> Stage(ble) \in {"sweep", "inhibit"}
  /\ MidChange(app) <=> Stage(app) # "none"
  /\ MidChange(ble) <=> Stage(ble) # "none"
  /\ Changing <=> Stage(app) # "none" \/ Stage(ble) # "none"
BY DEF Entering, MidChange, Changing, Stage, Steps

\* A sound board comes out of whatever lock and outputs the flash holds.
LEMMA BootSound ==
  ASSUME NEW cfg \in LockConfig, NEW flag \in BOOLEAN, NEW on \in SUBSET Channel,
         NEW oc \in OutputConfig, ValidOutputConfig(oc)
  PROVE  LET b == LockInit(cfg, flag, InitEngine(oc, on))
         IN  Sound(b) /\ b.output.config = oc
<1> DEFINE o == InitEngine(oc, on)
           b == LockInit(cfg, flag, o)
           locked == cfg.immobilizer_enabled /\ flag /\ ~ Riding(o)
<1>1. o \in Engine /\ o.config = oc /\ ~ o.engine_running
  BY InitEngineType DEF InitEngine
<1>2. /\ b.lock \in LockRecord /\ NoAttempts(b.lock) /\ b.lock.config = cfg
      /\ b.lock.locked_flag = locked /\ (b.lock.state = "LOCKED" <=> locked)
      /\ b.lock.state = "DISABLED" <=> ~ cfg.immobilizer_enabled
  <2> HIDE DEF o
  <2>1. cfg.immobilizer_enabled \in BOOLEAN /\ locked \in BOOLEAN /\ Riding(o) \in BOOLEAN
    BY <1>1 DEF LockConfig, Riding, IgnitionLive, Engine
  <2> QED BY <2>1, EmptySeq DEF LockInit, LockRecord, LockStates, NoAttempts
<1>3. b.output = IF locked THEN ForceOff(SetImmobilized(o, TRUE))
                 ELSE SetImmobilized(o, FALSE)
  BY DEF LockInit
<1>4. b = [lock |-> b.lock, output |-> b.output]
  BY DEF LockInit
<1> HIDE DEF b, o
<1>5. \A f \in BOOLEAN : LET p == SetImmobilized(o, f)
                         IN  /\ p \in Engine /\ p.immobilized = f /\ p.config = oc
                             /\ ~ p.engine_running
  BY <1>1 DEF SetImmobilized, Engine
<1>6. CASE locked
  <2> DEFINE p == SetImmobilized(o, TRUE)
             q == ForceOff(p)
  <2>1. /\ Keeps(p, q) /\ p \in Engine /\ p.immobilized /\ p.config = oc /\ ~ p.engine_running
        /\ q.commanded \subseteq p.config.hazard_member
    BY <1>5, ForceOffKeeps
  <2>2. b.output = q
    BY <1>3, <1>6
  <2> HIDE DEF p, q, locked
  <2>3. /\ q \in Engine /\ q.immobilized /\ q.config = oc /\ ~ q.engine_running
        /\ q.commanded \subseteq oc.hazard_member
    BY <2>1 DEF Keeps, Untouched
  <2> HIDE DEF q
  <2>4. b \in Board
    BY <1>2, <1>4, <2>2, <2>3 DEF Board
  <2>5. Sound(b)
    BY <1>2, <1>6, <2>2, <2>3, <2>4 DEF Sound, IsLocked
  <2> QED BY <2>2, <2>3, <2>5 DEF b, o
<1>7. CASE ~ locked
  <2> DEFINE p == SetImmobilized(o, FALSE)
  <2>1. p \in Engine /\ ~ p.immobilized /\ p.config = oc /\ b.output = p
    BY <1>3, <1>5, <1>7
  <2> HIDE DEF p, locked
  <2>2. Sound([lock |-> b.lock, output |-> p])
    BY <1>2, <1>7, <2>1, OpenSound
  <2> QED BY <1>4, <2>1, <2>2 DEF b, o
<1> QED BY <1>6, <1>7

Flash == [outputs : Outputs, lock : LockBlob]

LEMMA OutputsTyped ==
  ASSUME NEW cfg \in Configs, NEW on \in SUBSET Channel
  PROVE  [config |-> cfg, commanded |-> on] \in Outputs
BY DEF Outputs

LEMMA BlobTyped == ASSUME NEW l \in LockRecord PROVE BlobOf(l) \in LockBlob
BY DEF BlobOf, LockBlob, LockRecord

\* Clearing the dirty mark of a lock disturbs nothing.
LEMMA SavedSafe ==
  ASSUME NEW b, Sound(b)
  PROVE  LET m == [b.lock EXCEPT !.dirty = FALSE]
             c == [b EXCEPT !.lock = m]
         IN  Safe(b, c) /\ c.lock = m /\ c.output = b.output
<1> DEFINE m == [b.lock EXCEPT !.dirty = FALSE]
<1>1. SameLock(b.lock, m) /\ (NoAttempts(b.lock) => NoAttempts(m))
  BY BoardFields DEF Sound, SameLock, LockRecord, NoAttempts
<1> HIDE DEF m
<1>2. IsLocked(b) \/ NoAttempts(m)
  BY <1>1 DEF Sound
<1> QED BY <1>1, <1>2, SameLockSafe DEF m

LEMMA BootSafe ==
  ASSUME NEW f \in Flash
  PROVE  /\ Sound(BootBoard(f)) /\ BootBoard(f).output.config = f.outputs.config
         /\ BootBoard(f).output = Restored(f).output
         /\ BootBoard(f).lock.state = Restored(f).lock.state
         /\ BootFlash(f) \in Flash /\ BootFlash(f).outputs = f.outputs
<1> DEFINE r == Restored(f)
           m == [r.lock EXCEPT !.dirty = FALSE]
<1>1. /\ f.outputs.config \in OutputConfig /\ ValidOutputConfig(f.outputs.config)
      /\ f.outputs.commanded \in SUBSET Channel
      /\ f.lock.config \in LockConfig /\ f.lock.flag \in BOOLEAN
  BY DeviceAssumption DEF Flash, Outputs, LockBlob
<1>2. Sound(r) /\ r.output.config = f.outputs.config
  BY <1>1, BootSound DEF Restored
<1> HIDE DEF r
<1>3. r \in Board /\ r.lock \in LockRecord
  BY <1>2, BoardFields DEF Sound
<1>4. BootBoard(f) = [r EXCEPT !.lock = m]
  BY <1>3 DEF BootBoard, r, Board
<1>5. /\ Sound(BootBoard(f)) /\ BootBoard(f).output.config = f.outputs.config
      /\ BootBoard(f).output = r.output /\ BootBoard(f).lock.state = r.lock.state
  <2>1. m.state = r.lock.state
    BY <1>3 DEF LockRecord
  <2> HIDE DEF m
  <2> QED BY <1>2, <1>4, <2>1, SavedSafe DEF m, Safe
<1>6. BootFlash(f) \in Flash /\ BootFlash(f).outputs = f.outputs
  BY <1>3, BlobTyped DEF BootFlash, r, Flash
<1> QED BY <1>5, <1>6 DEF r

-----------------------------------------------------------------------------
(* What a call does to the lock's record, and to the outputs if it does    *)
(* not enter or leave LOCKED                                               *)

Mild(o, p) == p \in Engine /\ p.config = o.config /\ p.immobilized = o.immobilized

LEMMA KeepsMild == ASSUME NEW o, NEW p, Keeps(o, p) PROVE Mild(o, p)
BY DEF Keeps, Untouched, Mild

LEMMA MildTrans ==
  ASSUME NEW o, NEW p, NEW q, Mild(o, p), Mild(p, q) PROVE Mild(o, q)
BY DEF Mild

Effect(b, r) ==
  /\ RecordOK(r.lock) /\ r.lock.config = b.lock.config
  /\ IsLocked(r) <=> IsLocked(b) => Mild(b.output, r.output)
  /\ IsLocked(r) /\ IsLocked(b) => r.output = b.output

LEMMA EnterLockedEffect ==
  ASSUME NEW b \in Board, RecordOK(b.lock), ~ IsLocked(b), b.lock.config.immobilizer_enabled
  PROVE  Effect(b, EnterLocked(b)) /\ IsLocked(EnterLocked(b))
<1> DEFINE f == SetFlag(b.lock, TRUE)
           l == [f EXCEPT !.state = "LOCKED", !.parked_for = 0]
<1>1. f \in LockRecord /\ f.locked_flag /\ f.config = b.lock.config
  BY BoardFields, SetFlagType DEF SetFlag, LockRecord
<1> HIDE DEF f
<1>2. RecordOK(l) /\ l.config = b.lock.config /\ l.state = "LOCKED"
  BY <1>1 DEF RecordOK, LockRecord, LockStates
<1>3. EnterLocked(b).lock = l
  BY DEF EnterLocked, f
<1> HIDE DEF l
<1> QED BY <1>2, <1>3 DEF Effect, IsLocked

LEMMA EnterUnlockedEffect ==
  ASSUME NEW b \in Board, IsLocked(b)
  PROVE  /\ RecordOK(EnterUnlocked(b).lock) /\ ~ IsLocked(EnterUnlocked(b))
         /\ EnterUnlocked(b).lock.config = b.lock.config
<1> DEFINE f == SetFlag(b.lock, FALSE)
           l == [f EXCEPT !.state = "UNLOCKED", !.parked_for = 0]
<1>1. f \in LockRecord /\ ~ f.locked_flag /\ f.config = b.lock.config
  BY BoardFields, SetFlagType DEF SetFlag, LockRecord
<1> HIDE DEF f
<1>2. l \in LockRecord /\ ~ l.locked_flag /\ l.config = b.lock.config /\ l.state = "UNLOCKED"
  BY <1>1 DEF LockRecord, LockStates
<1>3. EnterUnlocked(b).lock = ResetCheatcode(l)
  BY DEF EnterUnlocked, IsLocked, f
<1> HIDE DEF l
<1>4. /\ ResetCheatcode(l) \in LockRecord /\ ~ ResetCheatcode(l).locked_flag
      /\ ResetCheatcode(l).config = b.lock.config /\ ResetCheatcode(l).state = "UNLOCKED"
  BY <1>2, ResetCheatcodeType DEF ResetCheatcode, LockRecord
<1> QED BY <1>3, <1>4 DEF RecordOK, IsLocked

\* A new record in the same state, and outputs that a locked bike keeps.
LEMMA SameEffect ==
  ASSUME NEW b \in Board, RecordOK(b.lock), NEW m, SameLock(b.lock, m),
         NEW p, Mild(b.output, p), IsLocked(b) => p = b.output
  PROVE  LET r == [lock |-> m, output |-> p]
         IN  /\ Effect(b, r) /\ (IsLocked(r) <=> IsLocked(b)) /\ r \in Board
             /\ r.lock = m /\ r.output = p /\ RecordOK(m)
BY DEF Effect, SameLock, RecordOK, IsLocked, Mild, Board

LEMMA MildRefl == ASSUME NEW o \in Engine PROVE Mild(o, o)
BY DEF Mild

LEMMA GoToEffect ==
  ASSUME NEW b \in Board, RecordOK(b.lock), ~ IsLocked(b), NEW state \in {"UNLOCKED", "PARKED"}
  PROVE  Effect(b, GoTo(b, state))
<1> DEFINE m == [b.lock EXCEPT !.state = state, !.parked_for = 0]
<1>1. RecordOK(m) /\ m.config = b.lock.config /\ m.state # "LOCKED"
  BY DEF RecordOK, LockRecord, LockStates, IsLocked
<1> HIDE DEF m
<1>2. GoTo(b, state) = [lock |-> m, output |-> b.output]
  BY DEF GoTo, Board, m
<1> QED BY <1>1, <1>2, MildRefl, BoardFields DEF Effect, IsLocked

LEMMA EnterDisabledStays ==
  ASSUME NEW b \in Board, RecordOK(b.lock), ~ IsLocked(b)
  PROVE  Effect(b, EnterDisabled(b))
<1> DEFINE f == SetFlag(b.lock, FALSE)
           l == [f EXCEPT !.state = "DISABLED", !.parked_for = 0]
<1>1. f \in LockRecord /\ ~ f.locked_flag /\ f.config = b.lock.config
  BY BoardFields, SetFlagType DEF SetFlag, LockRecord
<1> HIDE DEF f
<1>2. RecordOK(l) /\ l.config = b.lock.config /\ l.state # "LOCKED"
  BY <1>1 DEF RecordOK, LockRecord, LockStates
<1>3. EnterDisabled(b) = [b EXCEPT !.lock = l]
  BY DEF EnterDisabled, IsLocked, f
<1> HIDE DEF l
<1>4. EnterDisabled(b) = [lock |-> l, output |-> b.output]
  BY <1>3 DEF Board
<1> QED BY <1>2, <1>4, MildRefl, BoardFields DEF Effect, IsLocked

LEMMA RequestEffects ==
  ASSUME NEW b \in Board, RecordOK(b.lock)
  PROVE  Effect(b, RequestLock(b)) /\ Effect(b, RequestUnlock(b))
<1>1. Effect(b, b)
  BY MildRefl, BoardFields DEF Effect, IsLocked
<1>2. Effect(b, RequestLock(b))
  BY <1>1, EnterLockedEffect DEF RequestLock, IsLocked
<1>3. IsLocked(b) => Effect(b, EnterUnlocked(b))
  BY EnterUnlockedEffect DEF Effect
<1>4. Effect(b, RequestUnlock(b))
  BY <1>1, <1>3 DEF RequestUnlock, IsLocked
<1> QED BY <1>2, <1>4

LEMMA CheatcodePressEffect ==
  ASSUME NEW b \in Board, RecordOK(b.lock), NEW button \in Button
  PROVE  Effect(b, CheatcodePress(b, button))
<1> DEFINE r == CheatcodePress(b, button)
           l == b.lock
           c == [lock |-> Judged(l), output |-> b.output]
<1>0. l \in LockRecord /\ b.output \in Engine /\ b = [lock |-> l, output |-> b.output]
  BY BoardFields DEF Board
<1>1. /\ SameLock(l, Typed(l, button)) /\ SameLock(l, Judged(l)) /\ SameLock(l, Penalized(l))
  <2>1. SameLock(l, Typed(l, button)) /\ SameLock(l, Judged(l))
    BY <1>0, EntryTypes DEF SameLock, Typed, Judged, LockRecord
  <2>2. SameLock(l, Penalized(l))
    BY <1>0, EntryTypes DEF SameLock, Penalized, Judged, LockRecord
  <2> QED BY <2>1, <2>2
<1>2. \/ r = b
      \/ r = [lock |-> Typed(l, button), output |-> b.output]
      \/ r = [lock |-> Penalized(l), output |-> b.output]
      \/ r = EnterUnlocked(c) /\ IsLocked(b)
  BY <1>0 DEF CheatcodePress, Listening, IsLocked
<1>3. \A m : SameLock(l, m) => Effect(b, [lock |-> m, output |-> b.output])
  BY <1>0, SameEffect, MildRefl
<1>4. CASE r = EnterUnlocked(c) /\ IsLocked(b)
  <2>1. c \in Board /\ IsLocked(c) /\ c.lock.config = l.config
    BY <1>0, <1>1, <1>4 DEF Board, SameLock, IsLocked
  <2> HIDE DEF c
  <2> QED BY <1>4, <2>1, EnterUnlockedEffect DEF Effect
<1>5. SameLock(l, l)
  BY <1>0 DEF SameLock
<1> QED BY <1>0, <1>1, <1>2, <1>3, <1>4, <1>5

LEMMA FollowSwitchMild ==
  ASSUME NEW b \in Board, AtMostOne(b.output.config.is_ignition), NEW level \in BOOLEAN
  PROVE  /\ Mild(b.output, FollowSwitch(b, level))
         /\ IsLocked(b) => FollowSwitch(b, level) = b.output
<1> DEFINE ign == FirstChannel(b.output.config.is_ignition)
<1>1. b.output \in Engine
  BY BoardFields
<1>2. ign = None \/ ign \in Channel
  BY <1>1, FirstOfAtMostOne DEF Engine, OutputConfig
<1>3. CASE FollowSwitch(b, level) = b.output
  BY <1>1, <1>3, MildRefl
<1>4. CASE /\ ign # None /\ b.lock.state # "LOCKED"
           /\ FollowSwitch(b, level) = OutputSet(b.output, ign, level, "local")
  BY <1>1, <1>2, <1>4, OutputSetKeeps, KeepsMild DEF IsLocked
<1> QED BY <1>3, <1>4 DEF FollowSwitch

LEMMA LockTickEffect ==
  ASSUME NEW b \in Board, RecordOK(b.lock), AtMostOne(b.output.config.is_ignition)
  PROVE  Effect(b, LockTick(b, FALSE))
<1> DEFINE m == Elapse(b.lock)
           c == [b EXCEPT !.lock = Elapse(@)]
           n == [m EXCEPT !.prev_switch = FALSE]
           p == FollowSwitch(c, FALSE)
           s == Switched(c, FALSE)
           r == LockTick(b, FALSE)
<1>0. b.lock \in LockRecord /\ b.output \in Engine
  BY BoardFields
<1>1. SameLock(b.lock, m)
  BY <1>0, ElapseSame
<1>2. c = [lock |-> m, output |-> b.output]
  BY DEF Board
<1>3. /\ c \in Board /\ c.lock = m /\ c.output = b.output /\ RecordOK(m)
      /\ Effect(b, c) /\ (IsLocked(c) <=> IsLocked(b))
  <2> HIDE DEF m, c
  <2> QED BY <1>0, <1>1, <1>2, SameEffect, MildRefl
<1>4. SameLock(m, n)
  <2> HIDE DEF m
  <2> QED BY <1>3 DEF SameLock, RecordOK, LockRecord
<1>5. s = [lock |-> n, output |-> p]
  BY <1>3 DEF Switched
<1> HIDE DEF c, m
<1>6. Mild(b.output, p) /\ (IsLocked(b) => p = b.output)
  BY <1>3, FollowSwitchMild
<1> HIDE DEF n, p, s
<1>7. /\ s \in Board /\ s.lock = n /\ s.output = p /\ RecordOK(n)
      /\ Effect(c, s) /\ (IsLocked(s) <=> IsLocked(c))
  BY <1>3, <1>4, <1>5, <1>6, SameEffect
<1>8. s.lock.config = b.lock.config
  BY <1>1, <1>4, <1>7 DEF SameLock
<1>9. ASSUME NEW x, Effect(s, x) PROVE Effect(b, x)
  BY <1>3, <1>6, <1>7, <1>8, <1>9, MildTrans DEF Effect
<1>10. CASE c.lock.config.immobilizer_enabled
  <2>1. r = EnabledTick(s, FALSE)
    BY <1>10 DEF LockTick, c, s
  <2>2. s.lock.config.immobilizer_enabled
    BY <1>3, <1>4, <1>7, <1>10 DEF SameLock
  <2>3. s.lock.state \in LockStates /\ Effect(s, s)
    BY <1>7, MildRefl, BoardFields DEF RecordOK, LockRecord, Effect, IsLocked
  <2>4. CASE s.lock.state # "LOCKED"
    <3>1. Effect(s, EnabledTick(s, FALSE))
      BY <1>7, <2>2, <2>3, <2>4, GoToEffect, EnterLockedEffect DEF EnabledTick, IsLocked, LockStates
    <3> QED BY <1>9, <2>1, <3>1
  <2>5. CASE s.lock.state = "LOCKED"
    BY <1>9, <2>1, <2>3, <2>5 DEF EnabledTick
  <2> QED BY <2>4, <2>5
<1>11. CASE ~ c.lock.config.immobilizer_enabled
  <2>1. r = IF c.lock.state = "DISABLED" THEN c ELSE EnterDisabled(c)
    BY <1>11 DEF LockTick, c
  <2>2. ~ IsLocked(c)
    BY <1>3, <1>11 DEF RecordOK, IsLocked
  <2>3. Effect(c, EnterDisabled(c))
    BY <1>3, <2>2, EnterDisabledStays
  <2>4. Effect(b, EnterDisabled(c))
    BY <1>3, <2>3 DEF Effect
  <2> QED BY <1>3, <2>1, <2>4
<1> QED BY <1>10, <1>11

-----------------------------------------------------------------------------
(* The steps of the board                                                  *)

StagesKept == Stage(app)' = Stage(app) /\ Stage(ble)' = Stage(ble)

\* No lock change begins or goes on; what is lit anew slipped or flashes.
LEMMA QuietStep ==
  ASSUME IInv, StagesKept, crossed' = crossed, RecordOK(lock'), Locked' <=> Locked,
         Mild(output, output'),
         Locked => output'.commanded \ slipped' \subseteq
                     (output.commanded \ slipped) \cup output.config.hazard_member
  PROVE  BoardOK'
<1>1. output'.config = output.config /\ output'.immobilized = output.immobilized
      /\ output' \in Engine
  BY DEF Mild
<1>2. Agrees'
  BY <1>1 DEF StagesKept, IInv, BoardOK, Agrees
<1>3. Dark'
  BY <1>1 DEF StagesKept, IInv, BoardOK, Dark
<1> QED BY <1>1, <1>2, <1>3 DEF IInv, BoardOK, Keyed

LEMMA StillStep ==
  ASSUME IInv, StagesKept, UNCHANGED <<lock, output, past>>
  PROVE  BoardOK'
<1>1. RecordOK(lock') /\ Mild(output, output') /\ (Locked' <=> Locked)
  BY MildRefl DEF IInv, BoardOK, Locked
<1> QED BY <1>1, QuietStep DEF past

\* A call into mc_lock, up to where it reaches the outputs.
LEMMA CallStep ==
  ASSUME IInv, NEW b, Effect(board, b), NEW before, Mild(output, before), Calls(b, before),
         NEW next, next \notin Steps,
         \/ Stage(app) = "none" /\ app' = Reached(b, next) /\ ble' = ble
         \/ Stage(ble) = "none" /\ ble' = Reached(b, next) /\ app' = app
  PROVE  BoardOK'
<1>1. RecordOK(lock') /\ (IsLocked(b) <=> Locked') /\ lock' = b.lock
  BY DEF Effect, Calls, IsLocked, Locked
<1>2. CASE ~ ChangesLock(b)
  <2>1. (Locked' <=> Locked) /\ crossed' = crossed /\ slipped' = slipped /\ output' = b.output
    BY <1>1, <1>2 DEF ChangesLock, Calls, Locked, IsLocked
  <2>2. StagesKept
    BY <1>2 DEF StagesKept, Reached, At, Stage
  <2>3. Mild(output, output') /\ (Locked => output' = output)
    BY <1>1, <2>1, BoardParts DEF Effect
  <2> QED BY <1>1, <2>1, <2>2, <2>3, QuietStep
<1>3. CASE ChangesLock(b)
  <2>1. (Locked' <=> ~ Locked) /\ crossed' = Changing /\ output' = before
    BY <1>1, <1>3 DEF ChangesLock, Calls, Locked, IsLocked
  <2> DEFINE first == IF Locked THEN "lift" ELSE "sweep"
  <2>2. \/ Stage(app) = "none" /\ Stage(app)' = first /\ Stage(ble)' = Stage(ble)
        \/ Stage(ble) = "none" /\ Stage(ble)' = first /\ Stage(app)' = Stage(app)
    BY <1>3 DEF Reached, At, Stage, Steps
  <2>3. output' \in Engine /\ output'.config = output.config
    BY <2>1 DEF Mild
  <2>4. Agrees' /\ Dark'
    BY <2>1, <2>2, StageOf DEF Agrees, Dark
  <2> QED BY <1>1, <2>3, <2>4 DEF IInv, BoardOK, Keyed
<1> QED BY <1>2, <1>3

\* One task goes from "from" to "to" in its lock change.
Moves2(from, to) ==
  \/ Stage(app) = from /\ Stage(app)' = to /\ Stage(ble)' = Stage(ble)
  \/ Stage(ble) = from /\ Stage(ble)' = to /\ Stage(app)' = Stage(app)

LEMMA SweepStep ==
  ASSUME IInv, Moves2("sweep", "inhibit"), UNCHANGED <<lock, crossed>>,
         output' = ForceOff(output), slipped' = {}
  PROVE  BoardOK'
<1>1. /\ Mild(output, output') /\ output' \in Engine
      /\ output'.commanded \subseteq output.config.hazard_member
  BY ForceOffKeeps, KeepsMild DEF IInv, BoardOK, Mild
<1>2. Locked' <=> Locked
  BY DEF Locked
<1>3. Agrees' /\ Dark'
  BY <1>1, <1>2 DEF Moves2, IInv, BoardOK, Agrees, Dark, Mild
<1> QED BY <1>1, <1>3 DEF IInv, BoardOK, Keyed, Mild

LEMMA InhibitStep ==
  ASSUME IInv, Moves2("inhibit", "none"), UNCHANGED <<lock, past>>,
         output' = SetImmobilized(output, TRUE)
  PROVE  BoardOK'
<1>1. /\ output' \in Engine /\ output'.immobilized
      /\ output'.config = output.config /\ output'.commanded = output.commanded
  BY DEF SetImmobilized, Engine, IInv, BoardOK
<1>2. (Locked' <=> Locked) /\ crossed' = crossed /\ slipped' = slipped
  BY DEF Locked, past
<1>3. Agrees' /\ Dark'
  BY <1>1, <1>2 DEF Moves2, IInv, BoardOK, Agrees, Dark
<1> QED BY <1>1, <1>3 DEF IInv, BoardOK, Keyed

LEMMA LiftStep ==
  ASSUME IInv, Moves2("lift", "none"), UNCHANGED <<lock, past>>,
         output' = SetImmobilized(output, FALSE)
  PROVE  BoardOK'
<1>1. /\ output' \in Engine /\ ~ output'.immobilized
      /\ output'.config = output.config /\ output'.commanded = output.commanded
  BY DEF SetImmobilized, Engine, IInv, BoardOK
<1>2. (Locked' <=> Locked) /\ crossed' = crossed /\ slipped' = slipped
  BY DEF Locked, past
<1>3. Agrees' /\ Dark'
  BY <1>1, <1>2 DEF Moves2, IInv, BoardOK, Agrees, Dark
<1> QED BY <1>1, <1>3 DEF IInv, BoardOK, Keyed

LEMMA LightStep ==
  ASSUME IInv, NEW task, Light(task), task.held \subseteq EarlyOnes, StagesKept, lock' = lock
  PROVE  BoardOK' /\ slipped' \subseteq Channel /\ crossed' = crossed
<1>1. PICK cmd \in task.held :
        /\ output' = ApplySet(output, cmd.channel, TRUE)
        /\ slipped' = IF cmd.early /\ Locked
                      THEN slipped \cup (output'.commanded \ output.commanded)
                      ELSE slipped
        /\ UNCHANGED crossed
  BY DEF Light
<1>2. cmd.channel \in Channel /\ cmd.early
  BY DEF EarlyOnes, Command
<1>3. Keeps(output, output')
  BY <1>1, <1>2, ApplySetKeeps DEF IInv, BoardOK
<1>4. Mild(output, output') /\ output' \in Engine
  BY <1>3, KeepsMild DEF Mild
<1>5. slipped' \subseteq Channel
  BY <1>1, <1>4 DEF Engine, IInv, TypeOK
<1>6. RecordOK(lock') /\ (Locked' <=> Locked)
  BY DEF IInv, BoardOK, Locked
<1>7. Locked => output'.commanded \ slipped' \subseteq output.commanded \ slipped
  BY <1>1, <1>2
<1> QED BY <1>1, <1>4, <1>5, <1>6, <1>7, QuietStep

LEMMA OutputStep ==
  ASSUME IInv, StagesKept, UNCHANGED <<lock, past>>, Mild(output, output'),
         output'.commanded \subseteq output.commanded \cup output.config.hazard_member
  PROVE  BoardOK'
<1>1. RecordOK(lock') /\ (Locked' <=> Locked)
  BY DEF IInv, BoardOK, Locked
<1> QED BY <1>1, QuietStep DEF past

LEMMA PutOutStep ==
  ASSUME IInv, StagesKept, lock' = lock, NEW ch \in Channel, PutOut(ch)
  PROVE  BoardOK' /\ UNCHANGED past
BY ApplySetKeeps, KeepsMild, OffLights, OutputStep DEF PutOut, IInv, BoardOK

LEMMA HazardStep ==
  ASSUME IInv, StagesKept, UNCHANGED <<lock, past>>, output' = HazardPress(output)
  PROVE  BoardOK'
<1>1. output \in Engine
  BY DEF IInv, BoardOK
<1>2. HazardPress(output).commanded \subseteq output.commanded \cup output.config.hazard_member
  BY <1>1 DEF HazardPress, EndHazardMode, StartHazardMode, ClearDeadlines, Engine
<1> QED BY <1>1, <1>2, HazardPressKeeps, KeepsMild, OutputStep

\* A command that passes its check does so while no lock is in force.
LEMMA AskedEarly ==
  ASSUME IInv, NEW ch \in Channel, NEW source, NEW next, NEW refused
  PROVE  \/ Asked(ch, source, next, refused) = At(refused)
         \/ /\ Asked(ch, source, next, refused).at = next
            /\ Asked(ch, source, next, refused).held \subseteq EarlyOnes
<1>1. CASE Permitted(output, ch, TRUE, source)
  <2>1. ~ output.immobilized
    BY <1>1 DEF Permitted
  <2>2. ~ InForce
    BY <2>1, StageOf DEF InForce, IInv, BoardOK, Agrees
  <2> DEFINE cmd == [channel |-> ch, early |-> ~ InForce]
  <2>3. cmd \in Command /\ cmd.early
    BY <2>2 DEF Command
  <2>4. Asked(ch, source, next, refused) = [at |-> next, held |-> {cmd}]
    BY <1>1 DEF Asked, Holding
  <2> HIDE DEF cmd
  <2> QED BY <2>3, <2>4 DEF EarlyOnes
<1>2. CASE ~ Permitted(output, ch, TRUE, source)
  BY <1>2 DEF Asked
<1> QED BY <1>1, <1>2

LEMMA TurnedEarly ==
  ASSUME IInv, NEW done
  PROVE  \/ Turned(done) = At(done)
         \/ Turned(done).at = "key" /\ Turned(done).held \subseteq EarlyOnes
<1> DEFINE ign == FirstChannel(output.config.is_ignition)
<1>1. AtMostOne(output.config.is_ignition) /\ output.config \in OutputConfig
  BY DeviceAssumption DEF IInv, BoardOK, ValidOutputConfig
<1>2. ign = None \/ ign \in Channel
  BY <1>1, FirstOfAtMostOne DEF OutputConfig
<1> HIDE DEF ign
<1> QED BY <1>2, AskedEarly DEF Turned, ign

LEMMA LockWriteKeeps ==
  ASSUME IInv, NEW task, LockWrite(task), task.held \subseteq LockBlob, StagesKept
  PROVE  /\ BoardOK' /\ flash' \in Flash /\ flash'.outputs = flash.outputs
         /\ UNCHANGED <<mirror, sched, past>>
<1>1. flash' \in Flash /\ flash'.outputs = flash.outputs /\ UNCHANGED <<mirror, sched, past, output>>
  BY DEF IInv, TypeOK, LockWrite, Flash
<1>2. lock' = lock \/ lock' = [lock EXCEPT !.dirty = FALSE]
  BY DEF LockWrite
<1>3. RecordOK(lock') /\ (Locked' <=> Locked)
  BY <1>2 DEF IInv, BoardOK, RecordOK, LockRecord, Locked
<1>4. Mild(output, output')
  BY <1>1, MildRefl DEF IInv, BoardOK
<1> QED BY <1>1, <1>3, <1>4, QuietStep DEF past

LEMMA AppTickKeeps == ASSUME IInv, AppTick PROVE BoardOK'
<1>1. output \in Engine
  BY DEF IInv, BoardOK
<1>2. OutputTick(output).commanded \subseteq output.commanded
  BY <1>1 DEF OutputTick, Engine
<1>3. UNCHANGED <<lock, past>> /\ StagesKept /\ output' = OutputTick(output)
  BY DEF AppTick, StagesKept, Stage, Steps, At
<1> QED BY <1>1, <1>2, <1>3, OutputTickKeeps, KeepsMild, OutputStep

LEMMA AppDiagKeeps == ASSUME IInv, AppDiag PROVE BoardOK'
<1>1. PICK running \in BOOLEAN : output' = SetEngineRunning(output, running)
  BY DEF AppDiag
<1>2. Mild(output, output') /\ output'.commanded \subseteq output.commanded
  BY <1>1 DEF SetEngineRunning, Mild, Engine, IInv, BoardOK
<1>3. UNCHANGED <<lock, past>> /\ StagesKept
  BY DEF AppDiag, StagesKept, Stage, Steps, At
<1> QED BY <1>2, <1>3, OutputStep

\* What every call of mc_lock is made on.
LEMMA BoardHere ==
  ASSUME IInv
  PROVE  board \in Board /\ RecordOK(board.lock) /\ AtMostOne(board.output.config.is_ignition)
BY BoardParts, DeviceAssumption DEF IInv, BoardOK, RecordOK, board, Board, ValidOutputConfig

LEMMA AppLockKeeps == ASSUME IInv, AppLock PROVE BoardOK'
<1> DEFINE b == LockTick(board, FALSE)
<1>1. Effect(board, b) /\ Mild(output, FollowSwitch(board, FALSE))
  BY BoardHere, BoardParts, LockTickEffect, FollowSwitchMild
<1>2. Stage(app) = "none" /\ app' = Reached(b, "events") /\ ble' = ble
  BY DEF AppLock, Stage, Steps
<1>3. Calls(b, FollowSwitch(board, FALSE))
  BY DEF AppLock
<1> DEFINE p == FollowSwitch(board, FALSE)
<1>4. "events" \notin Steps
  BY DEF Steps
<1> HIDE DEF b, p
<1> QED BY <1>1, <1>2, <1>3, <1>4, CallStep DEF p

\* A call that enters or leaves LOCKED, or does not, and starts on the outputs
\* as they are.
LEMMA CallHere ==
  ASSUME IInv, NEW b, Effect(board, b), Calls(b, output), NEW next, next \notin Steps,
         \/ Stage(app) = "none" /\ app' = Reached(b, next) /\ ble' = ble
         \/ Stage(ble) = "none" /\ ble' = Reached(b, next) /\ app' = app
  PROVE  BoardOK'
<1>1. Mild(output, output)
  BY MildRefl DEF IInv, BoardOK
<1> QED BY <1>1, CallStep

LEMMA AppEventsKeeps ==
  ASSUME IInv, AppEvents
  PROVE  BoardOK' /\ crossed' \in BOOLEAN /\ slipped' = slipped
<1>a. UNCHANGED past => crossed' \in BOOLEAN /\ slipped' = slipped
  BY DEF past, IInv, TypeOK
<1>0. Stage(app) = "none" /\ ble' = ble
  BY DEF AppEvents, Stage, Steps
<1>1. CASE app' = At("sync") /\ UNCHANGED <<lock, output, past>>
  <2>1. StagesKept
    BY <1>0, <1>1 DEF StagesKept, Stage, Steps, At
  <2>2. BoardOK'
    BY <1>1, <2>1, StillStep
  <2> QED BY <1>a, <1>1, <2>2
<1>2. ASSUME NEW ch \in Channel, app' = Asked(ch, "local", "eventset", "sync"),
             UNCHANGED <<lock, output, past>>
      PROVE  BoardOK' /\ UNCHANGED past
  <2>1. app'.at \in {"sync", "eventset"}
    BY <1>2, AskedEarly DEF At
  <2> QED BY <1>0, <1>2, <2>1, StillStep DEF StagesKept, Stage, Steps
<1>3. ASSUME NEW ch \in Channel, app' = At("sync"), PutOut(ch), UNCHANGED lock
      PROVE  BoardOK' /\ UNCHANGED past
  BY <1>0, <1>3, PutOutStep DEF StagesKept, Stage, Steps, At
<1>4. CASE app' = At("sync") /\ output' = HazardPress(output) /\ UNCHANGED <<lock, past>>
  <2>1. StagesKept
    BY <1>0, <1>4 DEF StagesKept, Stage, Steps, At
  <2>2. BoardOK'
    BY <1>4, <2>1, HazardStep
  <2> QED BY <1>a, <1>4, <2>2
<1>5. ASSUME NEW button \in Button,
             app' = Reached(CheatcodePress(board, button), "sync"),
             Calls(CheatcodePress(board, button), output)
      PROVE  BoardOK' /\ crossed' \in BOOLEAN /\ slipped' = slipped
  <2> DEFINE b == CheatcodePress(board, button)
  <2>1. Effect(board, b)
    BY BoardHere, CheatcodePressEffect
  <2>2. Calls(b, output) /\ app' = Reached(b, "sync")
    BY <1>5
  <2> HIDE DEF b
  <2>3. BoardOK'
    BY <1>0, <2>1, <2>2, CallHere DEF Steps
  <2>4. crossed' \in BOOLEAN /\ slipped' = slipped
    BY <2>2 DEF Calls, Changing, IInv, TypeOK
  <2> QED BY <2>3, <2>4
<1> QED BY <1>a, <1>1, <1>2, <1>3, <1>4, <1>5 DEF AppEvents

\* The steps of a lock change, in either task.
LEMMA ChangeKeeps ==
  ASSUME IInv, NEW task, NEW task2, UNCHANGED <<lock>>, task2.at \notin Steps \/ task2.at = "inhibit",
         \/ Stage(app) = Stage(task) /\ Stage(app)' = Stage(task2) /\ ble' = ble
         \/ Stage(ble) = Stage(task) /\ Stage(ble)' = Stage(task2) /\ app' = app,
         \/ Sweep(task) /\ task2.at = "inhibit"
         \/ Inhibit(task) /\ task2.at \notin Steps
         \/ Lift(task) /\ task2.at \notin Steps
         \/ task.at \notin Steps /\ task2.at \notin Steps /\ UNCHANGED <<output, past>>
         \/ task.at \notin Steps /\ task2.at \notin Steps /\ Light(task)
            /\ task.held \subseteq EarlyOnes
  PROVE  BoardOK' /\ slipped' \subseteq Channel /\ crossed' = crossed
<1>0. slipped \subseteq Channel
  BY DEF IInv, TypeOK
<1>1. CASE Sweep(task) /\ task2.at = "inhibit"
  <2>1. Moves2("sweep", "inhibit")
    BY <1>1 DEF Sweep, Stage, Steps, Moves2
  <2> QED BY <1>1, <2>1, SweepStep DEF Sweep
<1>2. CASE Inhibit(task) /\ task2.at \notin Steps
  <2>1. Moves2("inhibit", "none")
    BY <1>2 DEF Inhibit, Stage, Steps, Moves2
  <2> QED BY <1>0, <1>2, <2>1, InhibitStep DEF Inhibit, past
<1>3. CASE Lift(task) /\ task2.at \notin Steps
  <2>1. Moves2("lift", "none")
    BY <1>3 DEF Lift, Stage, Steps, Moves2
  <2> QED BY <1>0, <1>3, <2>1, LiftStep DEF Lift, past
<1>4. ASSUME task.at \notin Steps, task2.at \notin Steps PROVE StagesKept
  BY <1>4 DEF StagesKept, Stage
<1>5. CASE task.at \notin Steps /\ task2.at \notin Steps /\ UNCHANGED <<output, past>>
  BY <1>0, <1>4, <1>5, StillStep DEF past
<1>6. CASE task.at \notin Steps /\ task2.at \notin Steps /\ Light(task)
           /\ task.held \subseteq EarlyOnes
  BY <1>4, <1>6, LightStep
<1> QED BY <1>1, <1>2, <1>3, <1>5, <1>6

LEMMA RebootKeeps ==
  ASSUME NEW f \in Flash, NEW b, b = BootBoard(f), Keyed(f.outputs), f.outputs.config \in Configs,
         Becomes(b), mirror' = f.outputs, ~ crossed', slipped' = {},
         Stage(app)' = "none", Stage(ble)' = "none"
  PROVE  BoardOK' /\ mirror' \in Outputs /\ Keyed(mirror')
<1>1. Sound(b) /\ b.output.config = f.outputs.config
  BY BootSafe
<1>2. b.lock \in LockRecord /\ b.output \in Engine /\ lock' = b.lock /\ output' = b.output
  BY <1>1, BoardFields DEF Becomes, Sound
<1>3. IsLocked(b) <=> Locked'
  BY <1>2 DEF IsLocked, Locked
<1>4. RecordOK(lock')
  BY <1>1, <1>2, <1>3, SoundLeaves DEF RecordOK, Sound, IsLocked
<1>5. Agrees' /\ Dark'
  BY <1>1, <1>2, <1>3 DEF Agrees, Dark, Sound
<1> QED BY <1>1, <1>2, <1>4, <1>5 DEF BoardOK, Keyed, Flash

LEMMA InitIInv == NoConfigWrites /\ Init => IInv
<1> SUFFICES ASSUME NoConfigWrites, Init PROVE IInv
  OBVIOUS
<1>1. PICK cfg \in {c \in Configs : c.is_ignition # {}} :
        /\ flash = BootFlash(Factory(cfg))
        /\ mirror = Factory(cfg).outputs
        /\ lock = BootBoard(Factory(cfg)).lock
        /\ output = BootBoard(Factory(cfg)).output
  BY DEF Init
<1> DEFINE f == Factory(cfg)
           b == BootBoard(f)
<1>2. f \in Flash /\ Keyed(f.outputs) /\ f.outputs.config = cfg
  BY DeviceAssumption DEF Factory, Flash, Outputs, LockBlob, Keyed
<1> HIDE DEF f
<1>3. /\ Sound(b) /\ b.output.config = cfg
      /\ BootFlash(f) \in Flash /\ BootFlash(f).outputs = f.outputs
  BY <1>2, BootSafe
<1> HIDE DEF b
<1>4. lock = b.lock /\ output = b.output
  BY <1>1 DEF b, f
<1>5. lock \in LockRecord /\ output \in Engine
  BY <1>3, <1>4, BoardFields DEF Sound
<1>6. /\ mirror \in Outputs /\ Keyed(mirror)
      /\ flash \in Flash /\ Keyed(flash.outputs)
  BY <1>1, <1>2, <1>3 DEF f, Flash
<1>7. /\ sched = [dirty |-> FALSE, age |-> 0] /\ ~ crossed /\ crossed \in BOOLEAN /\ slipped = {}
      /\ app = [at |-> "tick", held |-> {}] /\ ble = [at |-> "idle", held |-> {}]
  BY DEF Init, At, Flushed
<1>8. HeldOK /\ sched \in [dirty : BOOLEAN, age : 0 .. Debounce]
  BY <1>7, DeviceAssumption DEF HeldOK
<1>9. IsLocked(b) <=> Locked
  BY <1>4 DEF IsLocked, Locked
<1>10. RecordOK(lock)
  BY <1>3, <1>4, <1>5, <1>9, SoundLeaves DEF RecordOK, Sound, IsLocked
<1>11. Agrees /\ Dark
  BY <1>3, <1>4, <1>7, <1>9 DEF Agrees, Dark, Sound, Stage, Steps
<1>12. BoardOK
  BY <1>2, <1>3, <1>4, <1>5, <1>10, <1>11 DEF BoardOK, Keyed
<1>13. TypeOK
  BY <1>5, <1>6, <1>7, <1>8 DEF TypeOK, Flash
<1> QED BY <1>6, <1>8, <1>12, <1>13 DEF IInv

LEMMA NextIInv == NoConfigWrites /\ IInv /\ [Next]_vars => IInv'
<1> SUFFICES ASSUME NoConfigWrites, IInv, [Next]_vars PROVE IInv'
  OBVIOUS
<1> DEFINE Past == crossed' \in BOOLEAN /\ slipped' \subseteq Channel
           Stored == /\ mirror' \in Outputs /\ Keyed(mirror')
                     /\ flash' \in Flash /\ Keyed(flash'.outputs)
           Sched == sched' \in [dirty : BOOLEAN, age : 0 .. Debounce]
           AppAt == {"tick", "inputs", "levelset", "diag", "lock", "sweep", "inhibit",
                     "events", "eventset", "lift", "turn", "key", "sync", "flush",
                     "flushing", "locksave", "locksaving"}
           BleAt == {"idle", "setting", "sweep", "inhibit", "lift", "turn", "key",
                     "locksave", "locksaving"}
           Hands(task) == /\ task.held \subseteq Outputs \cup LockBlob \cup Command
                          /\ task.at = "locksaving" => task.held \subseteq LockBlob
                          /\ task.at \in {"levelset", "eventset", "setting", "key"} =>
                               task.held \subseteq EarlyOnes
           AppOK == /\ app'.at \in AppAt /\ Hands(app')
                    /\ app'.at = "flushing" =>
                         app'.held \subseteq {blob \in Outputs : Keyed(blob)}
           BleOK == ble'.at \in BleAt /\ Hands(ble')
<1>a. /\ BoardOK /\ lock \in LockRecord /\ output \in Engine
      /\ mirror \in Outputs /\ Keyed(mirror) /\ flash \in Flash /\ Keyed(flash.outputs)
      /\ sched \in [dirty : BOOLEAN, age : 0 .. Debounce] /\ Debounce \in Nat \ {0}
  BY DeviceAssumption DEF IInv, TypeOK, BoardOK, Flash
<1>b. StagesKept /\ UNCHANGED <<lock, output, past>> => BoardOK'
  BY StillStep
<1>c. UNCHANGED <<mirror, flash>> => Stored
  BY <1>a
<1>d. UNCHANGED sched => Sched
  BY <1>a
<1>e. UNCHANGED app => AppOK
  BY DEF IInv, TypeOK, HeldOK
<1>f. UNCHANGED ble => BleOK
  BY DEF IInv, TypeOK, HeldOK
<1>g. sched' = Marked \/ sched' = Flushed => Sched
  <2>1. 0 \in 0 .. Debounce
    BY DeviceAssumption
  <2>2. CASE sched' = Marked
    BY <2>1, <2>2 DEF Marked
  <2>3. CASE sched' = Flushed
    BY <2>1, <2>3 DEF Flushed
  <2> QED BY <2>2, <2>3
<1>h. UNCHANGED past => Past
  BY DEF past, IInv, TypeOK
<1>i. ASSUME BoardOK', Past, Stored, Sched, AppOK, BleOK PROVE IInv'
  BY <1>i DEF IInv, TypeOK, HeldOK, Flash, BoardOK, RecordOK
<1>j. ASSUME NEW at \in AppAt, app' = At(at) PROVE AppOK
  BY <1>j DEF At
<1>k. ASSUME NEW at \in BleAt, ble' = At(at) PROVE BleOK
  BY <1>k DEF At
<1>l. EarlyOnes \subseteq Command
  BY DEF EarlyOnes
<1>m. ASSUME app'.at \in {"levelset", "eventset", "key"}, app'.held \subseteq EarlyOnes PROVE AppOK
  BY <1>l, <1>m
<1>n. ASSUME ble'.at \in {"setting", "key"}, ble'.held \subseteq EarlyOnes PROVE BleOK
  BY <1>l, <1>n
<1>o. app.at \in AppAt /\ ble.at \in BleAt
  BY DEF IInv, TypeOK, HeldOK
<1> HIDE DEF Past, Stored, Sched, AppOK, BleOK
<1>1. CASE AppTick
  <2>1. Sched
    BY <1>1, <1>a DEF AppTick, Sched
  <2> QED BY <1>1, <1>c, <1>f, <1>h, <1>i, <1>j, <2>1, AppTickKeeps DEF AppTick
<1>2. CASE AppInputs
  <2>0. /\ UNCHANGED <<lock, mirror, flash, sched, ble>> /\ app.at = "inputs"
        /\ Levels \subseteq Channel
    BY <1>2, DeviceAssumption DEF AppInputs
  <2>1. CASE app' = At("diag") /\ UNCHANGED <<output, past>>
    <3>1. StagesKept /\ AppOK
      BY <1>j, <2>0, <2>1 DEF StagesKept, Stage, Steps, At
    <3> QED BY <1>b, <1>c, <1>d, <1>f, <1>h, <1>i, <2>0, <2>1, <3>1
  <2>2. ASSUME NEW ch \in Channel, app' = Asked(ch, "local", "levelset", "diag"),
               UNCHANGED <<output, past>>
        PROVE  IInv'
    <3>1. app' = At("diag") \/ (app'.at = "levelset" /\ app'.held \subseteq EarlyOnes)
      BY <2>2, AskedEarly
    <3>2. StagesKept
      BY <2>0, <3>1 DEF StagesKept, Stage, Steps, At
    <3>3. AppOK
      BY <1>j, <1>m, <3>1
    <3> QED BY <1>b, <1>c, <1>d, <1>f, <1>h, <1>i, <2>0, <2>2, <3>2, <3>3
  <2>3. ASSUME NEW ch \in Channel, app' = At("diag"), PutOut(ch) PROVE IInv'
    <3>1. StagesKept /\ AppOK
      BY <1>j, <2>0, <2>3 DEF StagesKept, Stage, Steps, At
    <3>2. BoardOK' /\ UNCHANGED past
      BY <2>0, <2>3, <3>1, PutOutStep
    <3> QED BY <1>c, <1>d, <1>f, <1>h, <1>i, <2>0, <3>1, <3>2
  <2> QED BY <1>2, <2>0, <2>1, <2>2, <2>3 DEF AppInputs
<1>3. CASE AppLevelSet \/ AppEventSet
  <2>1. /\ Light(app) /\ UNCHANGED <<lock, mirror, flash, sched, ble>>
        /\ app.at \in {"levelset", "eventset"} /\ (app' = At("diag") \/ app' = At("sync"))
    BY <1>3 DEF AppLevelSet, AppEventSet
  <2>2. app.held \subseteq EarlyOnes
    BY <2>1 DEF IInv, HeldOK
  <2>3. StagesKept /\ AppOK
    BY <1>j, <2>1 DEF StagesKept, Stage, Steps, At
  <2>4. BoardOK' /\ slipped' \subseteq Channel /\ crossed' = crossed
    BY <2>1, <2>2, <2>3, LightStep
  <2>5. Past
    BY <2>4 DEF Past, IInv, TypeOK
  <2> QED BY <1>c, <1>d, <1>f, <1>i, <2>1, <2>3, <2>4, <2>5
<1>4. CASE AppDiag
  BY <1>4, <1>c, <1>d, <1>f, <1>h, <1>i, <1>j, AppDiagKeeps DEF AppDiag
<1>5. CASE AppLock
  <2>1. Past
    BY <1>5 DEF AppLock, Calls, Past, Changing, IInv, TypeOK
  <2>2. AppOK
    BY <1>5, <1>j DEF AppLock, Reached
  <2> QED BY <1>5, <1>c, <1>d, <1>f, <1>i, <2>1, <2>2, AppLockKeeps DEF AppLock
<1>6. CASE AppLockChange
  <2>0. UNCHANGED <<lock, mirror, flash, sched, ble>>
    BY <1>6 DEF AppLockChange
  <2>1. ASSUME NEW at \in {"inhibit", "events", "turn"}, app' = At(at),
               (Sweep(app) /\ at = "inhibit") \/ ((Inhibit(app) \/ Lift(app)) /\ at # "inhibit")
        PROVE  BoardOK' /\ AppOK /\ slipped' \subseteq Channel /\ crossed' = crossed
    <3>1. at \notin Steps \/ at = "inhibit"
      BY <2>1 DEF Steps
    <3>2. AppOK /\ app'.at = at
      BY <1>j, <2>1 DEF At
    <3>3. Stage(app)' = Stage(app')
      BY DEF Stage
    <3>4. at # "inhibit" => at \notin Steps
      BY <3>1
    <3> QED BY <2>0, <2>1, <3>1, <3>2, <3>3, <3>4, ChangeKeeps
  <2>2. CASE app.at = "turn" /\ app' = Turned("sync") /\ UNCHANGED <<output, past>>
    <3>1. app' = At("sync") \/ (app'.at = "key" /\ app'.held \subseteq EarlyOnes)
      BY <2>2, TurnedEarly
    <3>2. StagesKept
      BY <2>0, <2>2, <3>1 DEF StagesKept, Stage, Steps, At
    <3>3. AppOK
      BY <1>j, <1>m, <3>1
    <3> QED BY <1>b, <1>c, <1>d, <1>f, <1>h, <1>i, <2>0, <2>2, <3>2, <3>3
  <2>3. CASE app.at = "key" /\ app' = At("sync") /\ Light(app)
    <3>1. app.held \subseteq EarlyOnes
      BY <2>3 DEF IInv, HeldOK
    <3>2. StagesKept /\ AppOK
      BY <1>j, <2>0, <2>3 DEF StagesKept, Stage, Steps, At
    <3>3. BoardOK' /\ slipped' \subseteq Channel /\ crossed' = crossed
      BY <2>0, <2>3, <3>1, <3>2, LightStep
    <3>4. Past
      BY <3>3 DEF Past, IInv, TypeOK
    <3> QED BY <1>c, <1>d, <1>f, <1>i, <2>0, <3>2, <3>3, <3>4
  <2>4. ASSUME BoardOK', AppOK, slipped' \subseteq Channel, crossed' = crossed PROVE IInv'
    <3>1. Past
      BY <2>4 DEF Past, IInv, TypeOK
    <3> QED BY <1>c, <1>d, <1>f, <1>i, <2>0, <2>4, <3>1
  <2>5. CASE Sweep(app) /\ app' = At("inhibit")
    BY <2>1, <2>4, <2>5
  <2>6. CASE Inhibit(app) /\ app' = At("events")
    BY <2>1, <2>4, <2>6
  <2>7. CASE Lift(app) /\ app' = At("turn")
    BY <2>1, <2>4, <2>7
  <2> QED BY <1>6, <2>2, <2>3, <2>5, <2>6, <2>7 DEF AppLockChange
<1>7. CASE AppEvents
  <2>0. UNCHANGED <<mirror, flash, sched, ble>>
    BY <1>7 DEF AppEvents
  <2>1. BoardOK' /\ Past
    BY <1>7, AppEventsKeeps DEF Past, IInv, TypeOK
  <2>2. ASSUME NEW b PROVE Reached(b, "sync").at \in AppAt /\ Reached(b, "sync").held = {}
    BY DEF Reached, At
  <2>3. AppOK
    <3>1. CASE app' = At("sync")
      BY <1>j, <3>1
    <3>2. ASSUME NEW ch \in Channel, app' = Asked(ch, "local", "eventset", "sync") PROVE AppOK
      BY <1>j, <1>m, <3>2, AskedEarly
    <3>3. ASSUME NEW b, app' = Reached(b, "sync") PROVE AppOK
      BY <1>j, <3>3 DEF Reached
    <3> QED BY <1>7, <3>1, <3>2, <3>3 DEF AppEvents
  <2> QED BY <1>c, <1>d, <1>f, <1>i, <2>0, <2>1, <2>3
<1>8. CASE AppSync
  <2>1. /\ mirror' = OutputsOf(output) /\ UNCHANGED <<output, lock, flash, ble, past>>
        /\ app' = At("flush") /\ app.at = "sync"
    BY <1>8 DEF AppSync
  <2>2. OutputsOf(output) \in Outputs /\ Keyed(OutputsOf(output))
    BY <1>a, OutputsTyped DEF OutputsOf, BoardOK, Keyed, Engine
  <2>3. Stored
    BY <1>a, <2>1, <2>2 DEF Stored
  <2>4. StagesKept /\ AppOK
    BY <1>j, <2>1 DEF StagesKept, Stage, Steps, At
  <2>5. Sched
    BY <1>8, <1>d, <1>g DEF AppSync
  <2> QED BY <1>b, <1>f, <1>h, <1>i, <2>1, <2>3, <2>4, <2>5
<1>9. CASE AppFlush
  <2>1. UNCHANGED <<ram, flash, ble>> /\ app.at = "flush"
    BY <1>9 DEF AppFlush
  <2>2. app' = Holding("flushing", mirror) \/ app' = At("locksave")
    BY <1>9 DEF AppFlush
  <2>3. AppOK
    BY <1>a, <1>j, <2>2 DEF Holding, AppOK
  <2>4. StagesKept
    BY <2>1, <2>2 DEF StagesKept, Stage, Steps, At, Holding
  <2> QED BY <1>b, <1>c, <1>d, <1>f, <1>h, <1>i, <2>1, <2>3, <2>4 DEF ram
<1>10. CASE AppFlushWrite
  <2>1. PICK ok \in WriteOutcomes, blob \in app.held :
          /\ flash' = IF ok THEN [flash EXCEPT !.outputs = blob] ELSE flash
          /\ sched' = IF ok THEN Flushed ELSE sched
    BY <1>10 DEF AppFlushWrite
  <2>2. /\ app' = At("locksave") /\ UNCHANGED <<output, lock, mirror, ble, past>>
        /\ app.at = "flushing"
    BY <1>10 DEF AppFlushWrite
  <2>3. blob \in Outputs /\ Keyed(blob)
    BY <2>2 DEF IInv, HeldOK
  <2>4. Stored
    BY <1>a, <2>1, <2>2, <2>3 DEF Stored, Flash
  <2>5. StagesKept /\ AppOK
    BY <1>j, <2>2 DEF StagesKept, Stage, Steps, At
  <2>6. Sched
    BY <1>d, <1>g, <2>1
  <2> QED BY <1>b, <1>f, <1>h, <1>i, <2>2, <2>4, <2>5, <2>6
<1>11. CASE AppLockSave
  <2>1. UNCHANGED <<ram, flash, ble>> /\ app.at = "locksave"
    BY <1>11 DEF AppLockSave
  <2>2. app' = Holding("locksaving", BlobOf(lock)) \/ app' = At("tick")
    BY <1>11 DEF AppLockSave
  <2>3. AppOK
    BY <1>a, <1>j, <2>2, BlobTyped DEF Holding, AppOK
  <2>4. StagesKept
    BY <2>1, <2>2 DEF StagesKept, Stage, Steps, At, Holding
  <2> QED BY <1>b, <1>c, <1>d, <1>f, <1>h, <1>i, <2>1, <2>3, <2>4 DEF ram
<1>12. CASE AppLockWrite
  <2>1. LockWrite(app) /\ app.held \subseteq LockBlob /\ app' = At("tick") /\ UNCHANGED ble
    BY <1>12 DEF AppLockWrite, LockWrite, IInv, HeldOK
  <2>2. StagesKept /\ AppOK
    BY <1>j, <2>1 DEF StagesKept, Stage, Steps, At, LockWrite
  <2>3. BoardOK' /\ Stored /\ UNCHANGED <<sched, past>>
    BY <1>a, <2>1, <2>2, LockWriteKeeps DEF Stored
  <2> QED BY <1>d, <1>f, <1>h, <1>i, <2>1, <2>2, <2>3
<1>13. ASSUME NEW ch \in Channel, BleSet(ch) PROVE IInv'
  <2>0. ble.at = "idle" /\ UNCHANGED <<lock, mirror, flash, app>>
    BY <1>13 DEF BleSet, Receives
  <2>1. CASE ble' = Asked(ch, "remote", "setting", "idle") /\ UNCHANGED <<output, sched, past>>
    <3>1. ble' = At("idle") \/ (ble'.at = "setting" /\ ble'.held \subseteq EarlyOnes)
      BY <2>1, AskedEarly
    <3>2. StagesKept
      BY <2>0, <3>1 DEF StagesKept, Stage, Steps, At
    <3>3. BleOK
      BY <1>k, <1>n, <3>1
    <3> QED BY <1>b, <1>c, <1>d, <1>e, <1>h, <1>i, <2>0, <2>1, <3>2, <3>3
  <2>2. CASE PutOut(ch) /\ sched' = Marked /\ UNCHANGED ble
    <3>1. StagesKept
      BY <2>0, <2>2 DEF StagesKept, Stage
    <3>2. BoardOK' /\ UNCHANGED past
      BY <2>0, <2>2, <3>1, PutOutStep
    <3> QED BY <1>c, <1>e, <1>f, <1>g, <1>h, <1>i, <2>0, <2>2, <3>2
  <2> QED BY <1>13, <2>1, <2>2 DEF BleSet
<1>14. CASE BleSetting
  <2>1. /\ Light(ble) /\ UNCHANGED <<lock, mirror, flash, app>> /\ sched' = Marked
        /\ ble.at = "setting" /\ ble' = At("idle")
    BY <1>14 DEF BleSetting
  <2>2. ble.held \subseteq EarlyOnes
    BY <2>1 DEF IInv, HeldOK
  <2>3. StagesKept /\ BleOK
    BY <1>k, <2>1 DEF StagesKept, Stage, Steps, At
  <2>4. BoardOK' /\ slipped' \subseteq Channel /\ crossed' = crossed
    BY <2>1, <2>2, <2>3, LightStep
  <2>5. Past
    BY <2>4 DEF Past, IInv, TypeOK
  <2> QED BY <1>c, <1>e, <1>g, <1>i, <2>1, <2>3, <2>4, <2>5
<1>15. CASE BleHazard
  <2>1. /\ UNCHANGED <<lock, mirror, flash, app, ble, past>> /\ sched' = Marked
        /\ output' = HazardPress(output)
    BY <1>15 DEF BleHazard
  <2>2. StagesKept
    BY <2>1 DEF StagesKept, Stage
  <2>3. BoardOK'
    BY <2>1, <2>2, HazardStep
  <2> QED BY <1>c, <1>e, <1>f, <1>g, <1>h, <1>i, <2>1, <2>3
<1>16. ASSUME NEW op, NEW b, BleLockOp(op, b), Effect(board, b) PROVE IInv'
  <2>1. /\ Stage(ble) = "none" /\ Calls(b, output) /\ UNCHANGED <<mirror, flash, sched, app>>
        /\ ble' = Reached(b, SaveIf(b.lock.dirty))
    BY <1>16 DEF BleLockOp, Receives, Stage, Steps
  <2>2. SaveIf(b.lock.dirty) \in {"idle", "locksave"}
    BY DEF SaveIf
  <2>3. BleOK
    BY <1>k, <2>1, <2>2 DEF Reached
  <2>4. Past
    BY <2>1 DEF Calls, Past, Changing, IInv, TypeOK
  <2>5. SaveIf(b.lock.dirty) \notin Steps
    BY <2>2 DEF Steps
  <2>6. BoardOK'
    BY <1>16, <2>1, <2>5, CallHere
  <2> QED BY <1>c, <1>d, <1>e, <1>i, <2>1, <2>3, <2>4, <2>6
<1>17. CASE BleLockChange
  <2>0. UNCHANGED <<lock, mirror, flash, sched, app>>
    BY <1>17 DEF BleLockChange
  <2> DEFINE after == SaveIf(lock.dirty)
  <2>a. after \in {"idle", "locksave"}
    BY DEF SaveIf
  <2> HIDE DEF after
  <2>1. ASSUME NEW at \in {"inhibit", "idle", "locksave", "turn"}, ble' = At(at),
               (Sweep(ble) /\ at = "inhibit") \/ ((Inhibit(ble) \/ Lift(ble)) /\ at # "inhibit")
        PROVE  BoardOK' /\ BleOK /\ slipped' \subseteq Channel /\ crossed' = crossed
    <3>1. at \notin Steps \/ at = "inhibit"
      BY <2>1 DEF Steps
    <3>2. BleOK /\ ble'.at = at
      BY <1>k, <2>1 DEF At
    <3>3. Stage(ble)' = Stage(ble')
      BY DEF Stage
    <3>4. at # "inhibit" => at \notin Steps
      BY <3>1
    <3> QED BY <2>0, <2>1, <3>1, <3>2, <3>3, <3>4, ChangeKeeps
  <2>2. CASE ble.at = "turn" /\ ble' = Turned(after) /\ UNCHANGED <<output, past>>
    <3>1. ble' = At(after) \/ (ble'.at = "key" /\ ble'.held \subseteq EarlyOnes)
      BY <2>2, TurnedEarly
    <3>2. StagesKept
      BY <2>0, <2>2, <2>a, <3>1 DEF StagesKept, Stage, Steps, At
    <3>3. BleOK
      BY <1>k, <1>n, <2>a, <3>1
    <3> QED BY <1>b, <1>c, <1>d, <1>e, <1>h, <1>i, <2>0, <2>2, <3>2, <3>3
  <2>3. CASE ble.at = "key" /\ ble' = At(after) /\ Light(ble)
    <3>1. ble.held \subseteq EarlyOnes
      BY <2>3 DEF IInv, HeldOK
    <3>2. StagesKept /\ BleOK
      BY <1>k, <2>0, <2>3, <2>a DEF StagesKept, Stage, Steps, At
    <3>3. BoardOK' /\ slipped' \subseteq Channel /\ crossed' = crossed
      BY <2>0, <2>3, <3>1, <3>2, LightStep
    <3>4. Past
      BY <3>3 DEF Past, IInv, TypeOK
    <3> QED BY <1>c, <1>d, <1>e, <1>i, <2>0, <3>2, <3>3, <3>4
  <2>4. ASSUME BoardOK', BleOK, slipped' \subseteq Channel, crossed' = crossed PROVE IInv'
    <3>1. Past
      BY <2>4 DEF Past, IInv, TypeOK
    <3> QED BY <1>c, <1>d, <1>e, <1>i, <2>0, <2>4, <3>1
  <2>5. \/ Sweep(ble) /\ ble' = At("inhibit")
        \/ Inhibit(ble) /\ ble' = At(after)
        \/ Lift(ble) /\ ble' = At("turn")
        \/ ble.at = "turn" /\ ble' = Turned(after) /\ UNCHANGED <<output, past>>
        \/ ble.at = "key" /\ ble' = At(after) /\ Light(ble)
    BY <1>17 DEF BleLockChange, after
  <2>6. CASE Sweep(ble) /\ ble' = At("inhibit")
    BY <2>1, <2>4, <2>6
  <2>7. CASE Inhibit(ble) /\ ble' = At(after)
    BY <2>1, <2>4, <2>7, <2>a
  <2>8. CASE Lift(ble) /\ ble' = At("turn")
    BY <2>1, <2>4, <2>8
  <2> QED BY <2>2, <2>3, <2>5, <2>6, <2>7, <2>8
<1>18. CASE BleLockSave
  <2>1. UNCHANGED <<ram, flash, app>> /\ ble.at = "locksave"
        /\ ble' = Holding("locksaving", BlobOf(lock))
    BY <1>18 DEF BleLockSave
  <2>2. BleOK
    BY <1>a, <2>1, BlobTyped DEF Holding, BleOK
  <2>3. StagesKept
    BY <2>1 DEF StagesKept, Stage, Steps, Holding
  <2> QED BY <1>b, <1>c, <1>d, <1>e, <1>h, <1>i, <2>1, <2>2, <2>3 DEF ram
<1>19. CASE BleLockWrite
  <2>1. LockWrite(ble) /\ ble.held \subseteq LockBlob /\ ble' = At("idle") /\ UNCHANGED app
    BY <1>19 DEF BleLockWrite, LockWrite, IInv, HeldOK
  <2>2. StagesKept /\ BleOK
    BY <1>k, <2>1 DEF StagesKept, Stage, Steps, At, LockWrite
  <2>3. BoardOK' /\ Stored /\ UNCHANGED <<sched, past>>
    BY <1>a, <2>1, <2>2, LockWriteKeeps DEF Stored
  <2> QED BY <1>d, <1>e, <1>h, <1>i, <2>1, <2>2, <2>3
<1>20. CASE Reboot
  <2> DEFINE b == BootBoard(flash)
  <2>1. BootFlash(flash) \in Flash /\ BootFlash(flash).outputs = flash.outputs
    BY <1>a, BootSafe
  <2>2. Becomes(b) /\ mirror' = flash.outputs /\ flash' = BootFlash(flash)
        /\ sched' = Flushed /\ app' = At("tick") /\ ble' = At("idle")
        /\ crossed' = FALSE /\ slipped' = {}
    BY <1>20 DEF Reboot
  <2>3. flash.outputs.config \in Configs
    BY <1>a DEF Flash, Outputs
  <2>4. Stage(app)' = "none" /\ Stage(ble)' = "none"
    BY <2>2 DEF Stage, Steps, At
  <2> HIDE DEF b
  <2>5. BoardOK' /\ mirror' \in Outputs /\ Keyed(mirror')
    BY <1>a, <2>2, <2>3, <2>4, RebootKeeps DEF b
  <2>6. Stored /\ Past /\ AppOK /\ BleOK
    BY <1>a, <1>j, <1>k, <2>1, <2>2, <2>5 DEF Stored, Past
  <2> QED BY <1>g, <1>i, <2>2, <2>5, <2>6
<1>21. CASE UNCHANGED vars
  <2>1. StagesKept /\ UNCHANGED <<output, lock, mirror, flash, sched, app, ble, past>>
    BY <1>21 DEF vars, StagesKept, Stage
  <2> QED BY <1>b, <1>c, <1>d, <1>e, <1>f, <1>h, <1>i, <2>1
<1>22. CASE BleRequest
  <2>1. ASSUME NEW cfg \in Configs, BleCommit(cfg) PROVE FALSE
    BY <2>1 DEF BleCommit, Receives, NoConfigWrites
  <2>2. Effect(board, RequestLock(board)) /\ Effect(board, RequestUnlock(board))
    BY BoardHere, RequestEffects
  <2> QED BY <1>22, <1>13, <1>15, <1>16, <2>1, <2>2 DEF BleRequest
<1>23. CASE BleContinue
  BY <1>23, <1>14, <1>17, <1>18, <1>19
  DEF BleContinue, BleCommitMirror, BleCommitApply, IInv, HeldOK
<1> QED BY <1>1, <1>2, <1>3, <1>4, <1>5, <1>6, <1>7, <1>8, <1>9, <1>10, <1>11, <1>12,
           <1>20, <1>21, <1>22, <1>23 DEF Next, AppStep

\* Every state the two tasks and the power cuts can reach keeps the invariant.
THEOREM DeviceInvariant == ASSUME NoConfigWrites PROVE Spec => []IInv
BY InitIInv, NextIInv, PTL DEF Spec

\* The lock, the inhibit and the outputs agree between any two steps of the
\* two tasks and after any power cut, save where one lock change cut into
\* another, and a lock in force leaves only the hazards lit, save what a
\* command past its check still lit.
THEOREM DeviceIsSound == ASSUME NoConfigWrites PROVE Spec => []DeviceSound
<1>1. IInv => DeviceSound
  <2> SUFFICES ASSUME IInv PROVE DeviceSound
    OBVIOUS
  <2>1. StateAgrees
    BY StageOf DEF IInv, BoardOK, RecordOK, Locked, Agrees, StateAgrees
  <2>2. LockedOnlyHazards
    BY StageOf DEF IInv, BoardOK, Dark, InForce, LockedOnlyHazards
  <2> QED BY <2>1, <2>2 DEF IInv, DeviceSound
<1> QED BY <1>1, DeviceInvariant, PTL

-----------------------------------------------------------------------------
(* What is owed to the flash                                               *)

\* A flush under way holds the mirror as it is.
Owed == OutputsOwed /\ (app.at = "flushing" => app.held = {mirror})

LEMMA InitOwed == Init => Owed
<1> SUFFICES ASSUME Init PROVE Owed
  OBVIOUS
<1>1. PICK cfg \in {c \in Configs : c.is_ignition # {}} :
        flash = BootFlash(Factory(cfg)) /\ mirror = Factory(cfg).outputs
  BY DEF Init
<1>2. Factory(cfg) \in Flash
  BY DeviceAssumption DEF Factory, Flash, Outputs, LockBlob
<1>3. app.at = "tick"
  BY DEF Init, At
<1> QED BY <1>1, <1>2, <1>3, BootSafe DEF Owed, OutputsOwed

LEMMA NextOwed == NoConfigWrites /\ IInv /\ Owed /\ [Next]_vars => Owed'
<1> SUFFICES ASSUME NoConfigWrites, IInv, Owed, [Next]_vars PROVE Owed'
  OBVIOUS
<1>0. flash \in Flash /\ sched \in [dirty : BOOLEAN, age : 0 .. Debounce]
  BY DEF IInv, TypeOK, Flash
<1>1. CASE AppTick
  <2>1. UNCHANGED <<mirror, flash>> /\ app' = At("inputs")
    BY <1>1 DEF AppTick
  <2>2. sched'.dirty = sched.dirty
    BY <1>0, <1>1 DEF AppTick
  <2> QED BY <2>1, <2>2 DEF Owed, OutputsOwed, At
<1>2. CASE \/ AppInputs \/ AppLevelSet \/ AppDiag \/ AppLock \/ AppLockChange
           \/ AppEvents \/ AppEventSet
  <2>1. UNCHANGED <<mirror, flash, sched>>
    BY <1>2 DEF AppInputs, AppLevelSet, AppDiag, AppLock, AppLockChange, AppEvents, AppEventSet
  <2>2. ASSUME NEW ch \in Channel, NEW source, NEW next, NEW refused,
               next # "flushing", refused # "flushing"
        PROVE  Asked(ch, source, next, refused).at # "flushing"
    BY <2>2 DEF Asked, Holding, At
  <2>3. Turned("sync").at # "flushing"
    BY TurnedEarly DEF At
  <2>4. ASSUME NEW b, NEW next, next # "flushing" PROVE Reached(b, next).at # "flushing"
    BY <2>4 DEF Reached, At
  <2>5. app'.at # "flushing"
    <3>1. Levels \subseteq Channel
      BY DeviceAssumption
    <3>2. CASE AppInputs
      <4>1. \/ app' = At("diag")
            \/ \E ch \in Channel : app' = Asked(ch, "local", "levelset", "diag")
        BY <3>1, <3>2 DEF AppInputs
      <4> QED BY <2>2, <4>1 DEF At
    <3>3. CASE AppEvents
      <4>1. \/ app' = At("sync")
            \/ \E ch \in Channel : app' = Asked(ch, "local", "eventset", "sync")
            \/ \E button \in Button : app' = Reached(CheatcodePress(board, button), "sync")
        BY <3>3 DEF AppEvents
      <4> QED BY <2>2, <2>4, <4>1 DEF At
    <3>4. CASE AppLock
      BY <2>4, <3>4 DEF AppLock
    <3>5. CASE AppLockChange
      BY <2>3, <3>5 DEF AppLockChange, At
    <3> QED BY <1>2, <3>2, <3>3, <3>4, <3>5 DEF AppLevelSet, AppDiag, AppEventSet, At
  <2> QED BY <2>1, <2>5 DEF Owed, OutputsOwed
<1>3. CASE AppSync
  <2>1. mirror' # mirror => sched'.dirty
    BY <1>3 DEF AppSync, Marked
  <2>2. mirror' = mirror => sched' = sched
    BY <1>3 DEF AppSync
  <2>3. flash' = flash /\ app'.at = "flush"
    BY <1>3 DEF AppSync, At
  <2> QED BY <2>1, <2>2, <2>3 DEF Owed, OutputsOwed
<1>4. CASE AppFlush
  <2>1. UNCHANGED <<mirror, sched, flash>>
    BY <1>4 DEF AppFlush, ram
  <2>2. app' = Holding("flushing", mirror) \/ app' = At("locksave")
    BY <1>4 DEF AppFlush
  <2> QED BY <2>1, <2>2 DEF Owed, OutputsOwed, Holding, At
<1>5. CASE AppFlushWrite
  <2>1. app.held = {mirror} /\ UNCHANGED mirror /\ app'.at = "locksave"
    BY <1>5 DEF AppFlushWrite, Owed, At
  <2>2. \/ flash' = [flash EXCEPT !.outputs = mirror]
        \/ flash' = flash /\ sched' = sched
    BY <1>5, <2>1 DEF AppFlushWrite
  <2> QED BY <1>0, <2>1, <2>2 DEF Owed, OutputsOwed, Flash
<1>6. CASE AppLockSave
  <2>1. UNCHANGED <<mirror, sched, flash>>
    BY <1>6 DEF AppLockSave, ram
  <2>2. app' = Holding("locksaving", BlobOf(lock)) \/ app' = At("tick")
    BY <1>6 DEF AppLockSave
  <2> QED BY <2>1, <2>2 DEF Owed, OutputsOwed, Holding, At
<1>7. ASSUME NEW task, LockWrite(task)
      PROVE  UNCHANGED <<mirror, sched>> /\ flash'.outputs = flash.outputs
  BY <1>0, <1>7 DEF LockWrite, Flash
<1>8. CASE AppLockWrite
  BY <1>7, <1>8 DEF AppLockWrite, Owed, OutputsOwed, At
<1>9. CASE BleRequest
  <2>1. ASSUME NEW cfg \in Configs, BleCommit(cfg) PROVE FALSE
    BY <2>1 DEF BleCommit, Receives, NoConfigWrites
  <2>2. UNCHANGED <<mirror, flash, app>> /\ (sched' = sched \/ sched' = Marked)
    BY <1>9, <2>1 DEF BleRequest, BleSet, BleHazard, BleLockOp
  <2> QED BY <2>2 DEF Owed, OutputsOwed, Marked
<1>10. CASE BleContinue
  <2>1. CASE BleLockSave
    BY <2>1 DEF BleLockSave, ram, Owed, OutputsOwed
  <2>2. CASE BleLockWrite
    BY <1>7, <2>2 DEF BleLockWrite, Owed, OutputsOwed
  <2>3. CASE BleSetting \/ BleLockChange
    BY <2>3 DEF BleSetting, BleLockChange, Owed, OutputsOwed, Marked
  <2> QED BY <1>10, <2>1, <2>2, <2>3
      DEF BleContinue, BleCommitMirror, BleCommitApply, IInv, HeldOK
<1>11. CASE Reboot
  <2>1. mirror' = flash.outputs /\ flash'.outputs = flash.outputs /\ app'.at = "tick"
    BY <1>0, <1>11, BootSafe DEF Reboot, At
  <2> QED BY <2>1 DEF Owed, OutputsOwed
<1>12. CASE UNCHANGED vars
  BY <1>12 DEF vars, Owed, OutputsOwed
<1> QED BY <1>1, <1>2, <1>3, <1>4, <1>5, <1>6, <1>8, <1>9, <1>10, <1>11, <1>12
    DEF Next, AppStep

\* However the loop, the phone's requests, failed writes and power cuts
\* interleave, outputs that differ from flash are marked for a write.
THEOREM OutputsAreOwed == ASSUME NoConfigWrites PROVE Spec => []OutputsOwed
<1>1. Owed => OutputsOwed
  BY DEF Owed
<1> QED BY <1>1, InitOwed, NextOwed, DeviceInvariant, PTL DEF Spec

-----------------------------------------------------------------------------
(* What a power cut leaves                                                 *)

LEMMA BootLeaves ==
  ASSUME NEW cfg \in LockConfig, NEW flag \in BOOLEAN, NEW on \in SUBSET Channel,
         NEW oc \in OutputConfig, NEW b, b = LockInit(cfg, flag, InitEngine(oc, on))
  PROVE  /\ IgnitionLive(InitEngine(oc, on)) =>
              b.lock.state # "LOCKED" /\ b.output.commanded = on
         /\ cfg.immobilizer_enabled /\ flag /\ ~ IgnitionLive(InitEngine(oc, on)) =>
              b.lock.state = "LOCKED" /\ b.output.commanded = {}
<1> DEFINE o == InitEngine(oc, on)
           locked == cfg.immobilizer_enabled /\ flag /\ ~ Riding(o)
<1>1. o \in Engine /\ o.commanded = on /\ ~ o.engine_running /\ ~ o.hazard_active
  BY InitEngineType DEF InitEngine
<1>2. b.output = IF locked THEN ForceOff(SetImmobilized(o, TRUE))
                 ELSE SetImmobilized(o, FALSE)
  BY DEF LockInit
<1>3. locked <=> cfg.immobilizer_enabled /\ flag /\ ~ IgnitionLive(o)
  BY <1>1 DEF Riding
<1>4. b.lock.state = "LOCKED" <=> locked
  <2>0. b = LockInit(cfg, flag, o)
    OBVIOUS
  <2> HIDE DEF o
  <2>1. cfg.immobilizer_enabled \in BOOLEAN /\ locked \in BOOLEAN
    BY DEF LockConfig
  <2> QED BY <2>0, <2>1 DEF LockInit
<1> HIDE DEF o
<1>5. SetImmobilized(o, FALSE).commanded = on
  BY <1>1 DEF SetImmobilized, Engine
<1>6. ForceOff(SetImmobilized(o, TRUE)).commanded = {}
  <2> DEFINE p == SetImmobilized(o, TRUE)
             doused == p.commanded \ {}
             fewer == [p EXCEPT !.commanded = @ \ doused]
             dark == ClearDeadlines(fewer, doused \cap OnSide(p.config))
  <2>1. p \in Engine /\ ~ p.hazard_active
    BY <1>1 DEF SetImmobilized, Engine
  <2>2. ForceOff(p) = IF doused \cap p.config.is_ignition # {} THEN IgnitionOff(dark) ELSE dark
    <3> HIDE DEF p
    <3> QED BY <2>1 DEF ForceOff
  <2> HIDE DEF p
  <2>3. fewer \in Engine /\ fewer.commanded = {}
    BY <2>1 DEF Engine
  <2> HIDE DEF fewer
  <2>4. dark \in Engine /\ dark.commanded = {}
    <3>1. dark \in Engine
      BY <2>3, ClearDeadlinesKeeps DEF Keeps
    <3> QED BY <2>3, <3>1 DEF ClearDeadlines, Engine
  <2> HIDE DEF dark
  <2>5. IgnitionOff(dark).commanded \subseteq dark.commanded
    BY <2>4 DEF IgnitionOff, ClearDeadlines, Engine
  <2> QED BY <2>2, <2>4, <2>5 DEF p
<1> QED BY <1>2, <1>3, <1>4, <1>5, <1>6 DEF o

\* A reset in the middle of a ride changes nothing the rider sees, and a parked
\* bike stays locked through one.
THEOREM BootsAsItWasLeft == ASSUME NoConfigWrites PROVE Spec => BootsAsLeft
<1> DEFINE Kept == flash.lock = BlobOf(lock) /\ Locked /\ ~ IgnitionLive(output)
<1>1. ASSUME IInv, Reboot, flash.outputs = OutputsOf(output)
      PROVE  /\ IgnitionLive(output) => ~ Locked' /\ output'.commanded = output.commanded
             /\ Kept => Locked' /\ output'.commanded = {}
  <2> DEFINE on == output.commanded
             oc == output.config
             r == Restored(flash)
  <2>1. /\ flash \in Flash /\ oc \in Configs
        /\ RecordOK(lock) /\ output \in Engine
    BY <1>1 DEF IInv, TypeOK, BoardOK, Flash
  <2>2. /\ oc \in OutputConfig /\ on \in SUBSET Channel
        /\ flash.lock.config \in LockConfig /\ flash.lock.flag \in BOOLEAN
    BY <2>1, DeviceAssumption DEF Flash, LockBlob, Engine
  <2>3. r = LockInit(flash.lock.config, flash.lock.flag, InitEngine(oc, on))
    BY <1>1 DEF Restored, OutputsOf
  <2>4. lock'.state = r.lock.state /\ output' = r.output
    BY <1>1, <2>1, BootSafe DEF Reboot, Becomes
  <2>5. IgnitionLive(InitEngine(oc, on)) <=> IgnitionLive(output)
    BY DEF IgnitionLive, InitEngine
  <2> HIDE DEF r
  <2>6. /\ IgnitionLive(output) => r.lock.state # "LOCKED" /\ r.output.commanded = on
        /\ flash.lock.config.immobilizer_enabled /\ flash.lock.flag /\ ~ IgnitionLive(output)
             => r.lock.state = "LOCKED" /\ r.output.commanded = {}
    <3> HIDE DEF on, oc
    <3> QED BY <2>2, <2>3, <2>5, BootLeaves
  <2>7. Kept => flash.lock.config.immobilizer_enabled /\ flash.lock.flag
    BY <2>1 DEF RecordOK, Locked, BlobOf
  <2> QED BY <2>4, <2>6, <2>7 DEF Locked
<1>2. IInv /\ [Next]_vars =>
        [Reboot /\ flash.outputs = OutputsOf(output) =>
           /\ IgnitionLive(output) => ~ Locked' /\ output'.commanded = output.commanded
           /\ Locked /\ ~ IgnitionLive(output) /\ flash.lock = BlobOf(lock) =>
                Locked' /\ output'.commanded = {}]_vars
  BY <1>1
<1> QED BY <1>2, DeviceInvariant, PTL DEF Spec, BootsAsLeft
=============================================================================

------------------------------- MODULE Device -------------------------------
(***************************************************************************)
(* The board of main.c: the output and lock engines, their copies in RAM   *)
(* and in flash, and the two tasks that share them without a mutex.        *)
(*                                                                         *)
(* app_task runs one loop for ever and the NimBLE host task handles one    *)
(* message at a time; "app.at" and "ble.at" say where they stand:          *)
(*   tick, inputs, diag, lock, events, sync, flush, locksave               *)
(*                     the calls of a pass of the loop, in their order;    *)
(*   levelset, eventset, setting                                           *)
(*                     a command that mc_output_set() has let pass, before *)
(*                     it is carried out;                                  *)
(*   sweep, inhibit    inside enter_locked(): before force_off_on_lock()   *)
(*                     and before mc_output_set_immobilized();             *)
(*   lift, turn, key   inside enter_unlocked(): before the inhibit is      *)
(*                     lifted, before the key is asked for, and before it  *)
(*                     turns;                                              *)
(*   flushing, locksaving, mirroring, applying                             *)
(*                     a save or a config write between its steps: a blob  *)
(*                     is serialized first, written then, and the dirty    *)
(*                     flag cleared last.                                  *)
(* Any other call is one step.  The power may fail between any two steps:  *)
(* what is then left is "flash".                                           *)
(*                                                                         *)
(* One pass of the loop is one tick of time; it works at most one of the   *)
(* outputs that follow a level and handles at most one press.  The         *)
(* ignition switch is not assigned (Lock has it).                          *)
(***************************************************************************)
EXTENDS LockEngine

CONSTANTS
  Configs,        \* the output configurations a phone may write
  OwnerConfig,    \* the lock configuration of the board
  Levels,         \* the channels driven by a level: brake light, momentary
  Debounce,       \* debounce_ms of s_persist_config, in ticks
  LocalOps,       \* what the rider does with the buttons in this instance
  BleOps,         \* the requests a phone sends in it
  WriteOutcomes   \* {TRUE}, or BOOLEAN when an NVS write may fail

ASSUME DeviceAssumption ==
  /\ \A cfg \in Configs : cfg \in OutputConfig /\ ValidOutputConfig(cfg)
  /\ OwnerConfig \in LockConfig
  /\ \A cfg \in Configs :
       cfg.is_ignition # {} => ValidLockConfig(OwnerConfig, cfg)
  /\ Levels \subseteq Channel
  /\ Debounce \in Nat \ {0}
  /\ LocalOps \subseteq {"set", "hazard", "code"}
  /\ BleOps \subseteq {"set", "hazard", "lock", "unlock", "commit"}
  /\ WriteOutcomes \subseteq BOOLEAN

VARIABLES
  output,   \* s_output
  lock,     \* s_lock
  mirror,   \* s_config.outputs
  flash,    \* the config and lock blobs in NVS
  sched,    \* s_persist_config
  app,      \* app_task: where it is, and the command or blob it holds
  ble,      \* the NimBLE host task, likewise
  crossed,  \* history: the last lock change began inside another task's
  slipped   \* history: what a command of before a lock lit after its sweep

past == <<crossed, slipped>>
vars == <<output, lock, mirror, flash, sched, app, ble, past>>
ram == <<output, lock, mirror, sched, past>>

Outputs == [config : Configs, commanded : SUBSET Channel]
LockBlob == [config : LockConfig, flag : BOOLEAN]

\* A command to switch on that is past the checks of mc_output_set(), and
\* whether it passed them before a lock was in force.
Command == [channel : Channel, early : BOOLEAN]

\* What each engine would write to flash.
OutputsOf(o) == [config |-> o.config, commanded |-> o.commanded]
BlobOf(l) == [config |-> l.config, flag |-> l.locked_flag]

board == [lock |-> lock, output |-> output]

Becomes(b) == lock' = b.lock /\ output' = b.output

Locked == lock.state = "LOCKED"

\* mc_persist_mark_dirty(): every call restarts the debounce window.
Marked == [dirty |-> TRUE, age |-> 0]
Flushed == [dirty |-> FALSE, age |-> 0]

At(step) == [at |-> step, held |-> {}]
Holding(step, what) == [at |-> step, held |-> {what}]

\* A task is inside enter_locked(), or has not yet lifted the inhibit.
Entering(task) == task.at \in {"sweep", "inhibit"}
MidChange(task) == Entering(task) \/ task.at = "lift"
Changing == MidChange(app) \/ MidChange(ble)

\* The bike is locked, and nobody is about to make or undo it.
InForce == Locked /\ ~ Changing /\ ~ crossed

-----------------------------------------------------------------------------
(* Boot                                                                    *)

Restored(f) ==
  LockInit(f.lock.config, f.lock.flag,
           InitEngine(f.outputs.config, f.outputs.commanded))

\* app_main() on what the flash holds: outputs first, then the lock; if that
\* overrode the persisted flag, the correction is saved before anything runs.
BootBoard(f) == [Restored(f) EXCEPT !.lock.dirty = FALSE]

BootFlash(f) ==
  IF Restored(f).lock.dirty THEN [f EXCEPT !.lock = BlobOf(Restored(f).lock)] ELSE f

Factory(cfg) ==
  [ outputs |-> [config |-> cfg, commanded |-> {}],
    lock    |-> [config |-> OwnerConfig, flag |-> FALSE] ]

Init ==
  /\ \E cfg \in {c \in Configs : c.is_ignition # {}} :
       /\ flash = BootFlash(Factory(cfg))
       /\ mirror = Factory(cfg).outputs
       /\ lock = BootBoard(Factory(cfg)).lock
       /\ output = BootBoard(Factory(cfg)).output
  /\ sched = Flushed
  /\ app = At("tick")
  /\ ble = At("idle")
  /\ crossed = FALSE
  /\ slipped = {}

\* The power fails, or the watchdog bites, and the board boots again.
Reboot ==
  /\ Becomes(BootBoard(flash))
  /\ mirror' = flash.outputs
  /\ flash' = BootFlash(flash)
  /\ sched' = Flushed
  /\ app' = At("tick")
  /\ ble' = At("idle")
  /\ crossed' = FALSE
  /\ slipped' = {}

-----------------------------------------------------------------------------
(* The calls that are not one step, in whichever task they run             *)

\* mc_output_set() to switch on asks the inhibit and the starter's guards
\* first: the task goes on to light the channel, or is refused.
Asked(ch, source, next, refused) ==
  IF Permitted(output, ch, TRUE, source)
  THEN Holding(next, [channel |-> ch, early |-> ~ InForce])
  ELSE At(refused)

\* The channel is lit in the engine as it is by then.
Light(task) ==
  \E cmd \in task.held :
    /\ output' = ApplySet(output, cmd.channel, TRUE)
    /\ slipped' = IF cmd.early /\ Locked
                  THEN slipped \cup (output'.commanded \ output.commanded)
                  ELSE slipped
    /\ UNCHANGED crossed

\* Switching off asks nothing, and is one step.
PutOut(ch) == output' = ApplySet(output, ch, FALSE) /\ UNCHANGED past

\* A call into mc_lock that makes b of the board.  If it enters or leaves
\* LOCKED its own record comes first, and the outputs stay to be done.
ChangesLock(b) == (b.lock.state = "LOCKED") # Locked

Calls(b, before) ==
  /\ lock' = b.lock
  /\ output' = IF ChangesLock(b) THEN before ELSE b.output
  /\ crossed' = IF ChangesLock(b) THEN Changing ELSE crossed
  /\ UNCHANGED slipped

Reached(b, next) ==
  At(IF ~ ChangesLock(b) THEN next ELSE IF Locked THEN "lift" ELSE "sweep")

\* enter_locked(): the outputs go off,
Sweep(task) ==
  /\ task.at = "sweep"
  /\ output' = ForceOff(output)
  /\ slipped' = {}
  /\ UNCHANGED crossed

\* and then the inhibit goes up.
Inhibit(task) ==
  /\ task.at = "inhibit"
  /\ output' = SetImmobilized(output, TRUE)
  /\ UNCHANGED past

\* enter_unlocked(): the inhibit is lifted,
Lift(task) ==
  /\ task.at = "lift"
  /\ output' = SetImmobilized(output, FALSE)
  /\ UNCHANGED past

\* and the key turned by an ordinary command.
Turned(done) ==
  LET ign == FirstChannel(output.config.is_ignition)
  IN  IF ign = None THEN At(done) ELSE Asked(ign, "local", "key", done)

-----------------------------------------------------------------------------
(* app_task                                                                *)

\* mc_output_tick(), at the head of a pass.
AppTick ==
  /\ app.at = "tick"
  /\ app' = At("inputs")
  /\ output' = OutputTick(output)
  /\ sched' = IF sched.dirty /\ sched.age < Debounce
              THEN [sched EXCEPT !.age = @ + 1] ELSE sched
  /\ UNCHANGED <<lock, mirror, flash, ble, past>>

\* The brake light and the momentary outputs follow their levels.
AppInputs ==
  /\ app.at = "inputs"
  /\ \/ app' = At("diag") /\ UNCHANGED <<output, past>>
     \/ \E ch \in Levels \ output.commanded :
          app' = Asked(ch, "local", "levelset", "diag") /\ UNCHANGED <<output, past>>
     \/ \E ch \in Levels \cap output.commanded : app' = At("diag") /\ PutOut(ch)
  /\ UNCHANGED <<lock, mirror, flash, sched, ble>>

AppLevelSet ==
  /\ app.at = "levelset"
  /\ app' = At("diag")
  /\ Light(app)
  /\ UNCHANGED <<lock, mirror, flash, sched, ble>>

\* mc_diag_tick()
AppDiag ==
  /\ app.at = "diag"
  /\ app' = At("lock")
  /\ \E running \in BOOLEAN :
       /\ running => MayRun(output)
       /\ output' = SetEngineRunning(output, running)
  /\ UNCHANGED <<lock, mirror, flash, sched, ble, past>>

\* mc_lock_tick(), with the switch open.
AppLock ==
  /\ app.at = "lock"
  /\ app' = Reached(LockTick(board, FALSE), "events")
  /\ Calls(LockTick(board, FALSE), FollowSwitch(board, FALSE))
  /\ UNCHANGED <<mirror, flash, sched, ble>>

\* The rider does nothing, works an output, the hazards or the cheat-code.
AppEvents ==
  /\ app.at = "events"
  /\ \/ app' = At("sync") /\ UNCHANGED <<lock, output, past>>
     \/ \E ch \in Channel :
          /\ "set" \in LocalOps
          /\ \/ app' = Asked(ch, "local", "eventset", "sync") /\ UNCHANGED <<output, past>>
             \/ app' = At("sync") /\ PutOut(ch)
          /\ UNCHANGED lock
     \/ /\ "hazard" \in LocalOps
        /\ app' = At("sync")
        /\ output' = HazardPress(output)
        /\ UNCHANGED <<lock, past>>
     \/ \E button \in Button :
          /\ "code" \in LocalOps
          /\ app' = Reached(CheatcodePress(board, button), "sync")
          /\ Calls(CheatcodePress(board, button), output)
  /\ UNCHANGED <<mirror, flash, sched, ble>>

AppEventSet ==
  /\ app.at = "eventset"
  /\ app' = At("sync")
  /\ Light(app)
  /\ UNCHANGED <<lock, mirror, flash, sched, ble>>

\* The rest of a lock change: the tick's auto-lock, a cheat-code's unlock.
AppLockChange ==
  /\ \/ Sweep(app) /\ app' = At("inhibit")
     \/ Inhibit(app) /\ app' = At("events")
     \/ Lift(app) /\ app' = At("turn")
     \/ app.at = "turn" /\ app' = Turned("sync") /\ UNCHANGED <<output, past>>
     \/ app.at = "key" /\ app' = At("sync") /\ Light(app)
  /\ UNCHANGED <<lock, mirror, flash, sched, ble>>

\* Mutant: the copy is not marked for a write.
AppSyncUnmarked ==
  /\ app.at = "sync"
  /\ app' = At("flush")
  /\ mirror' = OutputsOf(output)
  /\ UNCHANGED <<sched, output, lock, flash, ble, past>>

\* Mutant: only the states are compared.
AppSyncStates ==
  LET stale == mirror.commanded # output.commanded
  IN  /\ app.at = "sync"
      /\ app' = At("flush")
      /\ mirror' = IF stale THEN OutputsOf(output) ELSE mirror
      /\ sched' = IF stale THEN Marked ELSE sched
      /\ UNCHANGED <<output, lock, flash, ble, past>>

\* The diff-and-sync of the loop.
AppSync ==
  /\ app.at = "sync"
  /\ app' = At("flush")
  /\ mirror' = OutputsOf(output)
  /\ sched' = IF mirror # OutputsOf(output) THEN Marked ELSE sched
  /\ UNCHANGED <<output, lock, flash, ble, past>>

\* mc_persist_should_flush() on the time read when the pass began: a mark made
\* later in the pass, of a later millisecond, counts as long overdue.
AppFlush ==
  LET due == sched.age >= Debounce
  IN  /\ app.at = "flush"
      /\ \/ /\ sched.dirty /\ (due \/ sched.age = 0)
            /\ app' = Holding("flushing", mirror)
         \/ /\ ~ (sched.dirty /\ due)
            /\ app' = At("locksave")
      /\ UNCHANGED <<ram, flash, ble>>

\* Mutant: a failed write counts as flushed.
AppFlushWriteUnchecked ==
  /\ app.at = "flushing"
  /\ app' = At("locksave")
  /\ \E ok \in WriteOutcomes, blob \in app.held :
       flash' = IF ok THEN [flash EXCEPT !.outputs = blob] ELSE flash
  /\ sched' = Flushed
  /\ UNCHANGED <<output, lock, mirror, ble, past>>

AppFlushWrite ==
  /\ app.at = "flushing"
  /\ app' = At("locksave")
  /\ \E ok \in WriteOutcomes, blob \in app.held :
       /\ flash' = IF ok THEN [flash EXCEPT !.outputs = blob] ELSE flash
       /\ sched' = IF ok THEN Flushed ELSE sched
  /\ UNCHANGED <<output, lock, mirror, ble, past>>

AppLockSave ==
  /\ app.at = "locksave"
  /\ app' = IF lock.dirty THEN Holding("locksaving", BlobOf(lock)) ELSE At("tick")
  /\ UNCHANGED <<ram, flash, ble>>

\* The second half of persist_lock_cb(), in whichever task it runs.
LockWrite(task) ==
  /\ task.at = "locksaving"
  /\ \E ok \in WriteOutcomes, blob \in task.held :
       /\ flash' = IF ok THEN [flash EXCEPT !.lock = blob] ELSE flash
       /\ lock' = IF ok THEN [lock EXCEPT !.dirty = FALSE] ELSE lock
  /\ UNCHANGED <<output, mirror, sched, past>>

AppLockWrite == LockWrite(app) /\ app' = At("tick") /\ UNCHANGED ble

AppStep ==
  \/ AppTick \/ AppInputs \/ AppLevelSet \/ AppDiag \/ AppLock \/ AppLockChange
  \/ AppEvents \/ AppEventSet \/ AppSync \/ AppFlush \/ AppFlushWrite
  \/ AppLockSave \/ AppLockWrite

-----------------------------------------------------------------------------
(* The NimBLE host task                                                    *)

Receives(op) == op \in BleOps /\ ble.at = "idle"

\* SET_OUTPUT: persist_config() is called when the command was accepted.
BleSet(ch) ==
  /\ Receives("set")
  /\ \/ ble' = Asked(ch, "remote", "setting", "idle") /\ UNCHANGED <<output, sched, past>>
     \/ PutOut(ch) /\ sched' = Marked /\ UNCHANGED ble
  /\ UNCHANGED <<lock, mirror, flash, app>>

BleSetting ==
  /\ ble.at = "setting"
  /\ ble' = At("idle")
  /\ Light(ble)
  /\ sched' = Marked
  /\ UNCHANGED <<lock, mirror, flash, app>>

BleHazard ==
  /\ Receives("hazard")
  /\ output.config.hazard_member # {}
  /\ output' = HazardPress(output)
  /\ sched' = Marked
  /\ UNCHANGED <<lock, mirror, flash, app, ble, past>>

\* LOCK, UNLOCK, and the unlock of a phone that authenticates: the handler
\* goes on to save if it finds the lock dirty, whoever made it so.
SaveIf(dirty) == IF dirty THEN "locksave" ELSE "idle"

BleLockOp(op, b) ==
  /\ Receives(op)
  /\ ble' = Reached(b, SaveIf(b.lock.dirty))
  /\ Calls(b, output)
  /\ UNCHANGED <<mirror, flash, sched, app>>

BleLockChange ==
  /\ \/ Sweep(ble) /\ ble' = At("inhibit")
     \/ Inhibit(ble) /\ ble' = At(SaveIf(lock.dirty))
     \/ Lift(ble) /\ ble' = At("turn")
     \/ ble.at = "turn" /\ ble' = Turned(SaveIf(lock.dirty)) /\ UNCHANGED <<output, past>>
     \/ ble.at = "key" /\ ble' = At(SaveIf(lock.dirty)) /\ Light(ble)
  /\ UNCHANGED <<lock, mirror, flash, sched, app>>

BleLockSave ==
  /\ ble.at = "locksave"
  /\ ble' = Holding("locksaving", BlobOf(lock))
  /\ UNCHANGED <<ram, flash, app>>

BleLockWrite == LockWrite(ble) /\ ble' = At("idle") /\ UNCHANGED app

\* config_commit(): the live states are read into the incoming configuration,
BleCommit(cfg) ==
  /\ Receives("commit")
  /\ ble' = Holding("mirroring", [config |-> cfg, commanded |-> output.commanded])
  /\ UNCHANGED <<ram, flash, app>>

\* which replaces the mirror,
BleCommitMirror ==
  /\ ble.at = "mirroring"
  /\ \E incoming \in ble.held : mirror' = incoming
  /\ ble' = [ble EXCEPT !.at = "applying"]
  /\ UNCHANGED <<output, lock, flash, sched, app, past>>

\* and then the live configuration.
BleCommitApply ==
  /\ ble.at = "applying"
  /\ \E incoming \in ble.held :
       output' = [output EXCEPT !.config = incoming.config,
                                !.commanded = incoming.commanded]
  /\ sched' = Marked
  /\ ble' = At("idle")
  /\ UNCHANGED <<lock, mirror, flash, app, past>>

BleRequest ==
  \/ \E ch \in Channel : BleSet(ch)
  \/ BleHazard
  \/ BleLockOp("lock", RequestLock(board))
  \/ BleLockOp("unlock", RequestUnlock(board))
  \/ \E cfg \in Configs : BleCommit(cfg)

BleContinue ==
  BleSetting \/ BleLockChange \/ BleLockSave \/ BleLockWrite \/ BleCommitMirror \/ BleCommitApply

Next == AppStep \/ BleRequest \/ BleContinue \/ Reboot

Spec == Init /\ [][Next]_vars

\* Both tasks are scheduled; nobody owes the board a request.
FairSpec == Spec /\ WF_vars(AppStep) /\ WF_vars(BleContinue)

-----------------------------------------------------------------------------

TypeOK ==
  /\ output \in Engine
  /\ lock \in LockRecord
  /\ mirror \in Outputs
  /\ flash \in [outputs : Outputs, lock : LockBlob]
  /\ sched \in [dirty : BOOLEAN, age : 0 .. Debounce]
  /\ app.at \in {"tick", "inputs", "levelset", "diag", "lock", "sweep", "inhibit",
                 "events", "eventset", "lift", "turn", "key", "sync", "flush",
                 "flushing", "locksave", "locksaving"}
  /\ ble.at \in {"idle", "setting", "sweep", "inhibit", "lift", "turn", "key",
                 "locksave", "locksaving", "mirroring", "applying"}
  /\ \A task \in {app, ble} : task.held \subseteq Outputs \cup LockBlob \cup Command
  /\ crossed \in BOOLEAN
  /\ slipped \subseteq Channel

\* The state and the persisted flag agree at every step of both tasks.  The
\* inhibit agrees with them once a lock change is through, unless it began
\* inside one of the other task; the next one to run alone mends that.
StateAgrees ==
  /\ lock.locked_flag <=> Locked
  /\ ~ Changing /\ ~ crossed => (output.immobilized <=> Locked)

\* A locked bike shows at most its hazards, whatever outputs came out of
\* flash with the lock and whichever command was under way when it came:
\* save what a command lit that had passed its check before the lock.
LockedOnlyHazards ==
  InForce => output.commanded \ slipped \subseteq output.config.hazard_member

\* What the two tasks and any power cut keep of the immobilizer's promise.
DeviceSound == TypeOK /\ StateAgrees /\ LockedOnlyHazards

\* No change of the outputs is forgotten: what is in flash is the mirror, or
\* a write is owed (main.c: "every one of these has to actually reach NVS").
OutputsOwed == sched.dirty \/ flash.outputs = mirror

\* A reset in the middle of a ride never immobilizes the bike nor turns its
\* key: once the running ignition is in flash, it boots unlocked and live.  A
\* parked bike that had time to write both blobs stays locked, and comes up
\* dark, through a power cut.
BootsAsLeft ==
  [][Reboot /\ flash.outputs = OutputsOf(output) =>
       /\ IgnitionLive(output) => ~ Locked' /\ output'.commanded = output.commanded
       /\ Locked /\ ~ IgnitionLive(output) /\ flash.lock = BlobOf(lock) =>
            Locked' /\ output'.commanded = {}]_vars

\* What the debounce may cost: once the outputs stop changing and the phone
\* stops asking, they reach flash: unless a config write stood before its
\* last step while the loop wrote the mirror and cleared the mark.
Settles ==
  /\ <>[][OutputsOf(output)' = OutputsOf(output) /\ ~ Reboot /\ ~ BleRequest]_vars
  /\ [](ble.at = "applying" => app.at # "flushing")
  => <>[](flash.outputs = OutputsOf(output))

\* The three-way copy of a config write (mirror, live, diff-and-sync) ends
\* with mirror and live equal, whatever the loop does in between.
MirrorConverges ==
  <>[][OutputsOf(output)' = OutputsOf(output) /\ ~ Reboot]_vars
  => <>[](mirror = OutputsOf(output))

\* Auto-lock: a bike left parked, and powered, ends up locked and stays so,
\* whatever the phone writes; every way out turns the key.
AutoLocks ==
  /\ <>[](~ output.engine_running /\ ~ IgnitionLive(output))
  /\ <>[][~ Reboot]_vars
  => <>[]Locked

=============================================================================

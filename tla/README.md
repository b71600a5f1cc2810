# moto-ctrl: a verification of the firmware's core

moto-ctrl is a motorcycle control board (an ESP32-S3 that switches the ignition,
starter, lights and indicators) with a phone app. This directory holds TLA+
models of the parts whose correctness is hard to test, the TLC configurations
that check them, and TLAPS proofs of their main invariants. Paths below are
relative to the repository; `mc_x` means `firmware/components/core/mc_x.c` and
its header.

Run a check with `tlc -config MCLock.cfg MCLock`, a proof with `tlapm LockProofs.tla`.

## 1. Inventory of the system

| Component | State it keeps | Operations | Correct when |
|---|---|---|---|
| Output engine, `mc_output` | configuration, commanded states, hazard mode and the states it saved, turn deadlines, `engine_running`, `immobilized`, interlock, blink phase, flasher bursts, cutoff | set, alternate press, hazard press, tick, engine / interlock / immobilizer reports, derive the driven level | a starter never runs against a running engine; a pair is at-most-one-on; one turn side at a time, never latched; hazards give back what they borrow; a locked bike obeys nobody |
| Immobilizer, `mc_lock` | config (enabled, methods, switch, cheat-code), state, persisted flag, parked timer, code entry, wrong count, backoff, dirty | init, tick, lock, unlock, cheat-code press, set / clear code, apply config, transfer | never locks a running bike; unlocks only for a key of the owner's; no lock-out; brute force is slowed down |
| Session protocol, `mc_session` | state, nonce, authenticated slot, staged configuration chunks | frames of the phone: authenticate, enroll, revoke, transfer; output / lock / config / update ops | no op without its authority; an answer counts for one challenge of one link; a chunked write is applied whole or not at all |
| Keystore, `mc_keystore`, `nvs_keystore_hal.c` | key slots | add, remove, wipe, find the key that verifies; save, load | a key sits in one slot; a change reaches flash; a removed key stays removed |
| Configuration, `mc_config`, `mc_config_json` | the RAM mirror `s_config` | parse, validate, save, load | mirror, live state and flash agree in the end |
| Persistence, `mc_persist` | dirty, time of the mark | mark, due, flushed | what is marked reaches flash |
| Diagnostics, `mc_diag` | configuration, current and fault of each channel, the channel sampled next, engine detection, low-voltage cutoff | tick, learn, set the configuration | what it reports is what the outputs act by; a light that is needed is not shed; a dark channel shows no fault |
| Input, `mc_input` | debounce, press timers, chords, a bounded event queue | poll, next event | one gesture gives one event; a chord hides its members; sequences follow the short presses |
| Event log, `mc_event_log`, `nvs_event_log_hal.c` | flash ring, sequence number, start | append, read a page, clear, reload | the latest events in order and nothing else; a fetch of the phone ends and is truthful |
| Update, `mc_ota`, `ota_hal.c`, `FirmwareUpdateScreen` | state, declared size and digest, running hash; the two partitions and the boot record; the screen and its upload loop | begin, chunk, commit, abort, reboot; confirm at the end of a boot | only a signed, whole image runs; an unconfirmed one is rolled back |
| Power, `mc_power`, `input_hal_gpio.c` | profile, idle timers; the masked buttons | evaluate; interrupt, re-arm, wait | never sleeps while something needs the board; every button can wake it; it parks when left alone |
| BLE server, `main/ble` | pool of sessions, advertising | connect, disconnect, write, notify | every link has one session, an entry reused inherits nothing |
| Board, `main.c` | all of the above, as globals | `app_main`, `app_task`, callbacks | the tasks do not lose each other's work; a reboot is ride-safe |
| Factory reset, `factory_reset.c` | power-on window, hold timer | poll, erase, restart | only a deliberate hold wipes; what comes up is fresh |
| Phone's session, `BoardSession.ts`, `BlePlxTransport.ts` | watcher, the attempt in flight, the client shown, last device | start, tap, connect, lose, retry, stop | someone is always at it; the phone comes back to its board; nothing is left connected |
| Phone's client, `MotoClient.ts` and screens | one waiter per channel, timers, chunks received | read, write, fetch, time out | a reply goes to its request; a read is whole; every call ends |
| Crypto, codec, HAL, simulator, screens, tools | (data or I/O) | | |

How they interact. `app_task` (core loop in `main.c`) calls `mc_output_tick`,
`mc_input_poll`, `mc_diag_tick` (which may call `mc_output_set_engine_running`)
and `mc_lock_tick`, dispatches input events into `mc_output` and `mc_lock`,
copies the live outputs to the mirror when they differ, and saves when the
debounce is due. The NimBLE host task runs `mc_session` handlers, which call the
same `mc_output` and `mc_lock` functions on the same globals and mark or save
the same blobs. There is no mutex around any of these; the two tasks run on the
two cores. `mc_lock` drives `mc_output` (it forces outputs off, sets the
inhibit, turns the key) and `mc_output` never calls back.

What makes it hard: raw writes that bypass the guards of `mc_output_set`
(hazards, the key-on edge, the forced-off of a lock); timers that interact
(turn, parked, backoff, quiet, entry window, debounce); three copies of
"locked" and three of the outputs; two tasks on shared data; power cuts between
any two writes; NVS writes that fail.

The complete list of hazards, each at its line and with the properties that
cover it, is `hazards` in `PROJECT.json`.

## 2. The models

```
OutputEngine <- LockEngine                  pure operators, one per C function
     |              |
   Output         Lock ---- refines ----> Immobilizer
     |              |  \
    Diag         MCLock Device <- MCDevice
     |
  MCDiag
EngineProofs <- OutputProofs, LockProofs, DeviceProofs

Keystore <- Session <- MCSession, SessionProofs     who may command
Ota      <- Update  <- MCUpdate, UpdateProofs       the firmware update
EventLog, Input, Power, Timers <- BoardProofs       parts of the board, each
                                                    with its MC module
Reach, ConfigTransfer <- PhoneProofs                the phone and its board
```

* `OutputEngine`: the record `Engine` is `mc_output_engine_t`, the record
  `OutputConfig` the fields of `mc_output_config_t` that control depends on
  (a role is the set of channels that have it, `commanded` the set of channels
  that are on). One operator per function, from a record to a record:
  `OutputSet`, `HazardPress`, `OutputTick`, ... A helper of the source keeps
  its name (`EndHazardMode`, `IgnitionOn`, `SetRaw`).
* `Output`: `OutputEngine` as a state machine, called in any order by the
  phone, the buttons, the loop and the engine detection. It boots with any set of
  channels lit, since the states are saved and a configuration may be written
  after them. History variables: `prior` (the commanded states the running
  hazards are to give back), `asked` (the lit channels that a command lit),
  `restored` (those that are lit, or will be again when the hazards end, because
  they were in flash and nobody touched them since).
* `Diag`: `Output` with the levels it drives (`drive.level`, written by
  `apply_hal_state()` at the calls and the ticks) and `mc_diag.c`, which samples
  one driven channel per tick, tells a running engine from the battery voltage,
  and sheds what is not essential when the voltage is low. Its steps are those
  of `Output` extended, so every behaviour of it is one of `Output`
  (`DiagImplementsOutput`). `dark` is a history variable: for how many samplings
  a channel has not been driven. Currents and voltages are what the calibrated
  readings may be; the duty of a PWM channel is left out.
* `LockEngine`: `mc_lock.c` as operators on `[lock, output]`, because its
  functions take both structs. `CheatcodePress` is split as the function is:
  `Listening`, `Entered`, `Judged`, `Penalized`.
* `Lock`: both engines as a state machine; each call is one step. `key` is the
  position of the rider's switch. Switching the immobilizer on and off, the
  code and the ownership are the owner's ops of `mc_session.c`.
* `Immobilizer`: the abstract promise, in three facts: phase (off, open,
  locked), live key, running engine. It locks only a parked bike, unlocking
  turns the key in the same step, and nothing turns the key of a locked bike.
* `Device`: the two tasks of `main.c` as program counters (`app.at`, `ble.at`),
  the RAM mirror, the debounce, both blobs in flash, NVS failures and reboots.
  A pass of the loop is a step per call: `mc_output_tick`, the outputs that
  follow a level (`Levels`), `mc_diag_tick`, `mc_lock_tick`, the rider's press,
  the diff-and-sync, the flushes. Between the steps of a call the other task may
  run: a command to switch on passes its check, and is carried out in another
  step; a lock change writes its own record, then sweeps the outputs, then sets
  the inhibit, an unlock lifts it and turns the key by a command. A save is two
  steps (serialize, then write and clear the dirty flag), and `config_commit`
  three (read the live states, write the mirror, write the live configuration).
  History variables: `crossed` (the last lock change began inside one of the
  other task) and `slipped` (what a command whose check was made before a lock
  lit after its sweep).

* `Ota`: the functions of `mc_ota.c` and the flash calls of `ota_hal.c` as
  operators on `[ota, slots, boot, running]`. A partition is the sequence of
  blocks written to it, so a half-written, spoiled or mixed image is what it is;
  a digest stands for the one sequence that has it, and the signature of the
  release key exists for `Signed` images only. The bootloader and `esp_ota_*`
  are outside the repository and modelled as the code relies on them: the
  update partition is not the running one, an unconfirmed image accepts no
  update, only a whole image is booted, an unconfirmed one once.
* `Update`: the board of `Ota` with resets, the boot that confirms its image,
  and several phones, each with its screen and its upload loop. A request and
  its handler are one step (the NimBLE host task runs one handler at a time and
  waits for the flash task), whose reply may be lost. The screen's Cancel does
  not stop the loop, as in the app. An update file (`Files`) is a header, which
  declares the digest and signature of one image, and the bytes behind it, which
  may be another's: the app compares their number only. History variables:
  `proven` (the partitions whose image has completed a boot), `rewritten` (those
  written anew while chosen to boot next).

* `Keystore`: the operations of `mc_keystore.c` on the slot table. A key stands
  for its pair and for the phone that owns it; it signs for nobody else.
* `Session`: links, the pool `s_sessions`, challenge and answer, enrolment,
  revocation, transfer, the keystore's save, factory reset and restarts. A
  handler of the NimBLE task is one step; it is `app_task` that another task's
  work can overtake, so the save is in three steps (copy begins, copy ends,
  flash written and the mark cleared) and the reset in three (keys erased, lock
  erased, restart). A key changed during the copy is in the blob as before, as
  after, or half (`TornKey`, which no phone can use and which takes a slot). A
  phone may answer any challenge it ever heard, at any time and on any link.
  The debounce is a delay of any length. Of the lock only "default" or
  "configured" is kept; the reset may happen at any time (the 5 s window and
  the 10 s hold are left out) and each of its erasures may fail. Left out: labels, the
  configuration that the reset also erases, `authed_slot` (nothing reads it),
  requests refused by their length.
  History variables: `asked` (the challenge open on each link), `vouched` (the
  links whose phone answered theirs), `disowned` (keys removed and not enrolled
  again), `astray` (the two ways a change can be neither in flash nor owed),
  `kept` (the reset under way has failed to erase the keys).

* `EventLog`: `mc_event_log.c` over its NVS ring, and the two tasks that append
  to it. An append is a step per flash call (`BeginAppend`, `WriteSlot`,
  `Advance`, `Persist`), so that the other task, a page being read or a power
  cut may come between; each write may fail. With it the change of owner, which
  clears the ring without erasing its slots, the factory reset, which erases it
  and logs itself, and `getEventLog()` of the app: pages, the total it counts
  by, frames lost, its timeout. `logged` and `durable` are histories of the
  events; `harm` names what makes the ring untrustworthy (two tasks in it at
  once, a record that failed to be written).
* `Input`: `mc_input.c`, one `mc_input_poll()` per tick with any levels of the
  buttons, on the clock of the polls. Debouncing, short, long and double presses,
  the order of events of one poll, chords, sequences, and a configuration that
  replaces the combos and the timing in mid-gesture, though not in mid-poll. `open`
  holds, for each press not told yet, whether a chord was fired on it; `shorts` the latest short
  presses. The queue is drained after every poll, and holds what one poll can
  queue: 8 buttons and 8 combos are exactly its 16 entries (`InputAssumption`).
* `Power`: `mc_power.c`, the end of `app_task`'s loop, and the button interrupts
  that mask themselves (`input_hal_gpio.c`). The re-arming is a step per button
  and one for the mask, with interrupts between them. Of `mc_input` only what
  the policy asks for is kept.
* `Timers`: the clock that the other modules leave out: a counter that wraps, a
  loop that reads it once per pass, and timers started by either task with a
  reading of their own (`Stamps`). One behaviour watches one timer; the quiet
  period is watched together with the backoff that may begin with it and that
  it waits for.
* `Reach`: `BoardSession.ts` with the transport, the pairing screen and the
  board's advertising. The app is one thread, so a step is what runs between two
  awaits; an attempt is a promise that others may join, replace or outlive. A
  connection attempt has no timeout and waits for an advertisement.
* `ConfigTransfer`: the CONFIG channel. Board: the chunks of a read, the staging
  of a write in each session, the commit. App: `configRead()` and `configWrite()`
  of screens that share a client, its single waiter per channel, the timers that
  delete it. Writes are acknowledged in order, notifications keep their order
  and may be lost, a link may end at any point. A configuration is the sequence
  of the blocks of its JSON, each with the write it came from, so that a mixture
  is visible; whether a whole one is valid is a free choice. What a call ends
  with is judged when it ends (`untrue`); `alone` marks the calls that nothing of
  another one could answer. Authentication is in `Session`.

`Update` shares only `ota_safe_to_flash()` with the other models; there it is a
condition that changes freely (`Ride`), which covers every order of the two.

Time. In the engines, `Device` and `Power` a tick is one step of the timers: a
deadline of the code is a countdown (`deadline`, `backoff`, `parked_for`,
`quiet`, `entry_left`) that stops at 0, and counters stop at their last value
that changes anything (`MaxWrong`, `Grace`, `QuietReset`; the code's count of
wrong entries goes on, with the same backoff for each). `Timers` justifies
that: what the code computes on the wrapping 32-bit clock ends a timer in the
first pass in which it is due, but for the gaps its property names. One of these
matters to `Device` and is in it: a mark made after the loop has read the clock
is saved in the same pass (`AppFlush`). `Input` keeps the stamps of the code.

Initial states. `Output` and `Diag` start with a validated configuration and any
outputs lit, `Lock` with all outputs off; `Device` starts from a factory flash and reaches every other
flash through its own saves and reboots. `Session` and `Update` start from a
factory board.

Definitions whose comment starts with "Mutant:" are deliberate variations of
the definition below them, used to show that a property fails when the code is
changed that way. No specification uses them.

## 3. What is checked

| Run | Instance | Shows |
|---|---|---|
| `MCDiag` | 3 channels, the ignition with: two indicators; a hi/lo pair; a lamp and a starter with an interlock; an indicator and a running light that joins the hazards and the key. Two diagnostics configurations, one current, 4 voltages; any channels lit at boot | `EngineSound` (types, pairs, turn signals, the starter), `IndicatorArmed`, `HazardsVisible`, `HazardsBorrow`, `DiagSound` (with `LevelsFollow` and `CopiesAgree`), `RideKeepsLights`, `DarkReadsNothing`, for all orders of calls |
| `MCLock` | 4 channels: ignition, starter, indicator, a light in the hazards and the key; or no ignition at all. A code of 2 buttons, 3 backoff steps | `LockSound` (types, state and inhibit, a dark bike, attempts), `LockedParked`, `WayBackIn`, `BackoffServed`, `UnlockAuthorized`, and that `Lock` implements `Immobilizer` |
| `MCDevice` | 2 channels, the ignition and an indicator that joins the hazards and follows a level; the rider sets / hazards / types the code, the phone sets / hazards / locks / unlocks, writes may fail, reboot at every step | `DeviceSound`, `OutputsOwed`, `BootsAsLeft` |
| `MCDeviceLive` | 2 channels, 2 configurations, the phone commits either at any time, the rider sets and types the code, fairness | `Settles`, `AutoLocks`, `MirrorConverges` |
| `MCUpdate` | 2 phones, 3 signed images (one of 2 blocks), 1 unsigned, each in a file of its own and one behind the header of another, 2 partitions; flash calls fail, replies are lost, resets at every step | `UpdateSound` (with `SignedRuns`), `CommittedWhole`, `StaysOnConfirmed`, `RollsBack` |
| `MCSession` | 2 phones, 2 links, 2 key slots, 2 challenges; failed and overtaken writes, resets, power cuts at every step | `SessionSound` (with `KeysOnce`), `AuthedOnThisLink`, `KeysOwed`, `OwnersRule`, `ResetForgets` |
| `MCEventLog` | a ring of 3 slots, pages of 2, 4 events; failed writes and power cuts between any two steps | `LogSound` (with `FetchAnswered`), `FetchShows` |
| `MCInput` | 2 buttons, 10 ticks at intervals of 1 or 2, a chord and sequences of 2 and 3, and a configuration write that swaps them and the timing | `PressesTold`, `SequenceTracks` |
| `MCPower` | 2 buttons in a sequence, one gate, 3 profiles of which one ticks slower | `PowerSound` (with `WakeOwed`), `Parks` |
| `MCTimers` | a clock of 32 that wraps twice, a timer of 5, no backoff or one of 4, passes of up to 3 | `TimersServed` |
| `MCReach` | 2 boards, 2 attempts at a time, one tap and one Disconnect at any moment | `ReachSound` (with `AlwaysOnIt`), `Reconnects` |
| `MCConfigTransfer` | a phone with 2 screens and a phone with 1, configurations of 1 and 2 blocks, 3 calls and faults | `TransferSound`, `RepliesTrue` (`ReadsWhole` and `ToldTrue`), `CallsEnd` |

Why these bounds. Channels are interchangeable except for their roles, and the
configurations of an instance have among them at least one channel of each role
and, where two of a role interact (indicators, a pair), two. In `MCDiag` a
reading lies below, between or above the thresholds, and in the band of the
hysteresis; one current is enough, since the thresholds of the configurations
differ around it. A turn window of 2 ticks has a tick before,
at and after expiry; `Window` likewise. `Grace`, `Window` and `QuietReset` of
`MCDevice` are 0 or 1: there they only have to come before or after other steps.
`FreeAttempts = 1` with three backoff durations reaches a free attempt, each
duration, and the saturated one. Two phones are what it takes to mix the chunks
of two uploads (one cancels, the other begins, the first loop goes on); an image
of one block next to one of two makes a chunk overrun the size another upload
declared, and two images of one block make a complete mix that only the digest
tells apart. The phones are interchangeable (symmetry). Two configurations are
enough for a commit that changes roles and for one that changes nothing. In
`MCSession` two challenges (`MaxNonce`, the one counter that is cut off) are what
it takes for an answer to come late, to be meant for another link, or for the
link made before; with two slots a slot is freed before one in use and an owner
enrolls another. `Handles` has as many members as the pool has entries, as NimBLE
is built.

The bounds of the newer modules: `MaxEvents = 4` (with the event a change of
owner and a reset log themselves) makes a ring of 3 wrap, and a page of 2 leaves
a second page. Ten ticks of `Input` (`MaxTime`) hold a double press and a long
press in one timing, and a run of short presses in the other, so that a sequence
completes, is broken off, or comes late. In `Timers`, `MaxTime` lets the clock
wrap twice, and the bound of its passes is part of what is claimed. In `MCDevice`
and `MCDeviceLive`, `LocalOps` and `BleOps` choose what the rider and the phone do
in the instance. In `Reach`, `Clients` bounds the attempts that exist at a time, `Taps`
and `Disconnects` what the rider does; failures, drops and retries are not
bounded. In `ConfigTransfer`, `MaxEvents` bounds the reads and writes that are
begun, the answers that lose frames (any of them) and the links that are lost,
together: three are what it takes for a read to span a write and meet another
read, or for a read and a write to meet a loss. Timeouts are unbounded, at any
moment.

No state constraint is used: every run is exhaustive on its instance.

Fairness. `Device`: weak fairness of `AppStep`, because `app_task` is an endless
loop guarded by the task watchdog, and of `BleContinue`, because a handler the
NimBLE task has entered runs to its end. No fairness of requests, of events, or
of the absence of reboots: `Settles` and `AutoLocks` assume in their own
hypotheses that reboots (and, for `Settles`, requests and changes) stop.
`Power`: the loop runs, an enabled interrupt on a pressed button is served, and
the gap after a tap ends: strongly, since presses may interrupt it, but the time
that ends it passes anyway. `Reach`: promises and timers of the app are weakly
fair, the screen without a session calls `start()`; the steps of an attempt and,
once the surroundings are calm, of the links are strongly fair, because a
failing attempt takes the thread between any two of their chances.
`ConfigTransfer`: the board handles what it was sent, the app takes what
arrives, timers expire. Nothing makes a frame arrive that was lost.

Deadlock is checked, except where a run really stops: in `MCReach` when the rider
has used his taps, in `MCConfigTransfer` when every call has ended and none may be
begun, in `MCInput` and `MCEventLog` when the bound of time or events is reached.

## 4. What is proved

The proofs hold for every number of channels, every set of validated
configurations, codes, buttons, links, phones and boards, and every value of the
timers; the assumptions are the named ASSUMEs of the modules that declare the
constants (`NumChannelsAssumption`, `ConfigsAssumption`, `LockAssumption`,
`DiagAssumption`, `DeviceAssumption`, `SessionAssumption`, ...), and TLC evaluates
all of them. Further hypotheses of a theorem are in its ASSUME and named below.
Induction over data is out of the prover's reach; where an argument is by the
least number with a property, `LeastNatural` (from the well-foundedness of the
strict subset ordering, which the library states without an operator parameter)
stands in for it.

* `EngineProofs`: lemmas on each operator of `OutputEngine` (it returns an
  `Engine`, keeps the configuration, touches only the channels it may) and of
  `LockEngine`: each preserves `Sound(board)`, that is types, the agreement of
  state, flag and inhibit, darkness and parkedness of a locked bike, and that
  attempts exist on a locked bike only; and how each moves between the phases.
* `OutputProofs`, outputs: `Spec => []IInv`, where IInv is the type invariant, the
  exclusion properties, and what they need to be inductive: running hazards
  hold a snapshot that itself satisfies turn exclusion (or ending them could
  relight both sides), armed deadlines belong to lit indicators, and of what the
  flash had lit at boot the histories say what is left of it. From it
  `OutputTypeOK`, `StarterIsProtected`, `PairsAreExclusive`,
  `TurnsAreExclusive`, `IndicatorsAreArmed`, and `EngineIsSound`, the conjunction
  that `MCDiag` checks. `HazardInvariant` is the second invariant, HInv: while
  hazards run no member has a deadline pending and the undisturbed ones are lit
  (`Visible`), and each snapshot in `prior` is what was saved of the group and,
  outside of it, what is still lit (`Borrowed`). From it `HazardsAreVisible` and
  the action property `HazardsOnlyBorrow`.
* `OutputProofs`, diagnostics: `DiagImplementsOutput` shows that each step of
  `Diag` is a step of `Output` or a stutter, so the invariants above hold of it.
  DInv adds that every level follows the engine after each of the writes of one
  call (`Follows`, through `FollowDrives` and its kin: a level is right for the
  engine of the moment it was written, and the writes that follow reach every
  channel that changed), that the copies agree, that the cutoff is off while the
  engine runs, and `Rounded`: as long as the watched channel still shows a
  reading, the samplings since it went dark are fewer than what the cursor has
  left behind. From it `DiagIsSound`, `RideLightsStay` and `DarkIsCleared`.
* `LockProofs`: `Spec => []IInv`, IInv = `TypeOK /\ Sound(board) /\ WayBackIn`.
  `WayBackIn` is needed for more than itself: parkedness of a locked bike is
  inductive only because an enabled immobilizer has an ignition channel, whose
  being off is what keeps the detection from reporting a running engine. From
  it `LockTypeOK`, `StatesAgree`, `LockedBikesAreDark`,
  `LockedBikesAreParked`, `NoLockOut`, `AttemptsAreLocked`, and `LockIsSound`.
  `LockImplementsImmobilizer` is the refinement, under `PlainIgnition` (the
  ignition is neither the starter nor a hazard member; without it an unlock
  might not turn the key, and hazards would turn the key of a locked bike).
  `AttemptsAreFair` is the invariant of the code entry: what has been sat out of
  the penalty of the last wrong entry and what is left of it add up to it
  (`Served`), and a half-typed code is never stale (`InTime`). With it each step
  judges a wrong entry only when the backoff of the one before is over, at the cap
  of the count too (`BackoffIsServed`), and leaves
  LOCKED only with a phone, the key, the code or the owner's configuration
  (`UnlocksAreAuthorized`).
* `DeviceProofs`: the two tasks, under `NoConfigWrites` (section 5 has the
  configuration write that breaks it). IInv follows a lock change through its steps:
  while none has overlapped, at most one task is in one, the bike is locked from
  the first step of it to the last, and once nobody is in one the inhibit is that of the
  state (`Agrees`); after the sweep nothing is lit but hazard members and what
  slipped through (`Dark`). A command in a task's hands passed its check while no
  lock was in force (`HeldOK`); and whatever a boot may start from, the flash, the
  mirror and what a task holds between the halves of a save, is a configuration with
  an ignition and a well-typed lock (`BootSound`: any such flash boots a sound
  board). From it `DeviceInvariant`, `DeviceIsSound`. `OutputsAreOwed` needs that a
  flush under way holds the mirror as it is now. `BootsAsItWasLeft` is the action
  property of a reset.
* `SessionProofs`: `SessionTypeOK`; then two inductive invariants. `LinksInv` is
  `OneSessionPerLink`, `AuthedOnThisLink` and `ChallengesOpen` (a session in
  CHALLENGED holds the challenge last issued on its link, so that the signature
  that verifies is one under it). That a free handle finds a free entry is a
  pigeonhole argument (`RoomInPool`) and rests on `SessionAssumption`: as many
  handles as entries. `KeysInv` is `KeysOnce`, `KeysOwed` and `SaveInv` (what
  the save under way has copied, and that the blobs in RAM and flash hold no key
  twice), for any mixture a change may leave in a copy (`MixtureOnce`). From
  them `LinksHaveSessions`, `AuthedOnTheirLink`, `KeysSitOnce`,
  `KeyChangesOwed`, `SessionIsSound` and the action properties `ResetForgetsKeys`
  (nothing is saved while the flash is erased, so what was erased stays so) and
  `RuledByOwners` (the link whose request brings a key or a lock configuration in
  has itself answered a challenge).
* `UpdateProofs`: `Spec => []IInv`, IInv = `TypeOK /\ Sound(board) /\ Uploads`,
  for any images, update files, sizes and phones. `Sound` says of the record that what
  has been hashed is what the partition holds, that an image on trial has its whole
  predecessor beside it, and that a COMMITTED transfer is the declared, signed image
  and what will boot. One lemma per handler shows that it keeps a board sound
  (`BeginSound`, `ChunkSound`, `CommitSound`, `AbortSound`, `RebootSound`,
  `ConfirmedSound`). From it `UpdateTypeOK`, `RunningStaysIntact` and
  `CommittedIsWhole`; with `Vouched`, which ties the mark in the boot record to the
  boots completed, the two action properties `ConfirmedStays` and
  `UnprovenRollsBack`; with `Vetted`, by which a partition that may be booted and was
  not rewritten since its commit holds what a commit has compared with a signed
  digest, `OnlySignedRuns` and `UpdateIsSound`. Assumed: `OtaAssumption` (sizes are
  positive, the factory and release images fit) and `UpdateAssumption`.
* `BoardProofs`, timers: `TimersAreServed`, that is `TimersServed` on a clock of
  32 bits (`Wide`), for any period and pass that together stay below half of its
  range and backoffs no longer than the quiet period (`TimersAssumption`), and for any
  uptime. `ElapsedExact`, `ReachedExact` and
  `BackoffExact` say when each of the three comparisons in the code is right on
  readings that lie close together. IInv says that they do: a timer that runs
  is at most one pass overdue (`Ages`), because the readings it is started with
  are at most one pass apart from the loop's (`Readings`); a backoff still active
  when the quiet period is due is one of the gaps (`Penalties`, `HoldsExact`). `MCTimers` checks the
  same on a clock of 32 values.
* `BoardProofs`, power: `PowerIsSound`. PowerInv adds to `PowerSound` that a
  half-matched sequence has a next button, and that a button that is off while
  the re-arming has it enabled but not yet unmasked is one of the named race.
* `BoardProofs`, input: `PressesAreTold` and `SequencesAreTracked`, for any number
  of buttons and combos that the queue holds and any valid configuration.
  InputInv says of the engine between two turns that it is `Sound`: a button owes
  as many presses as it has open, with the mark of the latest (`Tells`); every
  sequence is where its run of short presses says (`Tracks`: among others, its
  start is the time of the press it counts from, and no longer part of it is
  followed). A poll is a recursive function over the buttons; that what it yields
  is `Sound` after all of them is proved by the least button after which it would
  not be (`PolledAccounts`, `LeastNatural`), together with the bound that keeps
  the queue from filling: a button tells at most one press a poll
  (`ButtonAccounts`: a double press leaves neither a long nor a short one to tell)
  and each sequence fires at the one button that ends it (`EndedCount`). That
  the matcher, which never goes back, misses nothing is `FollowsOnce`: a run that
  follows two lengths of a sequence has its first button twice.
* `BoardProofs`, event log: `LogIsSound` and `LogIsShown`, for any size of the ring
  and of a page and any number of events (`EventLogAssumption`: both sizes are
  positive). `LogInv` says of a ring and a cursor that every number in reach is in its
  slot with what was logged under it, or was passed by a later one, and that those
  passed are the oldest (`Ring`). It holds twice: of the log in memory, and of what a
  restart finds by its own cursor (`Flash`), which may lag behind by the saves
  that failed, so that memory must have passed all that is out of its own reach
  (`Overtaken`). `Stage` ties the append under way to the two. All this as long as
  nothing has disturbed the log; a factory reset that has emptied the flash under
  the memory is the other case (`Wiped`). For the pages, `Asked` and `Paged` say what
  the phone holds: numbers that climb up to `page.since`, each with what was logged
  under it; and, unless a frame was lost or the ring was unsettled, every event that
  could be read at the request is held, still to come, or evicted (`Covers`), and what
  is still to come is enough for the total announced. That a read collects just the
  numbers above those passed (`GatheredRuns`) is a climb along its recursive
  function (`Climb`, from `LeastNatural`).
* `PhoneProofs`, reach: `ReachIsSound`. ReachInv adds to it how the stages of an
  attempt, those who wait for it, the session shown and the links belong
  together (`Stands`): an attempt stays registered while it is under way, a client
  is shown only once its attempt has succeeded, one whose connection is up is
  past connecting.
* `PhoneProofs`, configuration: `TransferIsSound` and `RepliesAreTrue`, for any
  number of phones, screens and blocks. `TransferInvariant` has four parts.
  `Numbered`: one who writes shares its number with no other call, on no other
  phone. `Ordered`, unless two writes of one phone were sent at once: the one who
  sends on a phone has exactly one part of its write under way, as a message or
  as its acknowledgement, and the staging buffer holds the parts before it and
  nothing else (`InTurn`); a buffer in use holds parts of one write only, so what
  passes the length check of the commit is whole. `Reads`: one who reads alone has
  its request under way, or has received, and has coming, chunks of one version
  that was in force since (`Answered`). `Tellings`: any result that one who
  committed alone can take says what became of its commit. That a read is complete when it
  has as many chunks as the total says is an argument by cardinality
  (`CollectedAll`): they lie in `1 .. n` and there are `n` of them.

Each of these invariants was first checked by TLC on the instance of its run.

Model-checked only: liveness (`Settles`, `AutoLocks`, `MirrorConverges`, `Parks`,
`Reconnects`, `CallsEnd`), which the prover does not treat.

## 5. Where the code and its documents disagree

Met while modelling. None of these has a run of its own; where a property had to
name one as an exception, or says what does hold instead, it is given.

* Locking saves the lock at once and the outputs after the debounce. A power cut
  in between boots a bike with the ignition on, the ride-safe rule then unlocks
  it; the comment in `mc_lock_init` (`mc_lock.c:197`) rests on the outputs having
  been saved off. (`BootsAsLeft` is what does hold.)
* `app_task` asks `mc_persist_should_flush()` with the clock it read at the start
  of the pass, but every mark reads the clock anew. A mark made a millisecond or
  more later in the same pass, by the loop itself or by the NimBLE task, gives a
  negative age, which as a `uint32_t` is nearly 2^32: the write is not debounced
  (`main.c:78`, `main.c:474`; `mc_persist.h:32`). `TimersServed` names it
  `MarkedInPass`.
* `mc_lock.c:224` compares `now_ms >= backoff_until_ms` directly, against
  `mc_types.h:16`. A backoff begun shortly before the clock wraps (every 49.7
  days of power) ends on the next tick; one whose end falls just before the wrap,
  and is missed by a pass, lasts until the next wrap. (`Wrapping`.) The quiet period
  waits for the backoff (`mc_lock.c:227`) and is held over with it. (`HeldOver`.)
* The window of a half-matched sequence is looked at on the next short press
  only, so one tap on the first button of a sequence keeps the board in its
  active profile for good. (`Parks` is what does hold.)
* `action_suppressed` is the mark of the button's latest press-down, not of the
  press the event reports (`mc_input.h:46`): a tap whose gap ends while the button is
  held again is told with the mark of the press that is held, and so is suppressed by a
  chord it had no part in, or not by its own. (`PressesTold` excepts it as
  `Overshadowed`.)
* When service discovery fails the transport does not have the device yet, so
  the `disconnect()` of the failed attempt cancels nothing and the connection
  stays, with the board no longer advertising (`BoardSession.ts:153` says it never
  leaves one half-open).
* The two tasks call `mc_output` and `mc_lock` without a mutex. A command that has
  passed its check (`mc_output.c:287`) when the other task locks the bike lights its
  channel after the sweep (`mc_lock.c:81`), and it stays lit, inhibit and all, on a
  locked bike. A lock and an unlock that overlap, one in each task, may leave the bike
  UNLOCKED with the inhibit set, or LOCKED without it, until the next lock change that
  runs alone. (`DeviceSound` excepts `slipped` and `crossed`.)
* `config_commit()` takes the live states it read (`mc_session.c:771`) for those to
  set; the outputs an auto-lock forces off in between come back on, on a locked
  bike. `MCDevice` therefore has no commits (and the theorems about `Device` the
  hypothesis `NoConfigWrites`), and `MCDeviceLive` claims convergence and not
  darkness.
* An ignition channel that is a member of the hazard group can be on when the
  lock is not: hazards switch it on on a locked bike, and a reset then boots that
  bike unlocked (`mc_lock.c:197`). `PlainIgnition` excludes it, and `BootsAsLeft`
  speaks of a bike whose ignition is off; the validation does not.
* The key-on edge (`mc_output.c:221-233`) lights its companions raw, so both
  members of a pair can be on.
* Hazards that were started over lit channels relight them when they end on a
  bike that was locked meanwhile (`mc_output.c:197`).
* Both tasks run `persist_lock_cb` (`main.c:97`); the one that serialized first
  clears the dirty flag of the other's change.
* A revoked key, or the keys a transfer wiped, are back after a power cut in the
  two seconds of the debounce; a removal that a running save misses loses its
  mark (`main.c:481`). PROTOCOL.md says "immediately". (`KeysOwed` is what does
  hold.)
* Event log: after a power cut between the write of a slot and the save of the
  cursor, in a full ring, the count is one more than can be read
  (`mc_event_log.h:101`), and every fetch of the app waits for a record that does
  not come, until the next event. A clear or a slot write that fails shows the
  former owner's records. An append of the loop that overlaps with a clear
  restores the old cursor, likewise one of the NimBLE task during a reset.
* `mc_diag_config_validate()` does not look at the run detection: with a
  hysteresis above `engine_run_mv` the threshold to clear is below zero
  (`mc_diag.c:141`), and a running engine is never taken to have stopped while
  the key is on. `config_commit()` and `mc_diag_learn()` do not call it at all, so
  an imported or learnt open-load threshold may exceed the overcurrent one, and no
  reading is then free of a fault.
* A blinking channel is looked at in its dark phase too, which clears its fault
  (`mc_diag.c:104`): that of a blown indicator comes and goes.
* A starter is not essential: the sag of cranking sheds it when the engine is not
  yet taken to run and the battery falls below the cutoff. `RideKeepsLights` is
  about channels whose level is steady.
* When hazards end, a member whose commanded state does not change is driven anew
  only at the next tick (`set_commanded_on_raw()` is not called for it), so it
  keeps the level of the blink phase until then.
* Input: the double press that a poll sees late is lost with both of its taps'
  meanings: when the interval between two polls spans the end of the gap, the
  first tap is dropped without an event (`mc_input.c:267`), where `mc_input.h:162`
  has an irregular interval stay correct. (`PressesTold` names it.) The timing is
  not validated; with a gap as long as the long press, a held second press cancels
  the first tap.
* Input: the window of a combo is strict (`mc_input.c:160`) where `mc_input.h:32`
  says `<=`; a sequence whose first button recurs in it may be missed; chords and
  sequences are dispatched while a code is captured.
* Power: a press between `gpio_intr_enable()` and the unmasking
  (`input_hal_gpio.c:89-96`) leaves its interrupt off and its mark cleared, so the
  button never wakes the board again (`WakeOwed` names it).
* Reach: the rider is stranded in four ways (`Stranded`): the link drops while
  `saveLastDevice()` is awaited, before a handler is registered; a half-open
  link; a session hidden by an attempt that overlapped with it; and after a
  failed tap that found nothing to go back to. The load awaited by `start()`
  overrides a session made by hand meanwhile (`BoardSession.ts:294`). Disconnect
  shows the pairing screen, whose `start()` reconnects at once.
* Configuration: two screens of one app share one waiter per channel
  (`MotoClient.ts:367`), and leaving a screen does not cancel its call. A read may
  be assembled from the chunks of two versions, and if a chunk lies beyond the
  total the callback throws and the call never ends (`hung`). The COMMIT takes any frame
  for its result (a chunk at offset 0 reads as OK). The timer of a call deletes
  whatever waiter is there. Two overlapping writes of one session mix
  (`mc_session.c:846` keeps only the furthest end), with `mixed` the model's name
  for it; a third screen that waits for its result takes the refusal of one of
  their chunks for it, which is why `ToldTrue` excepts `mixed` as well. Only a
  comment (`MotoClient.ts:556`) asks callers not to overlap.
* A turn signal's deadline counts from the last tick (`mc_output.c:339`), so on a
  parked board it ends up to 250 ms early; one that falls on clock value 0
  (`Unseen`) reads as none pending and the signal stays.

* `ota_hal.c:85` switches the boot partition when an update is committed, so any
  reset before `OTA_REBOOT` boots the new image, whereas `mc_ota.h:44` says only
  `mc_ota_reboot()` ever switches it. Discarding a staged update (`OTA_ABORT`)
  does not switch it back. (`StaysOnConfirmed` is what does hold.) An update begun
  after the abort erases and writes that partition again, still chosen to boot next;
  its bytes are compared with the signed digest only at its own COMMIT, the app does
  not compare them before it sends them (`updateCheck.ts:155`), and a reset once they
  are all there boots them, although PROTOCOL.md section 10.2 has only signed images
  run. (`SignedRuns` excepts the `rewritten`.)
* The reset does not stop the NimBLE task: a lock request between the erasure of
  `mc_lock` (`factory_reset.c:104`) and the restart saves the lock again, and the
  board is not "factory-fresh" but has the former owner's immobilizer.
  (`OwnersRule` and `ResetForgets` are what does hold.) `erase_namespace()` looks at no
  result (`factory_reset.c:54-63`): a failed erase keeps the keys, while the log says
  they were wiped. (`ResetForgets` excepts it.)
* A configuration committed while an older one is being saved loses its mark:
  it is in use, acknowledged, and not in flash until something else changes.
* A session stays authenticated after its own key is revoked, or after a
  transfer, until its link ends.
* A key half copied into a save that a removal overtakes occupies a slot after a
  power cut: if it was the last key, the keystore is not empty and no phone is
  in it, so nobody can enroll until a factory reset.
* A keystore that cannot be read at boot is an empty one: the next phone may
  enroll itself, with the lock's configuration still the owner's.
* The hazard press switches members on without the pair and starter rules
  (`mc_output.c:432`); the properties speak of `Plain` channels for this reason.
* Unlocking turns the key, and its edge also lights an `on_with_ignition`
  starter ("unlocking never cranks anything", `mc_lock.c:103`).
* `mc_lock_tick` stores the switch level only after its early return for a
  disabled immobilizer (`mc_lock.c:236`), against `mc_lock.h:122`; a stale
  level is acted upon when the immobilizer is enabled. A locked bike whose
  switch is already on unlocks at the next tick.
* A signal that was on at a reboot is restored without its auto-cancel. A reset during
  the hazards restores their members as they were lit, without the hazards: both
  signals lit and not timed, until somebody touches them. Likewise both members of a
  pair, where the key or the hazards had lit one raw. (`restored` names them in `TurnExclusive` and `IndicatorArmed`.)
* `config_commit` may remove the ignition channel under an enabled
  immobilizer; it copies live states that `app_task` may change before they are
  assigned; `mc_persist_mark_flushed` clears a mark made during the save.
* Every mark restarts the debounce (`mc_persist.c:14`), so a phone that repeats
  a command faster than the debounce keeps the save from coming due.
* After an upload has failed or lost its link the board stays in RECEIVING or
  ERROR, which only `OTA_ABORT` leaves; the update screen offers it while
  uploading and when ready, never after an error, so every new attempt is
  refused until the board resets.
* PROTOCOL.md section 11.2 has the immobilizer refused unless a code is set;
  the code also accepts the switch as the fallback.
* `mc_output_set_interlock_engaged` has no caller in `firmware/main`.

## 6. What is not modelled

Every invariant and every safety action property of the runs is a theorem; what
is left to TLC is liveness, which rests on fairness and `ENABLED`.

Left out:

* Of the outputs' drive, PWM duty and the pulse counts of a flasher (a burst is
  lit, dark or over); of `mc_diag`, the calibration of its readings.
* The lock's configuration commands in the two-task model, input learning, and
  requests that only read; the roles a configuration write may change under the
  lock's configuration.
* A configuration write in the middle of a poll of the inputs or of a call into the
  engines; between the checks of a call and its end the assignments of one step are
  not split further (the hazard press and the sweep of a lock, a loop over the
  channels, are one step each).
* Bonding and encryption, which belong to the BLE stack; the power-on window and
  the held button of the factory reset.
* JSON, cryptography, status encoding and the rest of the HAL: data or register
  access without control of their own. The simulator, which is a second host for
  the same core. The screens' display and the release tools.

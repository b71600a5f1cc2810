------------------------------- MODULE Update -------------------------------
(***************************************************************************)
(* A firmware update end to end: the board of Ota, the boot sequence that  *)
(* confirms a new image, power cuts at any moment, and the phones, each    *)
(* with the update screen and the upload loop of the app.                  *)
(*                                                                         *)
(* The handlers run to completion on the NimBLE host task (it blocks while *)
(* the flash task works), so a request and its handling are one step.  The *)
(* reply may be lost with the link: the handler has run, the app gets an   *)
(* error.  The upload loop outlives the screen's Cancel button, which      *)
(* sends an abort between two of its chunks.                               *)
(***************************************************************************)
EXTENDS Ota, FiniteSets

CONSTANTS
  Phones,      \* the phones with an authenticated session
  Bundles,     \* the update files a server offers
  Factory      \* the image the board was flashed with

\* The header of an update file declares the digest, signed, of one image; the
\* bytes behind it may be another's: the app compares their number alone.
Files == [header : Images, image : Images]

ASSUME UpdateAssumption ==
  /\ Bundles \subseteq Files
  /\ Factory \in Signed

VARIABLES
  ota,       \* s_ota
  slots,     \* what the two partitions hold
  boot,      \* otadata
  running,   \* the partition whose image runs
  up,        \* app_main() has run to its end
  safe,      \* ota_safe_to_flash(): engine off, battery not cut off
  screen,    \* each phone's FirmwareUpdateScreen and its upload loop
  proven,    \* history: the partitions whose image has completed a boot
  rewritten  \* history: those written anew while chosen to boot next

flash == <<slots, boot, running, proven, rewritten>>
vars == <<ota, slots, boot, running, up, safe, screen, proven, rewritten>>

board == [ota |-> ota, slots |-> slots, boot |-> boot, running |-> running]

Becomes(b) ==
  /\ ota' = b.ota
  /\ slots' = b.slots
  /\ boot' = b.boot
  /\ running' = b.running

\* A partition written to has its boots before it again; and it is not what a
\* commit has found, until the next one does.
Unchanged == {s \in Slots : slots'[s] = slots[s]}
Found == {s \in Slots : ota'.state = "COMMITTED" /\ ota.state # "COMMITTED" /\ s = boot'.slot}
Handled(b) ==
  /\ Becomes(b)
  /\ proven' = proven \cap Unchanged
  /\ rewritten' = ((rewritten \cap Unchanged) \cup ({boot.slot} \ Unchanged)) \ Found

Phases == {"idle", "uploading", "ready", "error"}

\* The loop is at the chunk with this offset, or over.
Loops == {"none", "begin", "chunks", "commit"}

Screen ==
  [phase : Phases, loop : [at : Loops, offset : Nat, bundle : SUBSET Files]]

NoLoop == [at |-> "none", offset |-> 0, bundle |-> {}]
Idle == [phase |-> "idle", loop |-> NoLoop]

Init ==
  /\ ota = InitOta
  /\ slots = [s \in Slots |-> IF s = "ota_0" THEN Whole(Factory) ELSE <<>>]
  /\ boot = [slot |-> "ota_0", mark |-> "valid"]
  /\ running = "ota_0"
  /\ up = TRUE
  /\ safe \in BOOLEAN
  /\ screen = [p \in Phones |-> Idle]
  /\ proven = {"ota_0"}
  /\ rewritten = {}

-----------------------------------------------------------------------------
(* The board                                                               *)

\* The last call of app_main(), BLE being up already.
BootComplete ==
  /\ ~up
  /\ up' = TRUE
  /\ Becomes(Confirmed(board))
  /\ proven' = proven \cup {running}
  /\ UNCHANGED <<safe, screen, rewritten>>

\* The links drop with the board: every request in flight fails.
Cut(s) ==
  IF s.loop.at = "none" THEN s ELSE [phase |-> "error", loop |-> NoLoop]
LinksCut == screen' = [p \in Phones |-> Cut(screen[p])]

\* Any reset nobody asked for: power, watchdog, brownout.
PowerCut ==
  /\ Becomes(Rebooted(board))
  /\ up' = FALSE
  /\ LinksCut
  /\ UNCHANGED <<safe, proven, rewritten>>

\* The engine or the battery changes.
Ride ==
  /\ safe' = ~safe
  /\ UNCHANGED <<ota, flash, up, screen>>

-----------------------------------------------------------------------------
(* The phone                                                               *)

\* downloadAndInstall(): the download has succeeded, the upload starts.
Install(p, file) ==
  /\ screen[p].phase \in {"idle", "error"}
  /\ screen[p].loop.at = "none"
  /\ screen' = [screen EXCEPT ![p] =
       [phase |-> "uploading", loop |-> [at |-> "begin", offset |-> 0, bundle |-> {file}]]]
  /\ UNCHANGED <<ota, flash, up, safe>>

\* uploadFirmware() stops at the first step that is not OK.
Stop(p) == screen' = [screen EXCEPT ![p] = [phase |-> "error", loop |-> NoLoop]]

GoOn(p, at, offset) ==
  screen' = [screen EXCEPT ![p].loop = [at |-> at, offset |-> offset, bundle |-> @.bundle]]

Bundle(p) == CHOOSE file \in Files : file \in screen[p].loop.bundle

SendBegin(p, outcome, reply) ==
  /\ screen[p].loop.at = "begin"
  /\ LET file  == Bundle(p)
         after == OtaBegin(board, Size[file.image], file.header, safe, outcome)
     IN  /\ Handled(after)
         /\ IF reply /\ after.ota.state = "RECEIVING" /\ ota.state = "IDLE"
            THEN GoOn(p, "chunks", 0)
            ELSE Stop(p)
  /\ UNCHANGED <<up, safe>>

SendChunk(p, outcome, reply) ==
  /\ screen[p].loop.at = "chunks"
  /\ LET offset == screen[p].loop.offset
         image  == Bundle(p).image
         last   == offset + 1 = Size[image]
         after  == OtaChunk(board, offset, <<image, offset + 1>>, outcome)
     IN  /\ Handled(after)
         /\ IF reply /\ after.ota.state = "RECEIVING"
            THEN GoOn(p, IF last THEN "commit" ELSE "chunks", offset + 1)
            ELSE Stop(p)
  /\ UNCHANGED <<up, safe>>

SendCommit(p, outcome, reply) ==
  /\ screen[p].loop.at = "commit"
  /\ LET after == OtaCommit(board, outcome)
     IN  /\ Handled(after)
         /\ IF reply /\ after.ota.state = "COMMITTED" /\ ota.state = "RECEIVING"
            THEN screen' = [screen EXCEPT ![p] = [phase |-> "ready", loop |-> NoLoop]]
            ELSE Stop(p)
  /\ UNCHANGED <<up, safe>>

\* The link drops, or the request times out before it reaches the board.
Drop(p) ==
  /\ screen[p].loop.at # "none"
  /\ Stop(p)
  /\ UNCHANGED <<ota, flash, up, safe>>

\* "Cancel" while uploading, "Discard staged update" when ready.  The loop is
\* not told, and whether the abort was "sent" and heard is not looked at.
Abort(p, sent) ==
  /\ screen[p].phase \in {"uploading", "ready"}
  /\ Handled(IF sent THEN OtaAbort(board) ELSE board)
  /\ screen' = [screen EXCEPT ![p].phase = "idle"]
  /\ UNCHANGED <<up, safe>>

\* "Apply now", and on a fresh screen "Apply staged update now".
Apply(p) ==
  /\ screen[p].phase \in {"idle", "ready"}
  /\ RebootAccepted(board, safe)
  /\ Becomes(OtaReboot(board, safe))
  /\ up' = FALSE
  /\ LinksCut
  /\ UNCHANGED <<safe, proven, rewritten>>

\* The rider leaves the screen and opens it again (not while an upload of this
\* phone runs: a second loop is what a second phone is for).
Reopen(p) ==
  /\ screen[p].loop.at = "none"
  /\ screen' = [screen EXCEPT ![p] = Idle]
  /\ UNCHANGED <<ota, flash, up, safe>>

Phone(p) ==
  \/ \E file \in Bundles : Install(p, file)
  \/ \E outcome \in FlashOutcomes, reply \in BOOLEAN :
       SendBegin(p, outcome, reply) \/ SendChunk(p, outcome, reply) \/ SendCommit(p, outcome, reply)
  \/ Drop(p)
  \/ \E sent \in BOOLEAN : Abort(p, sent)
  \/ Apply(p)
  \/ Reopen(p)

Next ==
  \/ BootComplete
  \/ PowerCut
  \/ Ride
  \/ \E p \in Phones : Phone(p)

Spec == Init /\ [][Next]_vars

-----------------------------------------------------------------------------
(* Properties                                                              *)

\* The state is well-formed; and whichever upload a chunk belongs to, no more is
\* written to the partition than the size its transfer has declared.
TypeOK ==
  /\ ota \in OtaRecord
  /\ ota.bytes_received <= ota.image_size
  /\ slots \in [Slots -> Seq(Block)]
  /\ boot \in BootRecord
  /\ running \in Slots
  /\ up \in BOOLEAN
  /\ safe \in BOOLEAN
  /\ screen \in [Phones -> Screen]
  /\ proven \subseteq Slots
  /\ rewritten \subseteq Slots

\* Whatever the order of requests of the phones and of power cuts, the
\* firmware that runs is a whole image: no transfer erases or overwrites the
\* partition in use, which is also the one a failed update falls back to.
RunningIntact == Bootable(board, running)

\* Whatever bytes the phones send behind a signed digest, and wherever they are
\* interrupted, only images of the release key run (PROTOCOL.md section 10.2):
\* save from a partition that was chosen by a commit and written anew since.
SignedRuns ==
  running \notin rewritten =>
    \A image \in Images : slots[running] = Whole(image) => image \in Signed

\* The well-formed board always has a firmware to run, and one to trust.
UpdateSound == TypeOK /\ RunningIntact /\ SignedRuns

\* While an update awaits its reboot, what the bootloader will pick is exactly
\* the image whose digest was declared: two phones uploading at once, a failed
\* flash write or a lost reply never end in COMMITTED with anything else.
CommittedWhole ==
  ota.state = "COMMITTED" =>
    /\ boot.slot = UpdateSlot(board)
    /\ \E image \in ota.declared \cap Signed : slots[boot.slot] = Whole(image)

\* A reset of a board that has booted, and has no newer image to boot, comes
\* back with the firmware it was running (the boot has confirmed it).
StaysOnConfirmed ==
  [][PowerCut /\ up /\ boot.slot = running => running' = running]_vars

\* An image that has never completed a boot is not given a second one: a reset
\* during its first boot returns to the other partition.
RollsBack ==
  [][PowerCut /\ ~up /\ running \notin proven => running' # running]_vars
=============================================================================

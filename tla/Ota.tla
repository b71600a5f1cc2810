-------------------------------- MODULE Ota --------------------------------
(***************************************************************************)
(* The firmware update of mc_ota.c over the flash calls of ota_hal.c, as   *)
(* operators on a board [ota, slots, boot, running].                       *)
(*                                                                         *)
(* An image is a model value of Size[image] blocks; a block of it is       *)
(* <<image, index>>.  A SHA-512 digest stands for the one sequence of      *)
(* blocks that has it, so the running hash is the sequence received and    *)
(* the declared digest is the image it was computed from.  A chunk is one  *)
(* block.  The signature of the release key exists for Signed images only. *)
(*                                                                         *)
(* esp_ota_*() and the bootloader are outside the repository: they are     *)
(* modelled from how ota_hal.c and app_main() rely on them.                *)
(***************************************************************************)
EXTENDS Naturals, Sequences

CONSTANTS
  Images,    \* the firmware images there are
  Size,      \* Size[image]: its blocks
  Signed,    \* the images the release key has signed
  MaxSize    \* MC_OTA_MAX_IMAGE_SIZE, in blocks

ASSUME OtaAssumption ==
  /\ Size \in [Images -> Nat \ {0}]
  /\ Signed \subseteq Images
  /\ MaxSize \in Nat
  /\ \A image \in Signed : Size[image] <= MaxSize

\* The two partitions an image may live in.
Slots == {"ota_0", "ota_1"}
Other(slot) == CHOOSE s \in Slots : s # slot

Block == UNION {{<<image, k>> : k \in 1 .. Size[image]} : image \in Images}
Whole(image) == [k \in 1 .. Size[image] |-> <<image, k>>]

OtaStates == {"IDLE", "RECEIVING", "COMMITTED", "ERROR"}

\* mc_ota_t; "declared" is empty until a transfer has declared a digest.
OtaRecord ==
  [ state          : OtaStates,
    image_size     : Nat,
    bytes_received : Nat,
    declared       : SUBSET Images,
    running_hash   : Seq(Block) ]

\* otadata: the slot the bootloader picks, and whether its image is still on
\* trial: "new" has never run, "pending" is running unconfirmed.
BootRecord == [slot : Slots, mark : {"valid", "new", "pending"}]

OtaBoard ==
  [ ota : OtaRecord, slots : [Slots -> Seq(Block)], boot : BootRecord, running : Slots ]

InitOta ==
  [ state |-> "IDLE", image_size |-> 0, bytes_received |-> 0,
    declared |-> {}, running_hash |-> <<>> ]

-----------------------------------------------------------------------------
(* The flash calls                                                         *)

\* esp_ota_get_next_update_partition(NULL): never the one that is running.
UpdateSlot(b) == Other(b.running)

\* esp_ota_begin() refuses while the running image is unconfirmed.
MayErase(b) == b.boot.mark # "pending"

Erased(b) == [b EXCEPT !.slots[UpdateSlot(b)] = <<>>]
Written(b, block) == [b EXCEPT !.slots[UpdateSlot(b)] = Append(@, block)]

\* Mutant: the image is not put on trial (rollback is not configured).
FinalizedUntried(b) == [b EXCEPT !.boot = [slot |-> UpdateSlot(b), mark |-> "valid"]]

\* esp_ota_end(), then esp_ota_set_boot_partition().
Finalized(b) == [b EXCEPT !.boot = [slot |-> UpdateSlot(b), mark |-> "new"]]

\* Mutant: app_main() ends without confirming its image.
NotConfirmed(b) == b

\* esp_ota_mark_app_valid_cancel_rollback(), the last call of app_main().
Confirmed(b) ==
  IF b.boot.mark = "pending" THEN [b EXCEPT !.boot.mark = "valid"] ELSE b

\* The bootloader runs whole images only, and gives an image one boot to
\* confirm itself.
Bootable(b, slot) == \E image \in Images : b.slots[slot] = Whole(image)

Rebooted(b) ==
  LET picked == b.boot.slot
      kept   == b.boot.mark # "pending" /\ Bootable(b, picked)
      slot   == IF kept THEN picked ELSE Other(picked)
      mark   == IF kept /\ b.boot.mark = "new" THEN "pending" ELSE "valid"
  IN  [b EXCEPT !.ota = InitOta, !.running = slot, !.boot = [slot |-> slot, mark |-> mark]]

-----------------------------------------------------------------------------
(* The handlers.  "flash" is what becomes of the flash call: it is done,   *)
(* refused, or (esp_ota_begin) fails after it has erased the partition.    *)

FlashOutcomes == {"done", "refused", "spoiled"}

Failed(b) == [b EXCEPT !.ota.state = "ERROR"]

\* mc_crypto_verify() over the declared digest, before any block is accepted.
VerifyRelease(image) == image \in Signed

Receiving(size, image) ==
  [ state |-> "RECEIVING", image_size |-> size, bytes_received |-> 0,
    declared |-> {image}, running_hash |-> <<>> ]

\* Mutant: the digest is taken without its signature.
BeginUnverified(b, size, image, safe) ==
  /\ b.ota.state = "IDLE"
  /\ size \in 1 .. MaxSize
  /\ safe

BeginAccepted(b, size, image, safe) ==
  /\ b.ota.state = "IDLE"
  /\ size \in 1 .. MaxSize
  /\ safe
  /\ VerifyRelease(image)

OtaBegin(b, size, image, safe, flash) ==
  IF ~BeginAccepted(b, size, image, safe) \/ ~MayErase(b) \/ flash = "refused" THEN b
  ELSE IF flash = "spoiled" THEN Erased(b)
  ELSE [Erased(b) EXCEPT !.ota = Receiving(size, image)]

ChunkAccepted(b, offset) ==
  offset = b.ota.bytes_received /\ b.ota.bytes_received < b.ota.image_size

OtaChunk(b, offset, block, flash) ==
  IF b.ota.state # "RECEIVING" THEN b
  ELSE IF ~ChunkAccepted(b, offset) \/ flash # "done" THEN Failed(b)
  ELSE [Written(b, block) EXCEPT
          !.ota.bytes_received = @ + 1,
          !.ota.running_hash = Append(@, block)]

AllReceived(b) == b.ota.state = "RECEIVING" /\ b.ota.bytes_received = b.ota.image_size

\* Mutant: commit takes the bytes it has received for the declared image.
HashUnchecked(b) == TRUE

HashMatches(b) == \E image \in b.ota.declared : b.ota.running_hash = Whole(image)

OtaCommit(b, flash) ==
  IF ~AllReceived(b) THEN b
  ELSE IF ~HashMatches(b) \/ flash # "done" THEN Failed(b)
  ELSE [Finalized(b) EXCEPT !.ota.state = "COMMITTED"]

\* What finalize has switched stays switched.
OtaAbort(b) ==
  [b EXCEPT !.ota.state = "IDLE", !.ota.image_size = 0, !.ota.bytes_received = 0]

RebootAccepted(b, safe) == b.ota.state = "COMMITTED" /\ safe

OtaReboot(b, safe) == IF RebootAccepted(b, safe) THEN Rebooted(b) ELSE b
=============================================================================

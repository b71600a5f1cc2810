---------------------------- MODULE UpdateProofs ----------------------------
(***************************************************************************)
(* The safety of an update for any images, sizes, phones and schedule of   *)
(* requests, flash failures and power cuts: the running firmware stays     *)
(* whole and signed, and COMMITTED means what it says.                     *)
(*                                                                         *)
(* The three are not inductive by themselves.  A reset may run the other   *)
(* partition: the one the bootloader was told to pick, whose bytes a       *)
(* commit has compared with their signed digest unless they were written   *)
(* anew since, or the predecessor of a firmware on trial, so no transfer   *)
(* may have been accepted meanwhile.                                       *)
(***************************************************************************)
EXTENDS Update, TLAPS

\* The bootloader's choice is the running slot, unless an update awaits.
MarksAgree(b) ==
  /\ b.boot.mark # "new" => b.boot.slot = b.running
  /\ b.boot.mark = "new" => b.boot.slot = UpdateSlot(b)

\* A firmware on trial has its predecessor, whole, to fall back to, and accepts
\* no transfer.
FallsBack(b) ==
  b.boot.mark = "pending" => b.ota.state = "IDLE" /\ Bootable(b, UpdateSlot(b))

\* What has been hashed is what has been written.
Streaming(b) ==
  b.ota.state = "RECEIVING" =>
    b.slots[UpdateSlot(b)] = b.ota.running_hash /\ b.ota.declared \subseteq Signed

Staged(b) ==
  b.ota.state = "COMMITTED" =>
    /\ b.boot.slot = UpdateSlot(b)
    /\ \E image \in b.ota.declared \cap Signed : b.slots[b.boot.slot] = Whole(image)

Within(b) == b.ota.bytes_received <= b.ota.image_size

Sound(b) ==
  /\ b \in OtaBoard
  /\ Within(b)
  /\ MarksAgree(b)
  /\ FallsBack(b)
  /\ Streaming(b)
  /\ Staged(b)
  /\ Bootable(b, b.running)

\* An upload carries one file.
LoopOK(loop) ==
  /\ loop.at # "none" => \E file \in Files : loop.bundle = {file}
  /\ loop.at = "chunks" => \A file \in loop.bundle : loop.offset < Size[file.image]

ScreenOK(s) == s \in Screen /\ LoopOK(s.loop)

Uploads == \A p \in Phones : LoopOK(screen[p].loop)

IInv == TypeOK /\ Sound(board) /\ Uploads

-----------------------------------------------------------------------------
(* The two slots, and images                                               *)

LEMMA OtherSlot ==
  ASSUME NEW s \in Slots
  PROVE  /\ Other(s) \in Slots
         /\ Other(s) # s
         /\ Other(Other(s)) = s
         /\ \A t \in Slots : t = s \/ t = Other(s)
<1>1. \E t \in Slots : t # s
  BY DEF Slots
<1>2. Other(s) \in Slots /\ Other(s) # s
  BY <1>1 DEF Other
<1>3. \E t \in Slots : t # Other(s)
  BY <1>2
<1>4. Other(Other(s)) \in Slots /\ Other(Other(s)) # Other(s)
  BY <1>3 DEF Other
<1> QED BY <1>2, <1>4 DEF Slots

LEMMA WholeIsSeq ==
  ASSUME NEW image \in Images
  PROVE  /\ Whole(image) \in Seq(Block)
         /\ Len(Whole(image)) = Size[image]
         /\ DOMAIN Whole(image) = 1 .. Size[image]
         /\ 1 \in DOMAIN Whole(image)
         /\ \A k \in DOMAIN Whole(image) : Whole(image)[k] = <<image, k>>
<1>1. Size[image] \in Nat \ {0}
  BY OtaAssumption
<1>2. \A k \in 1 .. Size[image] : <<image, k>> \in Block
  BY DEF Block
<1>3. Whole(image) \in [1 .. Size[image] -> Block]
  BY <1>2 DEF Whole
<1> QED BY <1>1, <1>3 DEF Whole

LEMMA WholeOnce ==
  ASSUME NEW image \in Images, NEW other \in Images, Whole(image) = Whole(other)
  PROVE  image = other
<1>1. Whole(image)[1] = <<image, 1>> /\ Whole(other)[1] = <<other, 1>>
  BY WholeIsSeq
<1> QED BY <1>1

LEMMA FieldsOf ==
  ASSUME NEW b \in OtaBoard
  PROVE  /\ b = [ota |-> b.ota, slots |-> b.slots, boot |-> b.boot, running |-> b.running]
         /\ b.ota \in OtaRecord /\ b.slots \in [Slots -> Seq(Block)]
         /\ b.boot \in BootRecord /\ b.running \in Slots
         /\ UpdateSlot(b) \in Slots /\ UpdateSlot(b) # b.running
         /\ Other(UpdateSlot(b)) = b.running
BY OtherSlot DEF OtaBoard, UpdateSlot

-----------------------------------------------------------------------------
(* Every handler leaves a sound board                                      *)

LEMMA BeginSound ==
  ASSUME NEW b, Sound(b), NEW size \in Nat, NEW image \in Images, NEW safely,
         NEW outcome
  PROVE  LET r == OtaBegin(b, size, image, safely, outcome)
         IN  Sound(r)
<1> DEFINE r == OtaBegin(b, size, image, safely, outcome)
           e == Erased(b)
<1> SUFFICES ASSUME r # b
             PROVE  Sound(r)
  BY DEF Sound, OtaBegin
<1> USE DEF Sound
<1>1. /\ b.ota.state = "IDLE" /\ image \in Signed /\ b.boot.mark # "pending"
      /\ r = e \/ r = [e EXCEPT !.ota = Receiving(size, image)]
  BY DEF OtaBegin, BeginAccepted, VerifyRelease, MayErase
<1>2. /\ e \in OtaBoard /\ e.ota = b.ota /\ e.boot = b.boot /\ e.running = b.running
      /\ e.slots[UpdateSlot(b)] = <<>>
      /\ \A s \in Slots : s # UpdateSlot(b) => e.slots[s] = b.slots[s]
  <2>1. e = [b EXCEPT !.slots = [b.slots EXCEPT ![UpdateSlot(b)] = <<>>]]
    BY FieldsOf DEF Erased
  <2> DEFINE wiped == [b.slots EXCEPT ![UpdateSlot(b)] = <<>>]
  <2>2. /\ wiped \in [Slots -> Seq(Block)]
        /\ wiped[UpdateSlot(b)] = <<>>
        /\ \A s \in Slots : s # UpdateSlot(b) => wiped[s] = b.slots[s]
    BY FieldsOf
  <2>3. e = [ota |-> b.ota, slots |-> wiped, boot |-> b.boot, running |-> b.running]
    BY <2>1, FieldsOf
  <2> HIDE DEF wiped
  <2>4. e \in OtaBoard
    BY <2>2, <2>3, FieldsOf DEF OtaBoard
  <2> QED BY <2>2, <2>3, <2>4
<1>3. Receiving(size, image) \in OtaRecord
  BY DEF Receiving, OtaRecord, OtaStates
<1>4. /\ r \in OtaBoard /\ r.boot = b.boot /\ r.running = b.running
      /\ r.slots = e.slots
      /\ r.ota = b.ota \/ r.ota = Receiving(size, image)
  BY <1>1, <1>2, <1>3 DEF OtaBoard
<1>5. UpdateSlot(r) = UpdateSlot(b)
  BY <1>4 DEF UpdateSlot
<1>6. MarksAgree(r) /\ FallsBack(r) /\ Staged(r)
  BY <1>1, <1>4, <1>5 DEF MarksAgree, FallsBack, Staged, Receiving
<1>7. Streaming(r)
  BY <1>1, <1>2, <1>4, <1>5 DEF Streaming, Receiving
<1>9. Bootable(r, r.running)
  BY <1>2, <1>4, FieldsOf DEF Bootable
<1>10. Within(r)
  BY <1>4 DEF Within, Receiving
<1> QED BY <1>1, <1>4, <1>6, <1>7, <1>9, <1>10

\* Failing touches the state alone.
LEMMA FailedSound ==
  ASSUME NEW b, Sound(b), b.ota.state = "RECEIVING"
  PROVE  Sound(Failed(b))
<1> DEFINE r == Failed(b)
<1> USE DEF Sound
<1>1. /\ r \in OtaBoard /\ r.slots = b.slots /\ r.boot = b.boot
      /\ r.running = b.running /\ r.ota.state = "ERROR" /\ Within(r)
  BY FieldsOf DEF Failed, OtaBoard, OtaRecord, OtaStates, Within
<1>2. UpdateSlot(r) = UpdateSlot(b)
  BY <1>1 DEF UpdateSlot
<1> QED BY <1>1, <1>2
        DEF MarksAgree, FallsBack, Streaming, Staged, Bootable

LEMMA AbortSound ==
  ASSUME NEW b, Sound(b)
  PROVE  Sound(OtaAbort(b))
<1> DEFINE r == OtaAbort(b)
<1> USE DEF Sound
<1>1. /\ r \in OtaBoard /\ r.slots = b.slots /\ r.boot = b.boot
      /\ r.running = b.running /\ r.ota.state = "IDLE" /\ Within(r)
  <2>1. /\ r \in OtaBoard /\ r.slots = b.slots /\ r.boot = b.boot
        /\ r.running = b.running /\ r.ota.state = "IDLE"
    BY FieldsOf DEF OtaAbort, OtaBoard, OtaRecord, OtaStates
  <2>2. r.ota.bytes_received = 0 /\ r.ota.image_size = 0
    BY FieldsOf DEF OtaAbort, OtaBoard, OtaRecord
  <2> QED BY <2>1, <2>2 DEF Within
<1>2. UpdateSlot(r) = UpdateSlot(b)
  BY <1>1 DEF UpdateSlot
<1> QED BY <1>1, <1>2
        DEF MarksAgree, FallsBack, Streaming, Staged, Bootable

LEMMA ChunkSound ==
  ASSUME NEW b, Sound(b), NEW offset, NEW block \in Block, NEW outcome
  PROVE  Sound(OtaChunk(b, offset, block, outcome))
<1> DEFINE r == OtaChunk(b, offset, block, outcome)
           w == Written(b, block)
<1> USE DEF Sound
<1>1. CASE b.ota.state # "RECEIVING"
  BY <1>1 DEF OtaChunk
<1>2. CASE b.ota.state = "RECEIVING" /\ r = Failed(b)
  BY <1>2, FailedSound
<1>3. CASE /\ b.ota.state = "RECEIVING" /\ ChunkAccepted(b, offset)
           /\ r = [w EXCEPT !.ota.bytes_received = @ + 1,
                            !.ota.running_hash = Append(@, block)]
  <2> DEFINE old == b.slots[UpdateSlot(b)]
  <2>1. old \in Seq(Block) /\ Append(old, block) \in Seq(Block)
    BY FieldsOf
  <2>2. /\ w = [b EXCEPT !.slots = [b.slots EXCEPT ![UpdateSlot(b)] = Append(old, block)]]
        /\ [b.slots EXCEPT ![UpdateSlot(b)] = Append(old, block)] \in [Slots -> Seq(Block)]
    BY <2>1, FieldsOf DEF Written
  <2>3. /\ w.ota = b.ota /\ w.boot = b.boot /\ w.running = b.running
        /\ w.slots = [b.slots EXCEPT ![UpdateSlot(b)] = Append(old, block)]
        /\ w \in OtaBoard
    BY <2>2, FieldsOf DEF OtaBoard
  <2>4. /\ r.slots = w.slots /\ r.boot = b.boot /\ r.running = b.running
        /\ r.ota = [b.ota EXCEPT !.bytes_received = @ + 1,
                                 !.running_hash = Append(@, block)]
        /\ r = [ota |-> r.ota, slots |-> r.slots, boot |-> r.boot, running |-> r.running]
    BY <1>3, <2>3 DEF OtaBoard
  <2>5. /\ r.ota.state = "RECEIVING" /\ r.ota.declared = b.ota.declared
        /\ r.ota.running_hash = Append(b.ota.running_hash, block)
        /\ r.ota \in OtaRecord /\ Within(r)
    <3>1. /\ b.ota.bytes_received + 1 \in Nat
          /\ Append(b.ota.running_hash, block) \in Seq(Block)
      BY FieldsOf DEF OtaRecord
    <3>2. r.ota = [ state          |-> b.ota.state,
                    image_size     |-> b.ota.image_size,
                    bytes_received |-> b.ota.bytes_received + 1,
                    declared       |-> b.ota.declared,
                    running_hash   |-> Append(b.ota.running_hash, block) ]
      BY <2>4, FieldsOf DEF OtaRecord
    <3>3. r.ota \in OtaRecord
      BY <3>1, <3>2, FieldsOf DEF OtaRecord
    <3>4. b.ota.state = "RECEIVING"
      BY <1>3
    <3>5. b.ota.bytes_received < b.ota.image_size /\ b.ota.image_size \in Nat
          /\ b.ota.bytes_received \in Nat
      BY <1>3, FieldsOf DEF ChunkAccepted, OtaRecord
    <3> HIDE DEF r
    <3>6. Within(r)
      BY <3>2, <3>5 DEF Within
    <3>7. /\ r.ota.state = b.ota.state /\ r.ota.declared = b.ota.declared
          /\ r.ota.running_hash = Append(b.ota.running_hash, block)
      BY <3>2
    <3> QED BY <3>3, <3>4, <3>6, <3>7
  <2>6. r \in OtaBoard /\ Within(r)
    BY <2>2, <2>3, <2>4, <2>5, FieldsOf DEF OtaBoard
  <2>7. UpdateSlot(r) = UpdateSlot(b)
    BY <2>4 DEF UpdateSlot
  <2>8. /\ r.slots[UpdateSlot(b)] = Append(old, block)
        /\ \A s \in Slots : s # UpdateSlot(b) => r.slots[s] = b.slots[s]
    BY <2>3, <2>4, FieldsOf
  <2>9. MarksAgree(r) /\ FallsBack(r) /\ Staged(r)
    BY <1>3, <2>4, <2>5, <2>7 DEF MarksAgree, FallsBack, Staged
  <2>10. Streaming(r)
    BY <1>3, <2>5, <2>7, <2>8 DEF Streaming
  <2>12. Bootable(r, r.running)
    BY <2>4, <2>8, FieldsOf DEF Bootable
  <2> QED BY <2>6, <2>9, <2>10, <2>12
<1> QED BY <1>1, <1>2, <1>3 DEF OtaChunk

LEMMA CommitSound ==
  ASSUME NEW b, Sound(b), NEW outcome
  PROVE  Sound(OtaCommit(b, outcome))
<1> DEFINE r == OtaCommit(b, outcome)
<1> USE DEF Sound
<1>1. CASE r = b
  BY <1>1
<1>2. CASE AllReceived(b) /\ r = Failed(b)
  BY <1>2, FailedSound DEF AllReceived
<1>3. CASE /\ AllReceived(b) /\ HashMatches(b)
           /\ r = [Finalized(b) EXCEPT !.ota.state = "COMMITTED"]
  <2>1. [slot |-> UpdateSlot(b), mark |-> "new"] \in BootRecord
    BY FieldsOf DEF BootRecord
  <2>2. /\ r \in OtaBoard /\ r.slots = b.slots /\ r.running = b.running
        /\ r.boot = [slot |-> UpdateSlot(b), mark |-> "new"]
        /\ r.ota.state = "COMMITTED" /\ r.ota.declared = b.ota.declared
        /\ Within(r)
    <3>1. Finalized(b) = [ota     |-> b.ota, slots |-> b.slots,
                          boot    |-> [slot |-> UpdateSlot(b), mark |-> "new"],
                          running |-> b.running]
      BY FieldsOf DEF Finalized
    <3>2. r = [ota     |-> [b.ota EXCEPT !.state = "COMMITTED"], slots |-> b.slots,
               boot    |-> [slot |-> UpdateSlot(b), mark |-> "new"],
               running |-> b.running]
      BY <1>3, <3>1
    <3>3. [b.ota EXCEPT !.state = "COMMITTED"] \in OtaRecord
      BY FieldsOf DEF OtaRecord, OtaStates
    <3>4. b.ota \in OtaRecord /\ b.slots \in [Slots -> Seq(Block)] /\ b.running \in Slots
      BY FieldsOf
    <3> HIDE DEF r
    <3>5. r \in OtaBoard
      BY <2>1, <3>2, <3>3, <3>4 DEF OtaBoard
    <3>6. /\ r.ota.state = "COMMITTED" /\ r.ota.declared = b.ota.declared
          /\ r.ota.bytes_received = b.ota.bytes_received
          /\ r.ota.image_size = b.ota.image_size
      BY <3>2, <3>4 DEF OtaRecord
    <3> QED BY <3>2, <3>5, <3>6 DEF Within
  <2>3. UpdateSlot(r) = UpdateSlot(b)
    BY <2>2 DEF UpdateSlot
  <2>4. \E image \in b.ota.declared \cap Signed : b.slots[UpdateSlot(b)] = Whole(image)
    BY <1>3 DEF AllReceived, HashMatches, Streaming
  <2> QED BY <2>2, <2>3, <2>4
          DEF MarksAgree, FallsBack, Streaming, Staged, Bootable
<1> QED BY <1>1, <1>2, <1>3 DEF OtaCommit

LEMMA RebootSound ==
  ASSUME NEW b, Sound(b)
  PROVE  Sound(Rebooted(b))
<1> DEFINE picked == b.boot.slot
           kept   == b.boot.mark # "pending" /\ Bootable(b, picked)
           slot   == IF kept THEN picked ELSE Other(picked)
           mark   == IF kept /\ b.boot.mark = "new" THEN "pending" ELSE "valid"
           r      == Rebooted(b)
<1> USE DEF Sound
<1>1. slot \in Slots /\ mark \in {"valid", "pending"} /\ Other(slot) \in Slots
  BY FieldsOf, OtherSlot DEF BootRecord
<1>2. r = [ota     |-> InitOta, slots |-> b.slots,
           boot    |-> [slot |-> slot, mark |-> mark], running |-> slot]
  <2>1. r = [b EXCEPT !.ota = InitOta, !.running = slot,
                      !.boot = [slot |-> slot, mark |-> mark]]
    BY DEF Rebooted
  <2>2. b = [ota |-> b.ota, slots |-> b.slots, boot |-> b.boot, running |-> b.running]
    BY FieldsOf
  <2> HIDE DEF slot, mark, r
  <2> QED BY ONLY <2>1, <2>2
<1>3. InitOta \in OtaRecord /\ InitOta.state = "IDLE"
  BY DEF InitOta, OtaRecord, OtaStates
<1>4. Bootable(b, slot)
  <2>1. CASE kept
    BY <2>1
  <2>2. CASE ~kept /\ b.boot.mark = "pending"
    <3>1. picked = b.running
      BY <2>2 DEF MarksAgree
    <3> QED BY <2>2, <3>1 DEF FallsBack, UpdateSlot
  <2>3. CASE ~kept /\ b.boot.mark = "new"
    BY <2>3, FieldsOf DEF MarksAgree
  <2>4. CASE ~kept /\ b.boot.mark = "valid"
    BY <2>4 DEF MarksAgree
  <2> QED BY <2>1, <2>2, <2>3, <2>4, FieldsOf DEF BootRecord
<1>5. mark = "pending" => Bootable(b, Other(slot))
  BY FieldsOf DEF MarksAgree
<1> HIDE DEF slot, mark
<1>6. r \in OtaBoard
  BY <1>1, <1>2, <1>3, FieldsOf DEF OtaBoard, BootRecord
<1>7. UpdateSlot(r) = Other(slot)
  BY <1>2 DEF UpdateSlot
<1>8. MarksAgree(r) /\ Streaming(r) /\ Staged(r)
  BY <1>1, <1>2, <1>3 DEF MarksAgree, Streaming, Staged
<1>9. FallsBack(r) /\ Bootable(r, r.running)
  BY <1>2, <1>3, <1>4, <1>5, <1>7 DEF FallsBack, Bootable
<1>11. Within(r)
  BY <1>2 DEF Within, InitOta
<1> QED BY <1>6, <1>8, <1>9, <1>11

LEMMA ConfirmedSound ==
  ASSUME NEW b, Sound(b)
  PROVE  Sound(Confirmed(b))
<1> DEFINE r == Confirmed(b)
<1> USE DEF Sound
<1> SUFFICES ASSUME b.boot.mark = "pending"
             PROVE  Sound(r)
  BY DEF Confirmed
<1>1. /\ r = [ota     |-> b.ota, slots |-> b.slots,
             boot    |-> [slot |-> b.boot.slot, mark |-> "valid"], running |-> b.running]
      /\ b.boot.slot \in Slots
  <2>1. /\ b.boot.slot \in Slots
        /\ b.boot = [slot |-> b.boot.slot, mark |-> "pending"]
    BY FieldsOf DEF BootRecord
  <2>2. [b.boot EXCEPT !.mark = "valid"] = [slot |-> b.boot.slot, mark |-> "valid"]
    BY <2>1
  <2>3. r = [b EXCEPT !.boot = [b.boot EXCEPT !.mark = "valid"]]
    BY DEF Confirmed
  <2> HIDE DEF r
  <2> QED BY <2>1, <2>2, <2>3, FieldsOf
<1>2. r \in OtaBoard
  BY <1>1, FieldsOf DEF OtaBoard, BootRecord
<1>3. UpdateSlot(r) = UpdateSlot(b)
  BY <1>1 DEF UpdateSlot
<1> QED BY <1>1, <1>2, <1>3
        DEF MarksAgree, FallsBack, Streaming, Staged, Bootable, Within

-----------------------------------------------------------------------------
(* Every step keeps the invariant                                          *)

LEMMA SoundTypes ==
  ASSUME IInv
  PROVE  /\ Sound(board) /\ board \in OtaBoard
         /\ board.ota = ota /\ board.slots = slots
         /\ board.boot = boot /\ board.running = running
BY DEF IInv, Sound, board

\* A step that turns the board into a sound one.
LEMMA Landing ==
  ASSUME NEW b, Sound(b), Becomes(b)
  PROVE  /\ Sound(board')
         /\ ota' \in OtaRecord /\ slots' \in [Slots -> Seq(Block)]
         /\ boot' \in BootRecord /\ running' \in Slots
<1>1. b \in OtaBoard
  BY DEF Sound
<1>2. board' = b
  BY <1>1, FieldsOf DEF Becomes, board
<1> QED BY <1>1, <1>2, FieldsOf DEF Becomes

LEMMA Standing ==
  ASSUME IInv, UNCHANGED <<ota, slots, boot, running>>
  PROVE  /\ Sound(board')
         /\ ota' \in OtaRecord /\ slots' \in [Slots -> Seq(Block)]
         /\ boot' \in BootRecord /\ running' \in Slots
BY DEF IInv, TypeOK, board

LEMMA OneScreen ==
  ASSUME IInv, NEW p \in Phones, NEW s, ScreenOK(s),
         screen' = [screen EXCEPT ![p] = s]
  PROVE  screen' \in [Phones -> Screen] /\ Uploads'
BY DEF IInv, TypeOK, Uploads, ScreenOK

LEMMA OverScreen ==
  ASSUME NEW phase \in Phases
  PROVE  ScreenOK([phase |-> phase, loop |-> NoLoop])
BY DEF ScreenOK, LoopOK, NoLoop, Screen, Loops

LEMMA StopScreen ==
  ASSUME IInv, NEW p \in Phones, Stop(p)
  PROVE  screen' \in [Phones -> Screen] /\ Uploads'
BY OverScreen, OneScreen DEF Stop, Phases

LEMMA GoOnScreen ==
  ASSUME IInv, NEW p \in Phones, NEW at \in Loops, NEW offset \in Nat,
         screen[p].loop.at # "none",
         at = "chunks" => \A file \in screen[p].loop.bundle : offset < Size[file.image],
         GoOn(p, at, offset)
  PROVE  screen' \in [Phones -> Screen] /\ Uploads'
<1> DEFINE s == [phase |-> screen[p].phase,
                 loop  |-> [at |-> at, offset |-> offset, bundle |-> screen[p].loop.bundle]]
<1>1. screen[p] \in Screen /\ LoopOK(screen[p].loop)
  BY DEF IInv, TypeOK, Uploads
<1>2. ScreenOK(s)
  BY <1>1 DEF ScreenOK, LoopOK, Screen
<1>3. screen' = [screen EXCEPT ![p] = s]
  <2>1. [screen[p] EXCEPT !.loop = s.loop] = s
    BY <1>1 DEF Screen
  <2>2. screen' = [screen EXCEPT ![p] = [screen[p] EXCEPT !.loop = s.loop]]
    BY <1>1 DEF GoOn, IInv, TypeOK
  <2> QED BY <2>1, <2>2
<1> QED BY <1>2, <1>3, OneScreen

LEMMA CutScreens ==
  ASSUME IInv, LinksCut
  PROVE  screen' \in [Phones -> Screen] /\ Uploads'
<1>1. \A p \in Phones : screen[p] \in Screen /\ LoopOK(screen[p].loop)
  BY DEF IInv, TypeOK, Uploads
<1>2. \A p \in Phones : ScreenOK(Cut(screen[p]))
  BY <1>1, OverScreen DEF Cut, ScreenOK, Phases
<1> QED BY <1>2 DEF LinksCut, Uploads, ScreenOK

\* The one file of a running upload.
LEMMA BundleOf ==
  ASSUME IInv, NEW p \in Phones, screen[p].loop.at # "none"
  PROVE  /\ Bundle(p).header \in Images /\ Bundle(p).image \in Images
         /\ screen[p].loop.bundle = {Bundle(p)}
         /\ Size[Bundle(p).image] \in Nat \ {0}
         /\ screen[p].loop.offset \in Nat
BY OtaAssumption DEF IInv, TypeOK, Uploads, LoopOK, Bundle, Screen, Files

LEMMA InitInv == Init => IInv
<1> SUFFICES ASSUME Init
             PROVE  IInv
  OBVIOUS
<1>1. Factory \in Images /\ Factory \in Signed /\ Whole(Factory) \in Seq(Block)
  BY OtaAssumption, UpdateAssumption, WholeIsSeq
<1>2. "ota_0" \in Slots /\ <<>> \in Seq(Block)
  BY DEF Slots
<1>3. TypeOK
  <2>1. ota \in OtaRecord
    BY DEF Init, InitOta, OtaRecord, OtaStates
  <2>2. slots \in [Slots -> Seq(Block)] /\ boot \in BootRecord /\ running \in Slots
    BY <1>1, <1>2 DEF Init, BootRecord
  <2>3. screen \in [Phones -> Screen]
    BY OverScreen DEF Init, Idle, Phases, ScreenOK
  <2>4. ota.bytes_received <= ota.image_size
    BY DEF Init, InitOta
  <2> QED BY <1>2, <2>1, <2>2, <2>3, <2>4 DEF Init, TypeOK
<1>4. Uploads
  BY OverScreen DEF Init, Idle, Phases, ScreenOK, Uploads
<1>5. board \in OtaBoard
  BY <1>3 DEF TypeOK, OtaBoard, board
<1>7. Bootable(board, board.running)
  BY <1>1, <1>2 DEF Init, Bootable, board
<1>8. MarksAgree(board) /\ FallsBack(board) /\ Streaming(board) /\ Staged(board)
  BY DEF Init, InitOta, board, MarksAgree, FallsBack, Streaming, Staged
<1>9. Within(board)
  BY <1>3 DEF TypeOK, Within, board
<1> QED BY <1>3, <1>4, <1>5, <1>7, <1>8, <1>9 DEF IInv, Sound

\* What is left to show of a step once its board and its screens are known.
LEMMA Assembled ==
  ASSUME Sound(board'), up' \in BOOLEAN, safe' \in BOOLEAN,
         proven' \subseteq Slots, rewritten' \subseteq Slots,
         ota' \in OtaRecord /\ slots' \in [Slots -> Seq(Block)],
         boot' \in BootRecord /\ running' \in Slots,
         screen' \in [Phones -> Screen] /\ Uploads'
  PROVE  IInv'
<1>1. ota'.bytes_received <= ota'.image_size
  BY DEF Sound, Within, board
<1> QED BY <1>1 DEF IInv, TypeOK

\* A request handled with the phone's screen left in order.
LEMMA HandledInv ==
  ASSUME IInv, NEW b, Sound(b), Handled(b), UNCHANGED <<up, safe>>,
         screen' \in [Phones -> Screen] /\ Uploads'
  PROVE  IInv'
<1>1. proven' \subseteq Slots /\ rewritten' \subseteq Slots
  BY DEF Handled, IInv, TypeOK, BootRecord
<1>2. Becomes(b)
  BY DEF Handled
<1>3. up' \in BOOLEAN /\ safe' \in BOOLEAN
  BY DEF IInv, TypeOK
<1> QED BY <1>1, <1>2, <1>3, Landing, Assembled

LEMMA BeginStep ==
  ASSUME IInv, NEW p \in Phones, NEW outcome, NEW reply, SendBegin(p, outcome, reply)
  PROVE  IInv'
<1> DEFINE file  == Bundle(p)
           after == OtaBegin(board, Size[file.image], file.header, safe, outcome)
<1>1. /\ screen[p].loop.at = "begin" /\ Handled(after) /\ UNCHANGED <<up, safe>>
      /\ \/ /\ after.ota.state = "RECEIVING" /\ ota.state = "IDLE"
            /\ GoOn(p, "chunks", 0)
         \/ Stop(p)
  BY DEF SendBegin
<1>2. /\ file.header \in Images /\ screen[p].loop.bundle = {file}
      /\ Size[file.image] \in Nat /\ 0 < Size[file.image]
  BY <1>1, BundleOf
<1>3. Sound(after)
  BY <1>2, SoundTypes, BeginSound
<1>4. screen' \in [Phones -> Screen] /\ Uploads'
  <2>1. CASE Stop(p)
    BY <2>1, StopScreen
  <2>2. CASE /\ after.ota.state = "RECEIVING" /\ ota.state = "IDLE"
             /\ GoOn(p, "chunks", 0)
    BY <1>1, <1>2, <1>3, <2>2, GoOnScreen DEF Loops
  <2> QED BY <1>1, <2>1, <2>2
<1> HIDE DEF after
<1> QED BY <1>1, <1>3, <1>4, HandledInv

LEMMA ChunkStep ==
  ASSUME IInv, NEW p \in Phones, NEW outcome, NEW reply, SendChunk(p, outcome, reply)
  PROVE  IInv'
<1> DEFINE offset == screen[p].loop.offset
           file   == Bundle(p)
           image  == file.image
           last   == offset + 1 = Size[image]
           after  == OtaChunk(board, offset, <<image, offset + 1>>, outcome)
<1>1. /\ screen[p].loop.at = "chunks" /\ Handled(after) /\ UNCHANGED <<up, safe>>
      /\ \/ GoOn(p, IF last THEN "commit" ELSE "chunks", offset + 1)
         \/ Stop(p)
  BY DEF SendChunk
<1>2. /\ image \in Images /\ screen[p].loop.bundle = {file}
      /\ Size[image] \in Nat /\ offset \in Nat
  BY <1>1, BundleOf
<1>3. offset < Size[image]
  BY <1>1, <1>2 DEF IInv, Uploads, LoopOK
<1>4. <<image, offset + 1>> \in Block
  BY <1>2, <1>3 DEF Block
<1>5. Sound(after)
  BY <1>4, SoundTypes, ChunkSound
<1>6. screen' \in [Phones -> Screen] /\ Uploads'
  <2>1. CASE Stop(p)
    BY <2>1, StopScreen
  <2>2. CASE GoOn(p, IF last THEN "commit" ELSE "chunks", offset + 1)
    <3> DEFINE at == IF last THEN "commit" ELSE "chunks"
    <3>1. /\ at \in Loops /\ offset + 1 \in Nat /\ screen[p].loop.at # "none"
          /\ at = "chunks" => offset + 1 < Size[image]
      BY <1>1, <1>2, <1>3 DEF Loops
    <3>2. at = "chunks" => \A f \in screen[p].loop.bundle : offset + 1 < Size[f.image]
      BY <1>2, <1>3, <3>1
    <3> HIDE DEF at
    <3> QED BY <2>2, <3>1, <3>2, GoOnScreen DEF at
  <2> QED BY <1>1, <2>1, <2>2
<1> HIDE DEF after
<1> QED BY <1>1, <1>5, <1>6, HandledInv

LEMMA CommitStep ==
  ASSUME IInv, NEW p \in Phones, NEW outcome, NEW reply, SendCommit(p, outcome, reply)
  PROVE  IInv'
<1> DEFINE after == OtaCommit(board, outcome)
<1>1. /\ Handled(after) /\ UNCHANGED <<up, safe>>
      /\ \/ screen' = [screen EXCEPT ![p] = [phase |-> "ready", loop |-> NoLoop]]
         \/ Stop(p)
  BY DEF SendCommit
<1>2. Sound(after)
  BY SoundTypes, CommitSound
<1>3. screen' \in [Phones -> Screen] /\ Uploads'
  BY <1>1, StopScreen, OverScreen, OneScreen DEF Phases
<1> HIDE DEF after
<1> QED BY <1>1, <1>2, <1>3, HandledInv

LEMMA AbortStep ==
  ASSUME IInv, NEW p \in Phones, NEW sent \in BOOLEAN, Abort(p, sent)
  PROVE  IInv'
<1> DEFINE after == IF sent THEN OtaAbort(board) ELSE board
           s     == [phase |-> "idle", loop |-> screen[p].loop]
<1>1. /\ Handled(after) /\ UNCHANGED <<up, safe>>
      /\ screen' = [screen EXCEPT ![p].phase = "idle"]
  BY DEF Abort
<1>2. Sound(after)
  BY SoundTypes, AbortSound
<1>3. screen[p] \in Screen /\ LoopOK(screen[p].loop)
  BY DEF IInv, TypeOK, Uploads
<1>4. ScreenOK(s)
  BY <1>3 DEF ScreenOK, Screen, Phases
<1>5. screen' = [screen EXCEPT ![p] = s]
  <2>1. [screen[p] EXCEPT !.phase = "idle"] = s
    BY <1>3 DEF Screen
  <2>2. screen' = [screen EXCEPT ![p] = [screen[p] EXCEPT !.phase = "idle"]]
    BY <1>1 DEF IInv, TypeOK
  <2> QED BY <2>1, <2>2
<1>6. screen' \in [Phones -> Screen] /\ Uploads'
  BY <1>4, <1>5, OneScreen
<1> HIDE DEF after, s
<1> QED BY <1>1, <1>2, <1>6, HandledInv

LEMMA ResetStep ==
  ASSUME IInv, Becomes(Rebooted(board)), up' = FALSE, LinksCut,
         UNCHANGED <<safe, proven, rewritten>>
  PROVE  IInv'
<1>1. Sound(Rebooted(board))
  BY SoundTypes, RebootSound
<1>2. safe' \in BOOLEAN /\ proven' \subseteq Slots /\ rewritten' \subseteq Slots
  BY DEF IInv, TypeOK
<1> QED BY <1>1, <1>2, Landing, CutScreens, Assembled

LEMMA BootStep ==
  ASSUME IInv, BootComplete
  PROVE  IInv'
<1>1. Sound(Confirmed(board)) /\ Becomes(Confirmed(board))
  BY SoundTypes, ConfirmedSound DEF BootComplete
<1>2. (proven' \subseteq Slots /\ rewritten' \subseteq Slots) /\ safe' \in BOOLEAN /\ up' \in BOOLEAN
  BY DEF BootComplete, IInv, TypeOK
<1>3. screen' \in [Phones -> Screen] /\ Uploads'
  BY DEF BootComplete, IInv, TypeOK, Uploads
<1> QED BY <1>1, <1>2, <1>3, Landing, Assembled

\* A step of a screen that does not reach the board.
LEMMA ScreenStep ==
  ASSUME IInv, screen' \in [Phones -> Screen] /\ Uploads',
         UNCHANGED <<ota, flash, up, safe>>
  PROVE  IInv'
<1>1. UNCHANGED <<ota, slots, boot, running>>
  BY DEF flash
<1>2. (proven' \subseteq Slots /\ rewritten' \subseteq Slots) /\ safe' \in BOOLEAN /\ up' \in BOOLEAN
  BY DEF flash, IInv, TypeOK
<1> QED BY <1>1, <1>2, Standing, Assembled

LEMMA InstallStep ==
  ASSUME IInv, NEW p \in Phones, NEW file \in Bundles, Install(p, file)
  PROVE  IInv'
<1> DEFINE s == [phase |-> "uploading",
                 loop  |-> [at |-> "begin", offset |-> 0, bundle |-> {file}]]
<1>1. file \in Files
  BY UpdateAssumption
<1>2. ScreenOK(s)
  BY <1>1 DEF ScreenOK, Screen, Phases, Loops, LoopOK
<1>3. screen' = [screen EXCEPT ![p] = s] /\ UNCHANGED <<ota, flash, up, safe>>
  BY DEF Install
<1> HIDE DEF s
<1> QED BY <1>2, <1>3, OneScreen, ScreenStep

LEMMA PhoneStep ==
  ASSUME IInv, NEW p \in Phones, Phone(p)
  PROVE  IInv'
<1>1. CASE \E file \in Bundles : Install(p, file)
  BY <1>1, InstallStep
<1>2. CASE \E outcome \in FlashOutcomes, reply \in BOOLEAN :
             \/ SendBegin(p, outcome, reply)
             \/ SendChunk(p, outcome, reply)
             \/ SendCommit(p, outcome, reply)
  BY <1>2, BeginStep, ChunkStep, CommitStep
<1>3. CASE Drop(p)
  BY <1>3, StopScreen, ScreenStep DEF Drop
<1>4. CASE \E sent \in BOOLEAN : Abort(p, sent)
  BY <1>4, AbortStep
<1>5. CASE Apply(p)
  <2>1. OtaReboot(board, safe) = Rebooted(board)
    BY <1>5 DEF Apply, OtaReboot
  <2> QED BY <1>5, <2>1, ResetStep DEF Apply
<1>6. CASE Reopen(p)
  BY <1>6, OverScreen, OneScreen, ScreenStep DEF Reopen, Idle, Phases
<1> QED BY <1>1, <1>2, <1>3, <1>4, <1>5, <1>6 DEF Phone

LEMMA NextInv == IInv /\ [Next]_vars => IInv'
<1> SUFFICES ASSUME IInv, [Next]_vars
             PROVE  IInv'
  OBVIOUS
<1>1. CASE BootComplete
  BY <1>1, BootStep
<1>2. CASE PowerCut
  BY <1>2, ResetStep DEF PowerCut
<1>3. CASE Ride
  <2>1. UNCHANGED <<ota, slots, boot, running>>
    BY <1>3 DEF Ride, flash
  <2>2. (proven' \subseteq Slots /\ rewritten' \subseteq Slots) /\ safe' \in BOOLEAN /\ up' \in BOOLEAN
    BY <1>3 DEF Ride, flash, IInv, TypeOK
  <2>3. screen' \in [Phones -> Screen] /\ Uploads'
    BY <1>3 DEF Ride, IInv, TypeOK, Uploads
  <2> QED BY <2>1, <2>2, <2>3, Standing, Assembled
<1>4. CASE \E p \in Phones : Phone(p)
  BY <1>4, PhoneStep
<1>5. CASE UNCHANGED vars
  <2>1. UNCHANGED <<ota, flash, up, safe>> /\ screen' = screen
    BY <1>5 DEF vars, flash
  <2> QED BY <2>1, ScreenStep DEF IInv, TypeOK, Uploads
<1> QED BY <1>1, <1>2, <1>3, <1>4, <1>5 DEF Next

LEMMA Invariance == Spec => []IInv
BY InitInv, NextInv, PTL DEF Spec

-----------------------------------------------------------------------------
(* The theorems                                                            *)

\* The board and the screens stay well-formed, whatever the phones request.
THEOREM UpdateTypeOK == Spec => []TypeOK
<1>1. IInv => TypeOK
  BY DEF IInv
<1> QED BY <1>1, Invariance, PTL

\* Whatever the images, the phones, the order of their requests, the flash
\* failures and the resets, the partition that runs holds a whole image: an
\* update (mc_ota.c) can be interrupted at any point without a brick.
THEOREM RunningStaysIntact == Spec => []RunningIntact
<1>1. IInv => RunningIntact
  BY DEF IInv, Sound, RunningIntact, board
<1> QED BY <1>1, Invariance, PTL

\* COMMITTED means that the image whose digest was declared, and no other, is
\* what the bootloader will pick.
THEOREM CommittedIsWhole == Spec => []CommittedWhole
<1>1. IInv => CommittedWhole
  BY SoundTypes DEF IInv, Sound, Staged, CommittedWhole, board
<1> QED BY <1>1, Invariance, PTL

-----------------------------------------------------------------------------
(* Confirmation and rollback                                               *)

\* A board that is up has confirmed its firmware; a firmware that is not on
\* trial has completed a boot, and one that is has a predecessor that did.
Vouched ==
  /\ up => boot.mark # "pending"
  /\ boot.mark # "pending" => running \in proven
  /\ boot.mark = "pending" => UpdateSlot(board) \in proven

\* A whole image of the release key.
Genuine(content) == \E image \in Signed : content = Whole(image)

\* What no request can do: touch the running partition or anything of a board
\* whose firmware is on trial, put a firmware on trial, or choose what boots
\* next but by a commit.
Frame(b, r) ==
  /\ r.running = b.running
  /\ r.slots[b.running] = b.slots[b.running]
  /\ r.boot.mark = "pending" <=> b.boot.mark = "pending"
  /\ b.boot.mark = "pending" => r.slots = b.slots
  /\ \/ r.boot = b.boot /\ (r.ota.state = "COMMITTED" => b.ota.state = "COMMITTED")
     \/ /\ r.ota.state = "COMMITTED" /\ b.ota.state # "COMMITTED"
        /\ r.slots = b.slots /\ r.boot.mark = "new" /\ Genuine(r.slots[r.boot.slot])

LEMMA BeginFrame ==
  ASSUME NEW b \in OtaBoard, NEW size, NEW image, NEW safely, NEW outcome
  PROVE  Frame(b, OtaBegin(b, size, image, safely, outcome))
<1> DEFINE r == OtaBegin(b, size, image, safely, outcome)
           e == Erased(b)
<1>1. CASE r = b
  BY <1>1 DEF Frame
<1>2. CASE /\ MayErase(b)
           /\ r = e \/ r = [e EXCEPT !.ota = Receiving(size, image)]
  <2>1. /\ e \in OtaBoard /\ e.boot = b.boot /\ e.running = b.running
        /\ e.slots[b.running] = b.slots[b.running]
    <3> DEFINE wiped == [b.slots EXCEPT ![UpdateSlot(b)] = <<>>]
    <3>1. e = [b EXCEPT !.slots = wiped]
      BY FieldsOf DEF Erased
    <3>2. wiped \in [Slots -> Seq(Block)] /\ wiped[b.running] = b.slots[b.running]
      BY FieldsOf
    <3> HIDE DEF wiped
    <3>3. e = [ota |-> b.ota, slots |-> wiped, boot |-> b.boot, running |-> b.running]
      BY <3>1, FieldsOf
    <3> QED BY <3>2, <3>3, FieldsOf DEF OtaBoard
  <2>2. r.boot = e.boot /\ r.running = e.running /\ r.slots = e.slots
        /\ (r.ota = e.ota \/ r.ota.state = "RECEIVING")
    BY <1>2, <2>1 DEF OtaBoard, Receiving
  <2>3. e.ota = b.ota
    BY FieldsOf DEF Erased, OtaBoard
  <2>4. Frame(b, r)
    <3> HIDE DEF e, r
    <3> QED BY <1>2, <2>1, <2>2, <2>3 DEF Frame, MayErase
  <2> QED BY <2>4
<1> QED BY <1>1, <1>2 DEF OtaBegin

LEMMA ChunkFrame ==
  ASSUME NEW b, Sound(b), NEW offset, NEW block \in Block, NEW outcome
  PROVE  Frame(b, OtaChunk(b, offset, block, outcome))
<1> DEFINE r == OtaChunk(b, offset, block, outcome)
           w == Written(b, block)
<1>0. b \in OtaBoard
  BY DEF Sound
<1>1. CASE r = b
  BY <1>1 DEF Frame
<1>2. CASE r = Failed(b)
  <2>1. r.boot = b.boot /\ r.slots = b.slots /\ r.running = b.running /\ r.ota.state = "ERROR"
    BY <1>0, <1>2, FieldsOf DEF Failed, OtaBoard, OtaRecord
  <2> QED BY <2>1 DEF Frame
<1>3. CASE /\ b.ota.state = "RECEIVING"
           /\ r = [w EXCEPT !.ota.bytes_received = @ + 1,
                            !.ota.running_hash = Append(@, block)]
  <2>1. b.boot.mark # "pending"
    BY <1>3 DEF Sound, FallsBack
  <2>2. w \in OtaBoard /\ w.boot = b.boot /\ w.running = b.running
        /\ w.slots[b.running] = b.slots[b.running]
    <3> DEFINE filled == [b.slots EXCEPT ![UpdateSlot(b)] = Append(b.slots[UpdateSlot(b)], block)]
    <3>1. w = [b EXCEPT !.slots = filled]
      BY <1>0, FieldsOf DEF Written
    <3>2. filled \in [Slots -> Seq(Block)] /\ filled[b.running] = b.slots[b.running]
      BY <1>0, FieldsOf
    <3> HIDE DEF filled
    <3>3. w = [ota |-> b.ota, slots |-> filled, boot |-> b.boot, running |-> b.running]
      BY <1>0, <3>1, FieldsOf
    <3> QED BY <1>0, <3>2, <3>3, FieldsOf DEF OtaBoard
  <2>3. r.boot = w.boot /\ r.running = w.running /\ r.slots = w.slots
        /\ r.ota.state = w.ota.state
    BY <1>3, <2>2 DEF OtaBoard, OtaRecord
  <2>4. w.ota = b.ota
    BY <1>0, FieldsOf DEF Written, OtaBoard
  <2>5. Frame(b, r)
    <3> HIDE DEF w, r
    <3> QED BY <1>3, <2>1, <2>2, <2>3, <2>4 DEF Frame
  <2> QED BY <2>5
<1> QED BY <1>1, <1>2, <1>3 DEF OtaChunk

LEMMA CommitFrame ==
  ASSUME NEW b, Sound(b), NEW outcome
  PROVE  Frame(b, OtaCommit(b, outcome))
<1> DEFINE r == OtaCommit(b, outcome)
<1>0. b \in OtaBoard
  BY DEF Sound
<1>1. CASE r = b
  BY <1>1 DEF Frame
<1>2. CASE r = Failed(b)
  <2>1. r.boot = b.boot /\ r.slots = b.slots /\ r.running = b.running /\ r.ota.state = "ERROR"
    BY <1>0, <1>2, FieldsOf DEF Failed, OtaBoard, OtaRecord
  <2> QED BY <2>1 DEF Frame
<1>3. CASE AllReceived(b) /\ r = [Finalized(b) EXCEPT !.ota.state = "COMMITTED"]
  <2>1. b.boot.mark # "pending"
    BY <1>3 DEF Sound, FallsBack, AllReceived
  <2>2. r.running = b.running /\ r.slots = b.slots /\ r.boot.mark = "new"
    BY <1>0, <1>3 DEF Finalized, OtaBoard
  <2>3. r.ota.state = "COMMITTED" /\ b.ota.state = "RECEIVING"
    BY <1>0, <1>3, FieldsOf DEF AllReceived, Finalized, OtaBoard, OtaRecord
  <2>4. Sound(r)
    BY CommitSound
  <2>5. Frame(b, r)
    <3> HIDE DEF r
    <3>1. Staged(r)
      BY <2>3, <2>4 DEF Sound
    <3>2. Genuine(r.slots[r.boot.slot])
      BY <2>3, <3>1 DEF Staged, Genuine
    <3> QED BY <2>1, <2>2, <2>3, <3>2 DEF Frame
  <2> QED BY <2>5
<1> QED BY <1>1, <1>2, <1>3 DEF OtaCommit

LEMMA AbortFrame ==
  ASSUME NEW b \in OtaBoard
  PROVE  Frame(b, OtaAbort(b))
BY DEF Frame, OtaAbort, OtaBoard, OtaRecord

LEMMA SendFrames ==
  ASSUME IInv, NEW p \in Phones, NEW outcome, NEW reply,
         SendBegin(p, outcome, reply) \/ SendChunk(p, outcome, reply)
           \/ SendCommit(p, outcome, reply)
  PROVE  \E b : Frame(board, b) /\ Handled(b) /\ UNCHANGED up
<1>1. CASE SendBegin(p, outcome, reply)
  <2> DEFINE after == OtaBegin(board, Size[Bundle(p).image], Bundle(p).header, safe, outcome)
  <2>1. Handled(after) /\ UNCHANGED up
    BY <1>1 DEF SendBegin
  <2>2. Frame(board, after)
    BY SoundTypes, BeginFrame
  <2> HIDE DEF after
  <2> QED BY <2>1, <2>2
<1>2. CASE SendChunk(p, outcome, reply)
  <2> DEFINE offset == screen[p].loop.offset
             after  == OtaChunk(board, offset, <<Bundle(p).image, offset + 1>>, outcome)
  <2>1. Handled(after) /\ UNCHANGED up /\ screen[p].loop.at = "chunks"
    BY <1>2 DEF SendChunk
  <2>2. Bundle(p).image \in Images /\ offset < Size[Bundle(p).image]
        /\ Size[Bundle(p).image] \in Nat /\ offset \in Nat
    BY <2>1, BundleOf DEF IInv, Uploads, LoopOK
  <2>3. <<Bundle(p).image, offset + 1>> \in Block
    BY <2>2 DEF Block
  <2>4. Frame(board, after)
    BY <2>3, SoundTypes, ChunkFrame
  <2> HIDE DEF after
  <2> QED BY <2>1, <2>4
<1>3. CASE SendCommit(p, outcome, reply)
  <2> DEFINE after == OtaCommit(board, outcome)
  <2>1. Handled(after) /\ UNCHANGED up
    BY <1>3 DEF SendCommit
  <2>2. Frame(board, after)
    BY SoundTypes, CommitFrame
  <2> HIDE DEF after
  <2> QED BY <2>1, <2>2
<1> QED BY <1>1, <1>2, <1>3

LEMMA AbortFrames ==
  ASSUME IInv, NEW p \in Phones, NEW sent \in BOOLEAN, Abort(p, sent)
  PROVE  \E b : Frame(board, b) /\ Handled(b) /\ UNCHANGED up
<1> DEFINE after == IF sent THEN OtaAbort(board) ELSE board
<1>1. Handled(after) /\ UNCHANGED up
  BY DEF Abort
<1>2. Frame(board, after)
  BY SoundTypes, AbortFrame DEF Frame
<1> HIDE DEF after
<1> QED BY <1>1, <1>2

LEMMA HandledVouched ==
  ASSUME IInv, Vouched, NEW b, Frame(board, b), Handled(b), UNCHANGED up
  PROVE  Vouched'
<1>1. /\ running' = running /\ slots'[running] = slots[running]
      /\ boot'.mark = "pending" <=> boot.mark = "pending"
      /\ boot.mark = "pending" => slots' = slots
  BY SoundTypes DEF Frame, Handled, Becomes
<1>2. UpdateSlot(board') = UpdateSlot(board) /\ UpdateSlot(board) \in Slots
      /\ running \in Slots
  BY <1>1, SoundTypes, FieldsOf DEF UpdateSlot, board
<1>3. proven' = proven \cap {s \in Slots : slots'[s] = slots[s]}
  BY DEF Handled, Unchanged
<1> QED BY <1>1, <1>2, <1>3 DEF Vouched

\* What a reset does, by the mark it finds.
LEMMA ResetTo ==
  ASSUME IInv, Becomes(Rebooted(board))
  PROVE  /\ boot'.slot = running'
         /\ boot.mark = "pending" => running' = UpdateSlot(board) /\ boot'.mark = "valid"
         /\ boot.mark = "valid" => running' = running /\ boot'.mark = "valid"
         /\ boot.mark = "new" =>
              \/ running' = running /\ boot'.mark = "valid"
              \/ running' = UpdateSlot(board) /\ boot'.mark = "pending"
         /\ boot.mark \in {"valid", "new", "pending"}
         /\ UpdateSlot(board) \in Slots /\ UpdateSlot(board) # running
         /\ Other(UpdateSlot(board)) = running
<1> DEFINE picked == boot.slot
           kept   == boot.mark # "pending" /\ Bootable(board, picked)
           slot   == IF kept THEN picked ELSE Other(picked)
           mark   == IF kept /\ boot.mark = "new" THEN "pending" ELSE "valid"
<1>1. /\ MarksAgree(board) /\ Bootable(board, running)
      /\ boot.mark \in {"valid", "new", "pending"}
      /\ UpdateSlot(board) \in Slots /\ UpdateSlot(board) # running
      /\ Other(UpdateSlot(board)) = running /\ Other(running) = UpdateSlot(board)
  BY SoundTypes, FieldsOf DEF Sound, BootRecord, UpdateSlot
<1>2. running' = slot /\ boot' = [slot |-> slot, mark |-> mark]
  <2>1. Rebooted(board) = [board EXCEPT !.ota = InitOta, !.running = slot,
                                        !.boot = [slot |-> slot, mark |-> mark]]
    BY SoundTypes DEF Rebooted
  <2> HIDE DEF slot, mark
  <2> QED BY <2>1 DEF Becomes, board
<1>3. CASE boot.mark = "pending"
  BY <1>1, <1>2, <1>3, SoundTypes DEF MarksAgree
<1>4. CASE boot.mark = "valid"
  BY <1>1, <1>2, <1>4, SoundTypes DEF MarksAgree
<1>5. CASE boot.mark = "new"
  BY <1>1, <1>2, <1>5, SoundTypes DEF MarksAgree
<1> QED BY <1>1, <1>2, <1>3, <1>4, <1>5

LEMMA ResetVouched ==
  ASSUME IInv, Vouched, Becomes(Rebooted(board)), up' = FALSE, UNCHANGED proven
  PROVE  Vouched'
<1>1. UpdateSlot(board') = Other(running') /\ UpdateSlot(board) = Other(running)
  BY DEF UpdateSlot, board
<1> QED BY <1>1, ResetTo DEF Vouched

LEMMA InitVouched == Init => Vouched
BY DEF Init, Vouched

LEMMA NextVouched == IInv /\ Vouched /\ [Next]_vars => Vouched'
<1> SUFFICES ASSUME IInv, Vouched, [Next]_vars
             PROVE  Vouched'
  OBVIOUS
<1>1. CASE BootComplete
  <2>1. /\ Becomes(Confirmed(board)) /\ up' = TRUE /\ running \in Slots
        /\ proven' = proven \cup {running}
    BY <1>1, SoundTypes, FieldsOf DEF BootComplete
  <2>2. board \in OtaBoard
    BY SoundTypes
  <2>3. Confirmed(board).boot.mark # "pending" /\ Confirmed(board).running = running
    BY <2>2, SoundTypes DEF Confirmed, OtaBoard, BootRecord
  <2> QED BY <2>1, <2>3 DEF Vouched, Becomes
<1>2. CASE PowerCut
  BY <1>2, ResetVouched DEF PowerCut
<1>3. CASE \/ Ride
           \/ \E p \in Phones : Drop(p) \/ Reopen(p) \/ \E file \in Bundles : Install(p, file)
           \/ UNCHANGED vars
  <2>1. UNCHANGED <<ota, slots, boot, running, proven, up>>
    BY <1>3 DEF Ride, Drop, Reopen, Install, flash, vars
  <2>2. board' = board
    BY <2>1 DEF board
  <2> QED BY <2>1, <2>2 DEF Vouched
<1>4. ASSUME NEW p \in Phones, NEW outcome \in FlashOutcomes, NEW reply \in BOOLEAN,
             SendBegin(p, outcome, reply) \/ SendChunk(p, outcome, reply)
               \/ SendCommit(p, outcome, reply)
      PROVE  Vouched'
  BY <1>4, SendFrames, HandledVouched
<1>7. ASSUME NEW p \in Phones, NEW sent \in BOOLEAN, Abort(p, sent)
      PROVE  Vouched'
  BY <1>7, AbortFrames, HandledVouched
<1>8. ASSUME NEW p \in Phones, Apply(p)
      PROVE  Vouched'
  <2>1. OtaReboot(board, safe) = Rebooted(board)
    BY <1>8 DEF Apply, OtaReboot
  <2> QED BY <1>8, <2>1, ResetVouched DEF Apply
<1> QED BY <1>1, <1>2, <1>3, <1>4, <1>7, <1>8 DEF Next, Phone

\* For any images, phones and schedule: a reset of a board that is up, with no
\* newer image to boot, returns to the firmware it was running, because the
\* last call of app_main() has confirmed it.
THEOREM ConfirmedStays == Spec => StaysOnConfirmed
<1>1. /\ IInv /\ Vouched /\ [Next]_vars
      => [PowerCut /\ up /\ boot.slot = running => running' = running]_vars
  <2> SUFFICES ASSUME IInv, Vouched, PowerCut, up, boot.slot = running
               PROVE  running' = running
    OBVIOUS
  <2>1. MarksAgree(board) /\ boot.mark # "pending"
    BY SoundTypes DEF Sound, Vouched
  <2> QED BY <2>1, ResetTo, SoundTypes DEF PowerCut, MarksAgree
<1>2. Init => Vouched
  BY InitVouched
<1>3. IInv /\ Vouched /\ [Next]_vars => Vouched'
  BY NextVouched
<1> QED BY <1>1, <1>2, <1>3, Invariance, PTL DEF Spec, StaysOnConfirmed

\* And a firmware that has never completed a boot gets one only: a reset during
\* it returns to the other partition.
THEOREM UnprovenRollsBack == Spec => RollsBack
<1>1. /\ IInv /\ Vouched /\ [Next]_vars
      => [PowerCut /\ ~up /\ running \notin proven => running' # running]_vars
  <2> SUFFICES ASSUME IInv, Vouched, PowerCut, running \notin proven
               PROVE  running' # running
    OBVIOUS
  <2>1. boot.mark = "pending"
    BY DEF Vouched
  <2> QED BY <2>1, ResetTo DEF PowerCut
<1>2. Init => Vouched
  BY InitVouched
<1>3. IInv /\ Vouched /\ [Next]_vars => Vouched'
  BY NextVouched
<1> QED BY <1>1, <1>2, <1>3, Invariance, PTL DEF Spec, RollsBack

-----------------------------------------------------------------------------
(* What the release key has signed                                         *)

\* What a reset may run is a whole image of the release key, or was written
\* anew since a commit has chosen it.
Vetted ==
  /\ running \notin rewritten => Genuine(slots[running])
  /\ boot.slot \notin rewritten => Genuine(slots[boot.slot])
  /\ boot.mark = "pending" /\ UpdateSlot(board) \notin rewritten =>
       Genuine(slots[UpdateSlot(board)])

LEMMA HandledVetted ==
  ASSUME IInv, Vetted, NEW b, Frame(board, b), Handled(b)
  PROVE  Vetted'
<1>1. /\ running' = running /\ slots'[running] = slots[running]
      /\ boot'.mark = "pending" <=> boot.mark = "pending"
      /\ boot.mark = "pending" => slots' = slots
  BY SoundTypes DEF Frame, Handled, Becomes
<1>2. /\ UpdateSlot(board') = UpdateSlot(board) /\ UpdateSlot(board) \in Slots
      /\ running \in Slots /\ boot.slot \in Slots /\ rewritten \subseteq Slots
  BY <1>1, SoundTypes, FieldsOf DEF UpdateSlot, board, IInv, TypeOK, BootRecord
<1>3. rewritten' = ((rewritten \cap Unchanged) \cup ({boot.slot} \ Unchanged)) \ Found
  BY DEF Handled
<1>4. CASE boot' = boot /\ (ota'.state = "COMMITTED" => ota.state = "COMMITTED")
  <2>1. Found = {}
    BY <1>4 DEF Found
  <2>2. \A s \in Slots : s \in Unchanged <=> slots'[s] = slots[s]
    BY DEF Unchanged
  <2>3. boot.mark = "pending" => \A s \in Slots : s \in rewritten' <=> s \in rewritten
    BY <1>1, <1>3, <2>1, <2>2
  <2>4. /\ running \notin rewritten' => running \notin rewritten
        /\ boot.slot \notin rewritten' =>
             boot.slot \notin rewritten /\ slots'[boot.slot] = slots[boot.slot]
    BY <1>1, <1>2, <1>3, <2>1, <2>2
  <2> QED BY <1>1, <1>2, <1>4, <2>3, <2>4 DEF Vetted
<1>5. CASE /\ ota'.state = "COMMITTED" /\ ota.state # "COMMITTED"
           /\ slots' = slots /\ boot'.mark = "new" /\ Genuine(slots'[boot'.slot])
  <2>1. Unchanged = Slots
    BY <1>5 DEF Unchanged
  <2>2. \A s \in Slots : s \in Found <=> s = boot'.slot
    BY <1>5 DEF Found
  <2>3. running \notin rewritten' => running \notin rewritten \/ running = boot'.slot
    BY <1>2, <1>3, <2>1, <2>2
  <2> QED BY <1>1, <1>5, <2>3 DEF Vetted
<1> QED BY <1>4, <1>5, SoundTypes DEF Frame, Handled, Becomes

LEMMA ResetVetted ==
  ASSUME IInv, Vetted, Becomes(Rebooted(board)), UNCHANGED rewritten
  PROVE  Vetted'
<1>1. slots' = slots /\ UpdateSlot(board') = Other(running')
  BY SoundTypes DEF Becomes, Rebooted, OtaBoard, UpdateSlot, board
<1>2. /\ boot.mark # "new" => boot.slot = running
      /\ boot.mark = "new" => boot.slot = UpdateSlot(board)
      /\ UpdateSlot(board) = Other(running)
  BY SoundTypes DEF Sound, MarksAgree, UpdateSlot, board
<1> QED BY <1>1, <1>2, ResetTo DEF Vetted

LEMMA InitVetted == Init => Vetted
<1> SUFFICES ASSUME Init PROVE Vetted
  OBVIOUS
<1>1. /\ running = "ota_0" /\ boot.slot = "ota_0" /\ boot.mark = "valid" /\ "ota_0" \in Slots
      /\ slots = [s \in Slots |-> IF s = "ota_0" THEN Whole(Factory) ELSE <<>>]
  BY DEF Init, Slots
<1>2. slots["ota_0"] = Whole(Factory) /\ Factory \in Signed
  BY <1>1, UpdateAssumption
<1> QED BY <1>1, <1>2 DEF Vetted, Genuine

LEMMA NextVetted == IInv /\ Vetted /\ [Next]_vars => Vetted'
<1> SUFFICES ASSUME IInv, Vetted, [Next]_vars
             PROVE  Vetted'
  OBVIOUS
<1>1. CASE BootComplete
  <2>1. Becomes(Confirmed(board)) /\ board \in OtaBoard /\ UNCHANGED rewritten
    BY <1>1, SoundTypes DEF BootComplete
  <2>2. /\ slots' = slots /\ running' = running /\ boot'.slot = boot.slot
        /\ boot'.mark # "pending"
    BY <2>1, SoundTypes DEF Becomes, Confirmed, OtaBoard, BootRecord
  <2> QED BY <2>1, <2>2 DEF Vetted
<1>2. CASE PowerCut
  BY <1>2, ResetVetted DEF PowerCut
<1>3. CASE \/ Ride
           \/ \E p \in Phones : Drop(p) \/ Reopen(p) \/ \E file \in Bundles : Install(p, file)
           \/ UNCHANGED vars
  <2>1. UNCHANGED <<ota, slots, boot, running, rewritten>>
    BY <1>3 DEF Ride, Drop, Reopen, Install, flash, vars
  <2>2. board' = board
    BY <2>1 DEF board
  <2> QED BY <2>1, <2>2 DEF Vetted
<1>4. ASSUME NEW p \in Phones, NEW outcome \in FlashOutcomes, NEW reply \in BOOLEAN,
             SendBegin(p, outcome, reply) \/ SendChunk(p, outcome, reply)
               \/ SendCommit(p, outcome, reply)
      PROVE  Vetted'
  BY <1>4, SendFrames, HandledVetted
<1>5. ASSUME NEW p \in Phones, NEW sent \in BOOLEAN, Abort(p, sent)
      PROVE  Vetted'
  BY <1>5, AbortFrames, HandledVetted
<1>6. ASSUME NEW p \in Phones, Apply(p)
      PROVE  Vetted'
  <2>1. OtaReboot(board, safe) = Rebooted(board)
    BY <1>6 DEF Apply, OtaReboot
  <2> QED BY <1>6, <2>1, ResetVetted DEF Apply
<1> QED BY <1>1, <1>2, <1>3, <1>4, <1>5, <1>6 DEF Next, Phone

\* mc_crypto_verify() at OTA_BEGIN and the comparison of the digests at COMMIT
\* are enough for every partition they have judged: whatever bytes follow the
\* header, and whichever upload they come from, no firmware but the release
\* key's runs, unless the partition was written anew after its commit.
THEOREM OnlySignedRuns == Spec => []SignedRuns
<1>1. IInv /\ Vetted => SignedRuns
  <2> SUFFICES ASSUME Vetted, running \notin rewritten,
                      NEW image \in Images, slots[running] = Whole(image)
               PROVE  image \in Signed
    BY DEF SignedRuns
  <2>1. PICK other \in Signed : slots[running] = Whole(other)
    BY DEF Vetted, Genuine
  <2> QED BY <2>1, WholeOnce, OtaAssumption
<1> QED BY <1>1, InitVetted, NextVetted, Invariance, PTL DEF Spec

\* Well typed, with a whole image in the partition that runs, and one of the
\* release key unless it was written anew after its commit.
THEOREM UpdateIsSound == Spec => []UpdateSound
<1>1. TypeOK /\ RunningIntact /\ SignedRuns => UpdateSound
  BY DEF UpdateSound
<1> QED BY <1>1, UpdateTypeOK, RunningStaysIntact, OnlySignedRuns, PTL
=============================================================================

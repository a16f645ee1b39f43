--------------------------- MODULE IapBootloader ---------------------------
(***************************************************************************)
(* The second-stage bootloader with its serial upgrade session             *)
(* (bootloader_start.c and iap_bootloader.c).                              *)
(*                                                                         *)
(* The bootloader is one thread without interrupts, so a step is one call  *)
(* of a handler, cut only where flash is modified: between two cuts the    *)
(* power may fail, and an erase or a write that is cut or that reports an  *)
(* error leaves the flash half changed.                                    *)
(***************************************************************************)
EXTENDS SerialIap

VARIABLES
  pc,                 \* where call_start_cpu0 and what it calls have got to
  otadata, slot,      \* flash: the boot selection and the OTA slots
  target_index, update_active, image_size, next_offset, expected_sha256,
  expected_sequence,
  last,               \* last_* and last_response
  idle,               \* idle_ms in receive calls
  frame,              \* the request whose flash operation is under way
  reply,              \* the response the latest step sent
  running             \* the image started: a slot, Factory, or NoTarget

flash   == <<otadata, slot>>
update  == <<update_active, image_size, next_offset, expected_sha256>>
session == <<expected_sequence, last>>
vars == <<pc, flash, target_index, update, session, idle, frame, reply, running>>

\* write_buffer: the data padded with 0xFF to a whole number of write units.
Padded(data) ==
  data \o [i \in 1..((Align - (Len(data) % Align)) % Align) |-> Erased]

\* ------------------------------------------------------------ responses ----
\* Variant: no request is ever recognised as a repeated one.
MatchesNothing(f) == FALSE

Matches(f) == last # NoRequest /\ last.request = Key(f)

\* A response with an error status: nothing else changes, nothing is cached.
Refuse(status) ==
  /\ reply' = Response(status, expected_sequence, next_offset)
  /\ UNCHANGED <<pc, flash, target_index, update, session, frame, running>>

\* The tail of process_frame after an OK status.
Accept(f, offset) ==
  /\ expected_sequence' = (f.seq + 1) % SeqMod
  /\ reply' = Response("OK", expected_sequence', offset)
  /\ last' = [request |-> Key(f), response |-> reply']

\* abandon_update.
Abandon ==
  /\ update_active' = FALSE
  /\ image_size' = 0
  /\ next_offset' = 0
  /\ expected_sha256' = <<>>

InOrder(f) ==
  /\ ~Matches(f)
  /\ f.version = 1
  /\ f.seq = IF f.command = "HELLO" THEN 0 ELSE expected_sequence
\* ------------------------------------------------- requests in a session ----
\* The same request again: the cached response and nothing else.
Repeat(f) ==
  /\ Matches(f)
  /\ reply' = last.response
  /\ UNCHANGED <<pc, flash, target_index, update, session, frame, running>>

RefuseVersion(f) ==
  /\ ~Matches(f)
  /\ f.version # 1
  /\ Refuse("ERR_VERSION")

RefuseSequence(f) ==
  /\ ~Matches(f)
  /\ f.version = 1
  /\ ~InOrder(f)
  /\ Refuse("ERR_SEQUENCE")

\* HELLO restarts the session; it is the only way in from "entry".
Hello(f) ==
  /\ InOrder(f) /\ f.command = "HELLO"
  /\ Abandon
  /\ Accept(f, 0)
  /\ pc' = "session"
  /\ UNCHANGED <<flash, target_index, frame, running>>

Info(f) ==
  /\ InOrder(f) /\ f.command = "INFO"
  /\ Accept(f, next_offset)
  /\ UNCHANGED <<pc, flash, target_index, update, frame, running>>

BeginStatus(f) ==
  IF FlashEncryption \/ target_index = NoTarget THEN "ERR_STATE"
  ELSE IF ~f.sound \/ f.size \notin 1..SlotSize THEN "ERR_LENGTH"
  ELSE "OK"

RefuseBegin(f) ==
  /\ InOrder(f) /\ f.command = "BEGIN"
  /\ BeginStatus(f) # "OK"
  /\ Refuse(BeginStatus(f))

\* The update under way is given up before the first sector is erased.
Begin(f) ==
  /\ InOrder(f) /\ f.command = "BEGIN"
  /\ BeginStatus(f) = "OK"
  /\ Abandon
  /\ frame' = f /\ reply' = NoReply /\ pc' = "erase"
  /\ UNCHANGED <<flash, target_index, session, running>>

\* Variant: the block need only fit into the slot.
ExceedsSlot(f) == Len(f.data) > SlotSize - next_offset

Exceeds(f) == Len(f.data) > image_size - next_offset

\* Variant: a block of any length may be followed by another.
NeverRagged(f) == FALSE

\* A block that is not the last one and not whole write units.
Ragged(f) ==
  next_offset + Len(f.data) # image_size /\ Len(f.data) % Align # 0

DataStatus(f) ==
  IF ~update_active THEN "ERR_STATE"
  ELSE IF f.data = <<>> THEN "ERR_LENGTH"
  ELSE IF f.offset # next_offset THEN "ERR_OFFSET"
  ELSE IF Exceeds(f) \/ Ragged(f) THEN "ERR_LENGTH"
  ELSE "OK"

RefuseData(f) ==
  /\ InOrder(f) /\ f.command = "DATA"
  /\ DataStatus(f) # "OK"
  /\ Refuse(DataStatus(f))

Data(f) ==
  /\ InOrder(f) /\ f.command = "DATA"
  /\ DataStatus(f) = "OK"
  /\ frame' = f /\ reply' = NoReply /\ pc' = "write"
  /\ UNCHANGED <<flash, target_index, update, session, running>>

\* Variant: the read-back is not compared.
AnyDigest == TRUE

DigestMatches == SubSeq(slot[target_index], 1, image_size) = expected_sha256

\* Variant: metadata.image_len is not compared with the declared size.
ImageVerifiesAnyLength == Bootable(slot[target_index])

ImageVerifies ==
  \E img \in ValidImages :
    Len(img) = image_size /\ IsPrefixOf(img, slot[target_index])

\* What finish_update may answer before it touches otadata.  The read-back and
\* the reading of otadata may fail; the image is verified after the digest.
EndStatuses(f) ==
  IF ~f.sound THEN {"ERR_LENGTH"}
  ELSE IF ~update_active THEN {"ERR_STATE"}
  ELSE IF next_offset # image_size THEN {"ERR_LENGTH"}
  ELSE {"ERR_FLASH"} \cup
       (IF ~DigestMatches THEN {"ERR_HASH"}
        ELSE IF ~ImageVerifies THEN {"ERR_IMAGE"}
        ELSE IF SeqOverflows(otadata, target_index) THEN {} ELSE {"OK"})

RefuseEnd(f) ==
  /\ InOrder(f) /\ f.command = "END"
  /\ \E status \in EndStatuses(f) \ {"OK"} : Refuse(status)

End(f) ==
  /\ InOrder(f) /\ f.command = "END"
  /\ "OK" \in EndStatuses(f)
  /\ frame' = f /\ reply' = NoReply /\ pc' = "otaErase"
  /\ UNCHANGED <<flash, target_index, update, session, running>>

\* ABORT gives the update up and the session goes on; BOOT ends it too.
Abort(f) ==
  /\ InOrder(f) /\ f.command = "ABORT" /\ f.sound
  /\ Abandon
  /\ Accept(f, 0)
  /\ UNCHANGED <<pc, flash, target_index, frame, running>>

Boot(f) ==
  /\ InOrder(f) /\ f.command = "BOOT" /\ f.sound
  /\ Abandon
  /\ Accept(f, 0)
  /\ pc' = "boot"
  /\ UNCHANGED <<flash, target_index, frame, running>>

RefuseOther(f) ==
  /\ InOrder(f)
  /\ \/ f.command \in {"ABORT", "BOOT"} /\ ~f.sound /\ Refuse("ERR_LENGTH")
     \/ f.command = "other" /\ Refuse("ERR_COMMAND")

ProcessFrame(f) ==
  \/ Repeat(f) \/ RefuseVersion(f) \/ RefuseSequence(f) \/ RefuseOther(f)
  \/ Hello(f) \/ Info(f) \/ Abort(f) \/ Boot(f)
  \/ RefuseBegin(f) \/ Begin(f)
  \/ RefuseData(f) \/ Data(f)
  \/ RefuseEnd(f) \/ End(f)

\* A valid frame restarts the idle clock, whatever comes of it.
SessionFrame(f) ==
  /\ pc = "session"
  /\ idle' = 0
  /\ ProcessFrame(f)

\* ------------------------------------------------------ flash operations ----
\* Variant: a failed flash operation is tried again, for ever.
FailsRetrying(status, offset) ==
  /\ reply' = NoReply
  /\ UNCHANGED <<pc, frame, session>>

Fails(status, offset) ==
  /\ reply' = Response(status, expected_sequence, offset)
  /\ frame' = NoFrame /\ pc' = "session"
  /\ UNCHANGED session

EraseDone ==
  /\ pc = "erase"
  /\ slot' = [slot EXCEPT ![target_index] = EraseTo(@, EraseEnd(frame.size))]
  /\ update_active' = TRUE
  /\ image_size' = frame.size
  /\ next_offset' = 0
  /\ expected_sha256' = frame.data
  /\ Accept(frame, 0)
  /\ frame' = NoFrame /\ pc' = "session"
  /\ UNCHANGED <<otadata, target_index, idle, running>>

EraseFails ==
  /\ pc = "erase"
  /\ \E c \in TornErase(slot[target_index], EraseEnd(frame.size)) :
       slot' = [slot EXCEPT ![target_index] = c]
  /\ Fails("ERR_FLASH", next_offset)
  /\ UNCHANGED <<otadata, target_index, update, idle, running>>

WriteDone ==
  /\ pc = "write"
  /\ slot' = [slot EXCEPT ![target_index] =
                 Program(@, next_offset, Padded(frame.data))]
  /\ next_offset' = next_offset + Len(frame.data)
  /\ Accept(frame, next_offset')
  /\ frame' = NoFrame /\ pc' = "session"
  /\ UNCHANGED <<otadata, target_index, update_active, image_size,
                 expected_sha256, idle, running>>

\* Variant: the offset is advanced before the write is known to have succeeded.
WriteFailsAdvanced ==
  /\ pc = "write"
  /\ \E c \in TornProgram(slot[target_index], next_offset, Padded(frame.data)) :
       slot' = [slot EXCEPT ![target_index] = c]
  /\ next_offset' = next_offset + Len(frame.data)
  /\ Fails("ERR_FLASH", next_offset')
  /\ UNCHANGED <<otadata, target_index, update_active, image_size,
                 expected_sha256, idle, running>>

WriteFails ==
  /\ pc = "write"
  /\ \E c \in TornProgram(slot[target_index], next_offset, Padded(frame.data)) :
       slot' = [slot EXCEPT ![target_index] = c]
  /\ Fails("ERR_FLASH", next_offset)
  /\ UNCHANGED <<otadata, target_index, update, idle, running>>

\* commit_target erases the sector of the entry not in force and writes the
\* new entry there.
OtaEraseDone ==
  /\ pc = "otaErase"
  /\ otadata' = [otadata EXCEPT ![NextEntry(otadata)] = Blank]
  /\ pc' = "otaWrite" /\ reply' = NoReply
  /\ UNCHANGED <<slot, target_index, update, session, idle, frame, running>>

\* An operation that reports an error has not completed: what it leaves is the
\* old entry or one whose CRC does not match.
OtaFails ==
  /\ pc \in {"otaErase", "otaWrite"}
  /\ otadata' \in {otadata, [otadata EXCEPT ![NextEntry(otadata)] = Blank]}
  /\ Fails("ERR_FLASH", next_offset)
  /\ UNCHANGED <<slot, target_index, update, idle, running>>

Committed(d, target) ==
  [d EXCEPT ![NextEntry(d)] = NextSeq(d, target)]

OtaWriteDone ==
  /\ pc = "otaWrite"
  /\ otadata' = Committed(otadata, target_index)
  /\ update_active' = FALSE
  /\ Accept(frame, next_offset)
  /\ frame' = NoFrame /\ pc' = "reset"
  /\ UNCHANGED <<slot, target_index, image_size, next_offset, expected_sha256,
                 idle, running>>

\* ------------------------------------------------- start, timeouts, boot ----
\* The context does not outlive the bootloader's run.
Forget ==
  /\ Abandon
  /\ expected_sequence' = 0 /\ last' = NoRequest
  /\ idle' = 0 /\ frame' = NoFrame /\ reply' = NoReply

\* Load the partition table, read otadata, clear the context.
Start ==
  /\ pc = "start"
  /\ target_index' = ChooseTarget(BootIndex(otadata))
  /\ Forget
  /\ pc' = "entry"
  /\ UNCHANGED <<flash, running>>

EntryTimeout ==
  /\ pc = "entry"
  /\ pc' = "boot" /\ reply' = NoReply
  /\ UNCHANGED <<flash, target_index, update, session, idle, frame, running>>

\* The first valid frame decides: HELLO enters the session, any other boots.
EntryFrame(f) ==
  /\ pc = "entry"
  /\ UNCHANGED idle
  /\ \/ f.version = 1 /\ f.command = "HELLO" /\ f.seq = 0 /\ ProcessFrame(f)
     \/ /\ ~(f.version = 1 /\ f.command = "HELLO" /\ f.seq = 0)
        /\ pc' = "boot" /\ reply' = NoReply
        /\ UNCHANGED <<flash, target_index, update, session, frame, running>>

\* A receive call without a frame; the last one leaves the session.
IdleTick ==
  /\ pc = "session"
  /\ reply' = NoReply
  /\ IF idle + 1 < SessionTicks THEN idle' = idle + 1 /\ UNCHANGED <<pc, update>>
     ELSE idle' = 0 /\ pc' = "boot" /\ Abandon
  /\ UNCHANGED <<flash, target_index, session, frame, running>>

Restart ==
  /\ pc = "reset"
  /\ pc' = "start" /\ target_index' = NoTarget /\ Forget
  /\ UNCHANGED <<flash, running>>

\* bootloader_utility_load_boot_image: the selected image if it verifies, else
\* another one that does (the factory image always does).
Loadable == {b \in Slots : Bootable(slot[b])} \cup {Factory}

LoadApp ==
  /\ pc = "boot"
  /\ IF BootIndex(otadata) \in Loadable THEN running' = BootIndex(otadata)
     ELSE running' \in Loadable
  /\ pc' = "app" /\ target_index' = NoTarget /\ Forget
  /\ UNCHANGED flash

\* otadata cannot be read after the session: bootloader_reset.
RereadFails ==
  /\ pc = "boot"
  /\ pc' = "start" /\ target_index' = NoTarget /\ Forget
  /\ UNCHANGED <<flash, running>>

\* What is left of flash when the power fails at this point.
CutOtadata ==
  IF pc = "otaErase" THEN {otadata, [otadata EXCEPT ![NextEntry(otadata)] = Blank]}
  ELSE IF pc = "otaWrite" THEN
    {otadata, [otadata EXCEPT ![NextEntry(otadata)] = Blank],
     Committed(otadata, target_index)}
  ELSE {otadata}

CutSlot ==
  IF pc = "erase" THEN
    {[slot EXCEPT ![target_index] = c] :
       c \in TornErase(slot[target_index], EraseEnd(frame.size))}
  ELSE IF pc = "write" THEN
    {[slot EXCEPT ![target_index] = c] :
       c \in TornProgram(slot[target_index], next_offset, Padded(frame.data))}
  ELSE {slot}

\* A power failure, or the reset line that the host pulses.
PowerLoss ==
  /\ otadata' \in CutOtadata
  /\ slot' \in CutSlot
  /\ pc' = "start" /\ running' = NoTarget
  /\ target_index' = NoTarget /\ Forget

\* ---------------------------------------------------------- specification ----
Init ==
  /\ pc = "start"
  /\ otadata \in InitOtadata
  /\ slot \in [Slots -> InitCells]
  /\ SelectedBootable(otadata, slot)
  /\ target_index = NoTarget
  /\ update_active = FALSE /\ image_size = 0 /\ next_offset = 0
  /\ expected_sha256 = <<>>
  /\ expected_sequence = 0 /\ last = NoRequest
  /\ idle = 0 /\ frame = NoFrame /\ reply = NoReply
  /\ running = NoTarget

\* The steps the bootloader takes by itself, its clock's included.
Device ==
  \/ Start \/ EntryTimeout \/ IdleTick \/ Restart \/ LoadApp
  \/ EraseDone \/ EraseFails \/ WriteDone \/ WriteFails
  \/ OtaEraseDone \/ OtaFails \/ OtaWriteDone

Line == \E f \in Frames : EntryFrame(f) \/ SessionFrame(f)

Next == Device \/ Line \/ RereadFails \/ PowerLoss

Spec == Init /\ [][Next]_vars

\* The processor does not stop: whatever the bootloader can do next, it does.
FairSpec == Spec /\ WF_vars(Device)

\* ------------------------------------------------------------- properties ----
FlashBusy == pc \in {"erase", "write", "otaErase", "otaWrite"}

TypeOK ==
  /\ pc \in {"start", "entry", "session", "erase", "write", "otaErase",
            "otaWrite", "reset", "boot", "app"}
  /\ otadata \in Otadata
  /\ slot \in [Slots -> Cells]
  /\ target_index \in Slots \cup {NoTarget}
  /\ update_active \in BOOLEAN
  /\ image_size \in 0..SlotSize /\ next_offset \in 0..image_size
  /\ expected_sha256 \in Seq(Byte)
  /\ expected_sequence \in 0..(SeqMod - 1)
  /\ last = NoRequest \/ last \in [request: Frame, response: Reply]
  /\ idle \in 0..(SessionTicks - 1)
  /\ IF FlashBusy THEN frame \in Frames ELSE frame = NoFrame
  /\ reply = NoReply \/ reply \in Reply
  /\ running \in Slots \cup {Factory, NoTarget}

\* README "no stage that fails changes what boots", at its weakest: after any
\* sequence of requests, flash errors and power failures the boot selection
\* names an image that verifies (erase_target_range, write_update,
\* commit_target).
SelectedAlwaysBootable == SelectedBootable(otadata, slot)

\* The bytes of the slot the boot selection names are never erased or
\* programmed, whatever the requests (choose_target against commit_target,
\* which read otadata at different times).
SelectedSlotUntouched ==
  [][\A s \in Slots : s = BootIndex(otadata) => slot'[s] = slot[s]]_vars

\* protocol.md section 8: the boot selection moves only to an image that is
\* complete, has the digest of BEGIN and verifies with the declared length;
\* it moves in no other way, a torn commit and an idle timeout included.
SelectionMovesToVerified ==
  [][BootIndex(otadata') # BootIndex(otadata) =>
       /\ update_active
       /\ BootIndex(otadata') = target_index
       /\ SubSeq(slot[target_index], 1, image_size) = expected_sha256
       /\ expected_sha256 \in ValidImages]_vars

\* A session that has committed has selected its target, except when ota_seq
\* has run out: the guard of commit_target lets the new sequence be
\* UINT32_MAX, which every reader takes for an erased entry.
CommitSelectsTarget ==
  pc = "reset" =>
    \/ BootIndex(otadata) = target_index
    \/ \E e \in Entries : otadata[e] = SeqMax - 1

\* write_update hands the flash driver whole write units at unit boundaries
\* inside the slot, and only bytes that the current BEGIN has erased.
WriteInErasedUnits ==
  pc = "write" =>
    LET n == Len(Padded(frame.data)) IN
    /\ next_offset % Align = 0 /\ n % Align = 0
    /\ next_offset + n <= EraseEnd(image_size)

\* protocol.md section 4: what a repeat is answered with is still true of the
\* device, whatever it has refused and whichever flash operations have failed since.
\* The request after it has another number; the update stands where the response
\* says, past the block it acknowledges, as the BEGIN it acknowledges declared; and
\* no update goes on behind a request that has given it up.  (A BEGIN whose erase
\* fails gives the update up without an accepted response.)
CachedAnswerHolds ==
  last # NoRequest =>
    LET request == last.request
        response == last.response
    IN  /\ response.status = "OK" /\ response.expected = expected_sequence
        /\ request.seq # expected_sequence
        /\ update_active =>
             /\ request.command \in {"BEGIN", "DATA", "INFO"}
             /\ response.offset = next_offset
             /\ request.command = "BEGIN" =>
                  /\ next_offset = 0 /\ image_size = request.size
                  /\ expected_sha256 = request.data
             /\ request.command = "DATA" =>
                  next_offset = request.offset + Len(request.data)

\* Once the line is silent and the power stays on, the device ends up running
\* an application: no session, refused request or flash error wedges it.
QuietLineBoots == <>[][Device]_vars => <>[](pc = "app")

\* ------------------------------------------------------------- refinement ----
\* No image of an OTA slot is empty.
FactoryImage == <<>>

ImageIn(c) == CHOOSE img \in ValidImages : IsPrefixOf(img, c)

\* The abstract state: the image the boot selection names, and the bytes whose
\* digest the accepted BEGIN has declared.
BootedImage ==
  IF BootIndex(otadata) \in Slots THEN ImageIn(slot[BootIndex(otadata)])
  ELSE FactoryImage

Promise == INSTANCE BootImage WITH
  Images <- ValidImages,
  Strings <- {f.data : f \in Frames},
  image <- BootedImage,
  offered <- IF update_active THEN {expected_sha256} ELSE {}

\* A flash device that erases, programs, loses power and reports errors in the
\* middle still switches images as a whole, to what was offered, or not at all.
ImplementsBootImage == Promise!Spec

=============================================================================

----------------------------- MODULE IapService -----------------------------
(***************************************************************************)
(* The upgrade service of the running application (iap_service.c): one     *)
(* FreeRTOS task that reads UART0 and answers the same protocol as the     *)
(* bootloader, on top of ESP-IDF's esp_ota_* functions.                    *)
(*                                                                         *)
(* A step is one pass of a handler.  The esp_ota_* and UART functions are  *)
(* modelled by how the service uses them: each may fail, and one that      *)
(* fails leaves the flash half changed.  A power failure inside a handler  *)
(* leaves the flash as an error at that point does, and a Reboot after it. *)
(***************************************************************************)
EXTENDS SerialIap

CONSTANTS Unsendable  \* the commands for whose responses uart_write_bytes or
                      \* uart_wait_tx_done may fail

ASSUME ServiceAssumption == Unsendable \subseteq Commands

VARIABLES
  running,           \* the application that runs: a slot or Factory
  otadata, slot,     \* flash
  open,              \* handles that esp_ota_begin has given out
  update_state, target_partition, image_size, next_offset, expected_sha256,
  expected_sequence, session_active,
  has_last_response, last_request, last_response,
  age,               \* time since last_valid_frame_us in ticks, in a session
  reply,             \* the response sent since the latest empty read
  restarting         \* esp_restart is under way

flash   == <<otadata, slot>>
update  == <<open, update_state, target_partition, image_size, next_offset,
             expected_sha256>>
session == <<expected_sequence, session_active>>
cache   == <<has_last_response, last_request, last_response>>
vars == <<running, flash, update, session, cache, age, reply, restarting>>

\* --------------------------------------------------------------- helpers ----
\* A whole response: the header that answers f, and the payload.
Answer(f, status, expected, offset) ==
  [command |-> f.command, seq |-> f.seq,
   payload |-> Response(status, expected, offset)]

SendOutcomes(answer) == IF answer.command \in Unsendable THEN BOOLEAN ELSE {TRUE}

\* What the host may get to see: a send that reports an error, such as a timeout
\* of uart_wait_tx_done, may have got through.
Seen(answer, sent) == IF sent THEN {answer} ELSE {answer, NoReply}

\* send_encoded where nothing depends on its result.
Send(answer) == \E sent \in SendOutcomes(answer) : reply' \in Seen(answer, sent)

\* Variant: a handle is not given back.
KeepHandle == open

\* abort_update gives the handle of an update that is being received back.
HandlesLeft == IF update_state = "RECEIVING" THEN open - 1 ELSE open

AbortUpdate ==
  /\ open' = HandlesLeft
  /\ update_state' = "IDLE"
  /\ target_partition' = NoTarget
  /\ image_size' = 0 /\ next_offset' = 0
  /\ expected_sha256' = <<>>

Matches(f) == has_last_response /\ Key(f) = last_request

\* A handler stamps the time of its frame before it does its work; of all the
\* handlers only the one that erases takes long.
Stamp(spent) == \E t \in spent : age' = IF session_active' THEN t ELSE 0
Quick == {0}
Long  == 0..SessionTicks

\* An error response is not cached and does not advance the sequence.
Refuse(f, status) ==
  /\ Send(Answer(f, status, expected_sequence, next_offset'))
  /\ UNCHANGED <<running, session, cache, restarting>>

\* Variant: the service goes on after an END.
RestartsForBoot(f) == f.command = "BOOT"

Restarts(f) == f.command \in {"END", "BOOT"}

\* The tail of process_frame.  last_* is set whether the response gets out or
\* not, the cached response is replaced only if it does.
Accept(f, had) ==
  /\ expected_sequence' = (f.seq + 1) % SeqMod
  /\ session_active' = TRUE
  /\ last_request' = Key(f)
  /\ LET answer == Answer(f, "OK", expected_sequence', next_offset') IN
     \E sent \in SendOutcomes(answer) :
       /\ reply' \in Seen(answer, sent)
       /\ last_response' = IF sent THEN answer ELSE last_response
       /\ has_last_response' = (sent \/ had)
       /\ restarting' = (sent /\ Restarts(f))
  /\ UNCHANGED running

\* ------------------------------------------------ requests of every session ----
Repeat(f) ==
  /\ Matches(f)
  /\ Send(last_response)
  /\ UNCHANGED <<running, flash, update, session, cache, restarting>>
  /\ Stamp(Quick)

RefuseVersion(f) ==
  /\ ~Matches(f) /\ f.version # 1
  /\ UNCHANGED <<flash, update>>
  /\ Refuse(f, "ERR_VERSION")
  /\ Stamp(Quick)

Current(f) == ~Matches(f) /\ f.version = 1

RestartsSession(f) == f.command = "HELLO" /\ f.seq = 0

\* Variant: the sequence number is not compared.
AnySequence(f) == Current(f) /\ ~RestartsSession(f) /\ session_active

InOrder(f) ==
  Current(f) /\ ~RestartsSession(f) /\ session_active /\ f.seq = expected_sequence

RefuseSequence(f) ==
  /\ Current(f) /\ ~RestartsSession(f)
  /\ ~InOrder(f)
  /\ UNCHANGED <<flash, update>>
  /\ Refuse(f, IF session_active THEN "ERR_SEQUENCE" ELSE "ERR_STATE")
  /\ Stamp(Quick)

\* Variant: HELLO keeps the update under way.
HelloKeepingUpdate(f) ==
  /\ Current(f) /\ RestartsSession(f)
  /\ UNCHANGED <<flash, update>>
  /\ Accept(f, FALSE)
  /\ Stamp(Quick)

Hello(f) ==
  /\ Current(f) /\ RestartsSession(f)
  /\ AbortUpdate
  /\ Accept(f, FALSE)
  /\ Stamp(Quick)
  /\ UNCHANGED flash

\* INFO, and a HELLO whose number is in sequence but not zero.
Info(f) ==
  /\ InOrder(f) /\ f.command \in {"INFO", "HELLO"}
  /\ UNCHANGED <<flash, update>>
  /\ Accept(f, has_last_response)
  /\ Stamp(Quick)

AbortOrBoot(f) ==
  /\ InOrder(f) /\ f.command \in {"ABORT", "BOOT"} /\ f.sound
  /\ AbortUpdate
  /\ Accept(f, has_last_response)
  /\ Stamp(Quick)
  /\ UNCHANGED flash

RefuseOther(f) ==
  /\ InOrder(f)
  /\ UNCHANGED <<flash, update>>
  /\ \/ f.command \in {"ABORT", "BOOT"} /\ ~f.sound /\ Refuse(f, "ERR_LENGTH")
     \/ f.command = "other" /\ Refuse(f, "ERR_COMMAND")
  /\ Stamp(Quick)

\* ----------------------------------------------------------------- BEGIN ----
\* Variant: the slot after the one that is selected.
NextAfterSelected == ChooseTarget(BootIndex(otadata))

\* esp_ota_get_next_update_partition(NULL): the slot after the running one.
NextUpdatePartition == ChooseTarget(running)

BadBegin(f) == ~f.sound \/ f.size = 0
NoRoom(f)   == NextUpdatePartition = NoTarget \/ f.size > SlotSize

\* begin_update drops the update under way before it looks at the target.
Dropped ==
  IF update_state = "RECEIVING" THEN AbortUpdate ELSE UNCHANGED update

RefuseBegin(f) ==
  /\ InOrder(f) /\ f.command = "BEGIN"
  /\ \/ BadBegin(f) /\ UNCHANGED update
     \/ ~BadBegin(f) /\ NoRoom(f) /\ Dropped
  /\ Refuse(f, "ERR_LENGTH")
  /\ Stamp(Quick)
  /\ UNCHANGED flash

CanBegin(f) ==
  InOrder(f) /\ f.command = "BEGIN" /\ ~BadBegin(f) /\ ~NoRoom(f)

Begin(f) ==
  /\ CanBegin(f)
  /\ slot' = [slot EXCEPT ![NextUpdatePartition] = EraseTo(@, EraseEnd(f.size))]
  /\ open' = HandlesLeft + 1
  /\ update_state' = "RECEIVING"
  /\ target_partition' = NextUpdatePartition
  /\ image_size' = f.size /\ next_offset' = 0
  /\ expected_sha256' = f.data
  /\ Accept(f, has_last_response)
  /\ Stamp(Long)
  /\ UNCHANGED otadata

BeginFails(f) ==
  /\ CanBegin(f)
  /\ \E c \in TornErase(slot[NextUpdatePartition], EraseEnd(f.size)) :
       slot' = [slot EXCEPT ![NextUpdatePartition] = c]
  /\ Dropped
  /\ Refuse(f, "ERR_FLASH")
  /\ Stamp(Long)
  /\ UNCHANGED otadata

\* ------------------------------------------------------------------ DATA ----
\* Variant: the block need only fit into the slot.
ExceedsSlot(f) == Len(f.data) > SlotSize - next_offset

Exceeds(f) == Len(f.data) > image_size - next_offset

DataStatus(f) ==
  IF update_state # "RECEIVING" THEN "ERR_STATE"
  ELSE IF f.data = <<>> THEN "ERR_LENGTH"
  ELSE IF f.offset # next_offset THEN "ERR_OFFSET"
  ELSE IF Exceeds(f) THEN "ERR_LENGTH"
  ELSE "OK"

RefuseData(f) ==
  /\ InOrder(f) /\ f.command = "DATA"
  /\ DataStatus(f) # "OK"
  /\ UNCHANGED <<flash, update>>
  /\ Refuse(f, DataStatus(f))
  /\ Stamp(Quick)

Data(f) ==
  /\ InOrder(f) /\ f.command = "DATA"
  /\ DataStatus(f) = "OK"
  /\ slot' = [slot EXCEPT ![target_partition] = Program(@, next_offset, f.data)]
  /\ next_offset' = next_offset + Len(f.data)
  /\ Accept(f, has_last_response)
  /\ Stamp(Quick)
  /\ UNCHANGED <<otadata, open, update_state, target_partition, image_size,
                 expected_sha256>>

DataFails(f) ==
  /\ InOrder(f) /\ f.command = "DATA"
  /\ DataStatus(f) = "OK"
  /\ \E c \in TornProgram(slot[target_partition], next_offset, f.data) :
       slot' = [slot EXCEPT ![target_partition] = c]
  /\ UNCHANGED <<otadata, update>>
  /\ Refuse(f, "ERR_FLASH")
  /\ Stamp(Quick)

\* ------------------------------------------------------------------- END ----
\* Variant: esp_ota_end takes anything for an image.
AnyImage == TRUE

ImageVerifies == Bootable(slot[target_partition])

\* Variant: the read-back is not compared.
AnyDigest == TRUE

DigestMatches == SubSeq(slot[target_partition], 1, image_size) = expected_sha256

EarlyEndStatus(f) ==
  IF ~f.sound THEN "ERR_LENGTH"
  ELSE IF update_state # "RECEIVING" THEN "ERR_STATE"
  ELSE IF next_offset # image_size THEN "ERR_LENGTH"
  ELSE "OK"

RefuseEnd(f) ==
  /\ InOrder(f) /\ f.command = "END"
  /\ EarlyEndStatus(f) # "OK"
  /\ UNCHANGED <<flash, update>>
  /\ Refuse(f, EarlyEndStatus(f))
  /\ Stamp(Quick)

CanEnd(f) == InOrder(f) /\ f.command = "END" /\ EarlyEndStatus(f) = "OK"

\* esp_ota_end, the read-back or esp_ota_set_boot_partition goes wrong: the
\* update is over.  Only the last of them writes to otadata, and one that
\* reports an error has at most lost the entry not in force.
EndFails(f) ==
  /\ CanEnd(f)
  /\ open' = open - 1
  /\ update_state' = "IDLE" /\ next_offset' = 0
  /\ UNCHANGED <<slot, target_partition, image_size, expected_sha256>>
  /\ \/ UNCHANGED otadata /\ Refuse(f, "ERR_IMAGE")
     \/ ImageVerifies /\ UNCHANGED otadata /\ Refuse(f, "ERR_FLASH")
     \/ ImageVerifies /\ ~DigestMatches /\ UNCHANGED otadata /\ Refuse(f, "ERR_HASH")
     \/ /\ ImageVerifies /\ DigestMatches
        /\ otadata' = [otadata EXCEPT ![NextEntry(otadata)] = Blank]
        /\ Refuse(f, "ERR_FLASH")
  /\ Stamp(Quick)

\* esp_ota_set_boot_partition is bounded by SeqMax, as ota_seq is.
End(f) ==
  /\ CanEnd(f)
  /\ ImageVerifies /\ DigestMatches
  /\ NextSeq(otadata, target_partition) < SeqMax
  /\ otadata' =
       [otadata EXCEPT ![NextEntry(otadata)] = NextSeq(otadata, target_partition)]
  /\ open' = open - 1
  /\ update_state' = "COMMITTED"
  /\ UNCHANGED <<slot, target_partition, image_size, next_offset, expected_sha256>>
  /\ Accept(f, has_last_response)
  /\ Stamp(Quick)

\* -------------------------------------------------------------- the task ----
ProcessFrame(f) ==
  \/ Repeat(f) \/ RefuseVersion(f) \/ RefuseSequence(f) \/ RefuseOther(f)
  \/ Hello(f) \/ Info(f) \/ AbortOrBoot(f)
  \/ RefuseBegin(f) \/ Begin(f) \/ BeginFails(f)
  \/ RefuseData(f) \/ Data(f) \/ DataFails(f)
  \/ RefuseEnd(f) \/ End(f) \/ EndFails(f)

Receive(f) == ~restarting /\ ProcessFrame(f)

\* Variant: only an update can time out.
ExpiredUpdate(t) == update_state = "RECEIVING" /\ t >= SessionTicks

Expired(t) == session_active /\ t >= SessionTicks

\* Variant: a session that times out keeps its update.
KeepUpdate == UNCHANGED update

Release == AbortUpdate

Expire(t) ==
  /\ ~restarting
  /\ Expired(t)
  /\ Release
  /\ expected_sequence' = 0 /\ session_active' = FALSE
  /\ has_last_response' = FALSE
  /\ age' = 0 /\ reply' = NoReply
  /\ UNCHANGED <<running, flash, last_request, last_response, restarting>>

\* The loop after a read of 100 ms that brought nothing.
ReadTimeout ==
  \/ Expire(age + 1)
  \/ /\ ~restarting
     /\ session_active /\ ~Expired(age + 1)
     /\ age' = IF age < SessionTicks THEN age + 1 ELSE age
     /\ reply' = NoReply
     /\ UNCHANGED <<running, flash, update, session, cache, restarting>>

\* The loop after a read whose frames have been handled.
ChunkEnd == Expire(age)

\* esp_restart, the reset line or a power failure.  The bootloader starts the
\* selected image, or another one that verifies; its own session with a host
\* is not part of this module.
Loadable == {b \in Slots : Bootable(slot[b])} \cup {Factory}

Reboot ==
  /\ IF BootIndex(otadata) \in Loadable THEN running' = BootIndex(otadata)
     ELSE running' \in Loadable
  /\ open' = 0 /\ update_state' = "IDLE" /\ target_partition' = NoTarget
  /\ image_size' = 0 /\ next_offset' = 0 /\ expected_sha256' = <<>>
  /\ expected_sequence' = 0 /\ session_active' = FALSE
  /\ has_last_response' = FALSE /\ last_request' = NoFrame
  /\ last_response' = NoReply
  /\ age' = 0 /\ reply' = NoReply /\ restarting' = FALSE
  /\ UNCHANGED flash

Init ==
  /\ otadata \in InitOtadata
  /\ slot \in [Slots -> InitCells]
  /\ SelectedBootable(otadata, slot)
  /\ running = BootIndex(otadata)
  /\ open = 0 /\ update_state = "IDLE" /\ target_partition = NoTarget
  /\ image_size = 0 /\ next_offset = 0 /\ expected_sha256 = <<>>
  /\ expected_sequence = 0 /\ session_active = FALSE
  /\ has_last_response = FALSE /\ last_request = NoFrame
  /\ last_response = NoReply
  /\ age = 0 /\ reply = NoReply /\ restarting = FALSE

\* The steps the device takes by itself.
Loop == ReadTimeout \/ ChunkEnd \/ (restarting /\ Reboot)

Line == \E f \in Frames : Receive(f)

Next == Loop \/ Line \/ Reboot

Spec == Init /\ [][Next]_vars

\* FreeRTOS goes on scheduling the task.
FairSpec == Spec /\ WF_vars(Loop)

\* ------------------------------------------------------------- properties ----
AnswerType == [command: Commands, seq: 0..(SeqMod - 1), payload: Reply]

TypeOK ==
  /\ running \in Slots \cup {Factory}
  /\ otadata \in Otadata
  /\ slot \in [Slots -> Cells]
  /\ open \in Nat
  /\ update_state \in {"IDLE", "RECEIVING", "COMMITTED"}
  /\ target_partition \in Slots \cup {NoTarget}
  /\ image_size \in 0..SlotSize /\ next_offset \in 0..image_size
  /\ expected_sha256 \in Seq(Byte)
  /\ expected_sequence \in 0..(SeqMod - 1)
  /\ session_active \in BOOLEAN /\ has_last_response \in BOOLEAN
  /\ last_request \in Frame \cup {NoFrame}
  /\ last_response \in AnswerType \cup {NoReply}
  /\ age \in 0..SessionTicks
  /\ reply \in AnswerType \cup {NoReply}
  /\ restarting \in BOOLEAN

\* The boot selection names an image that verifies, whatever the requests, the
\* flash errors and the power do (begin_update, write_update, finish_update).
SelectedAlwaysBootable == SelectedBootable(otadata, slot)

\* bootloader_interface.md:30: an OTA slot is erased and written only while it
\* is inactive, that is, not the one the boot selection names.
SelectedSlotUntouched ==
  [][\A s \in Slots : s = BootIndex(otadata) => slot'[s] = slot[s]]_vars

\* The image that executes is not erased or written under its own feet, also
\* after a commit whose response did not get out.
RunningSlotUntouched ==
  [][\A s \in Slots : s = running => slot'[s] = slot[s]]_vars

\* The selection moves only at an END, to a slot that holds an image and whose
\* declared part has the declared digest.
SelectionMovesToVerified ==
  [][BootIndex(otadata') # BootIndex(otadata) =>
       /\ update_state = "RECEIVING"
       /\ BootIndex(otadata') = target_partition
       /\ Bootable(slot[target_partition])
       /\ SubSeq(slot[target_partition], 1, image_size) = expected_sha256]_vars

\* An update lives in the session that began it: a session that has timed out has
\* none, and neither has one whose latest request is the HELLO that opened it, so
\* DATA of a new session never goes on with the update of an older one, whichever
\* responses were lost or refused in between (session_hello and release_session).
UpdateBelongsToSession ==
  update_state = "RECEIVING" => session_active /\ ~RestartsSession(last_request)

\* The service holds a handle of esp_ota_begin exactly while it receives: none
\* leaks, none is given back twice, through all the error paths.
OneOpenHandle == open = IF update_state = "RECEIVING" THEN 1 ELSE 0

\* protocol.md section 4: an accepted request that is sent again is not carried
\* out again, also when the first response did not get out.  (HELLO may be.)
RepeatHasNoEffect ==
  [][\A f \in Frames :
       Key(f) = last_request /\ f.command # "HELLO" =>
         (Receive(f) => UNCHANGED <<flash, update, session>>)]_vars

\* protocol.md:53: the device recognises a repeated request and sends the
\* cached response to it.
RepeatGetsItsResponse ==
  [][\A f \in Frames :
       Repeat(f) => \/ reply' = NoReply
                    \/ reply'.command = f.command /\ reply'.seq = f.seq]_vars

\* protocol.md:133: a session ends when it has been idle; one that has answered
\* a request since the latest empty read has not.
ExpiresOnlyIdle ==
  [][session_active /\ ~session_active' /\ ~restarting /\ ~Reboot => reply = NoReply]_vars

\* Once the line is silent and the power stays on, the session and its update are
\* released, so a host that went away does not keep the service busy.
QuietLineReleases ==
  <>[][Loop]_vars => <>[](~session_active /\ update_state = "IDLE" /\ open = 0)
=============================================================================

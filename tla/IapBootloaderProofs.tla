------------------------ MODULE IapBootloaderProofs ------------------------
(***************************************************************************)
(* Safety of the bootloader for every slot size, every set of images and   *)
(* every set of frames, by an inductive invariant.                         *)
(***************************************************************************)
EXTENDS IapBootloader, SerialIapProofs, SequenceTheorems

\* -------------------------------------------------- the inductive invariant --
\* The target chosen at the start stays the slot that the selection does not
\* name until the moment of the commit, whatever is read in between.
TargetInv ==
  pc \in {"entry", "session", "erase", "write", "otaErase", "otaWrite"} =>
    target_index = ChooseTarget(BootIndex(otadata))

\* Only a device with a target ever gets as far as an update.
UpdateInv ==
  /\ pc = "erase" => target_index \in Slots
  /\ update_active =>
       /\ pc \in {"session", "write", "otaErase", "otaWrite"}
       /\ target_index \in Slots

\* The request in progress still passes the checks that admitted it.
RequestInv ==
  /\ pc = "erase" => BeginStatus(frame) = "OK"
  /\ pc = "write" => update_active /\ DataStatus(frame) = "OK"

\* While otadata is being changed the target holds the declared image.
CommitInv ==
  pc \in {"otaErase", "otaWrite"} =>
    /\ update_active
    /\ DigestMatches
    /\ ImageVerifies
    /\ ~SeqOverflows(otadata, target_index)

IInv ==
  /\ TypeOK
  /\ SelectedAlwaysBootable
  /\ TargetInv
  /\ UpdateInv
  /\ RequestInv
  /\ CommitInv

\* ------------------------------------------------------------------- types --
\* write_buffer holds bytes, its padding included.
LEMMA PaddedType ==
  ASSUME NEW data \in Seq(Byte)
  PROVE  Padded(data) \in Seq(Byte)
<1> DEFINE n == (Align - (Len(data) % Align)) % Align
<1>1. n \in Nat  BY IapAssumption
<1>2. [i \in 1..n |-> Erased] \in Seq(Byte)  BY <1>1, IapAssumption
<1> QED  BY <1>2 DEF Padded

\* An accepted request advances the sequence within its width and is cached.
LEMMA AcceptType ==
  ASSUME NEW f \in Frame, NEW o \in Nat, Accept(f, o)
  PROVE  /\ expected_sequence' \in 0..(SeqMod - 1)
         /\ last' \in [request: Frame, response: Reply]
         /\ reply' \in Reply
<1>1. expected_sequence' \in 0..(SeqMod - 1)
  BY IapAssumption DEF Accept, Frame
<1>2. reply' \in Reply
  BY <1>1, ResponseType DEF Accept, Statuses
<1> QED  BY <1>1, <1>2, KeyType DEF Accept

\* abandon_update leaves no update, and its fields in their types.
LEMMA AbandonType ==
  ASSUME Abandon
  PROVE  /\ update_active' \in BOOLEAN
         /\ image_size' \in 0..SlotSize /\ next_offset' \in 0..image_size'
         /\ expected_sha256' \in Seq(Byte)
<1>1. SlotSize \in Nat  BY IapAssumption
<1>2. <<>> \in Seq(Byte)  OBVIOUS
<1>3. 0 \in 0..SlotSize /\ 0 \in 0..0  BY <1>1
<1> QED  BY <1>2, <1>3 DEF Abandon

\* ------------------------------------------------- requests in a session --
\* A refused request changes nothing the invariant speaks of.
LEMMA RefuseStep ==
  ASSUME IInv, NEW status \in Statuses, Refuse(status), idle' \in 0..(SessionTicks - 1)
  PROVE  IInv'
<1>1. reply' \in Reply  BY ResponseType DEF Refuse, IInv, TypeOK
<1> USE DEF IInv, Refuse, flash, update, session
<1>2. TypeOK'  BY <1>1 DEF TypeOK, FlashBusy
<1>3. SelectedAlwaysBootable'  BY DEF SelectedAlwaysBootable
<1>4. TargetInv' /\ UpdateInv'  BY DEF TargetInv, UpdateInv
<1>5. RequestInv'
  BY DEF RequestInv, BeginStatus, DataStatus, Exceeds, Ragged
<1>6. CommitInv'  BY DEF CommitInv, DigestMatches, ImageVerifies
<1> QED  BY <1>2, <1>3, <1>4, <1>5, <1>6

\* A request preserves the invariant, in the entry window and in a session.
LEMMA ProcessFrameStep ==
  ASSUME IInv, NEW f \in Frames, ProcessFrame(f), idle' \in 0..(SessionTicks - 1),
         pc \in {"entry", "session"}
  PROVE  IInv'
<1> USE DEF IInv
<1>0. f \in Frame  BY IapAssumption
<1>a. TypeOK /\ ~FlashBusy  BY DEF FlashBusy
<1>1. CASE Repeat(f)
  <2> USE <1>1 DEF Repeat, flash, update, session
  <2>1. reply' = NoReply \/ reply' \in Reply
    BY <1>a DEF TypeOK, NoRequest
  <2>2. TypeOK'  BY <1>a, <2>1 DEF TypeOK, FlashBusy
  <2>3. SelectedAlwaysBootable'  BY DEF SelectedAlwaysBootable
  <2>4. TargetInv' /\ UpdateInv'  BY DEF TargetInv, UpdateInv
  <2>5. RequestInv' /\ CommitInv'  BY DEF RequestInv, CommitInv
  <2> QED  BY <2>2, <2>3, <2>4, <2>5
<1>2. CASE RefuseVersion(f) \/ RefuseSequence(f) \/ RefuseOther(f)
  BY <1>2, RefuseStep DEF RefuseVersion, RefuseSequence, RefuseOther, Statuses
<1>3. CASE RefuseBegin(f)
  <2>1. BeginStatus(f) \in Statuses  BY DEF BeginStatus, Statuses
  <2> QED  BY <1>3, <2>1, RefuseStep DEF RefuseBegin
<1>4. CASE RefuseData(f)
  <2>1. DataStatus(f) \in Statuses  BY DEF DataStatus, Statuses
  <2> QED  BY <1>4, <2>1, RefuseStep DEF RefuseData
<1>5. CASE RefuseEnd(f)
  <2>1. EndStatuses(f) \subseteq Statuses  BY DEF EndStatuses, Statuses
  <2> QED  BY <1>5, <2>1, RefuseStep DEF RefuseEnd
<1>6. CASE Hello(f) \/ Abort(f) \/ Boot(f)
  <2>1. Accept(f, 0) /\ Abandon /\ UNCHANGED <<flash, target_index, frame, running>>
    BY <1>6 DEF Hello, Abort, Boot
  <2>2. pc' \in {"entry", "session", "boot"}
    BY <1>6 DEF Hello, Abort, Boot
  <2>3. TypeOK'
    BY <1>a, <1>0, <2>1, <2>2, AcceptType, AbandonType
    DEF TypeOK, FlashBusy, flash
  <2>4. SelectedAlwaysBootable' /\ TargetInv'
    BY <2>1, <2>2 DEF SelectedAlwaysBootable, TargetInv, flash
  <2>5. UpdateInv' /\ RequestInv' /\ CommitInv'
    BY <2>1, <2>2 DEF UpdateInv, RequestInv, CommitInv, Abandon
  <2> QED  BY <2>3, <2>4, <2>5
<1>7. CASE Info(f)
  <2> USE <1>7 DEF Info, flash, update
  <2>1. next_offset \in Nat  BY <1>a DEF TypeOK
  <2>2. TypeOK'
    BY <1>a, <1>0, <2>1, AcceptType DEF TypeOK, FlashBusy
  <2>3. SelectedAlwaysBootable'  BY DEF SelectedAlwaysBootable
  <2>4. TargetInv' /\ UpdateInv'  BY DEF TargetInv, UpdateInv
  <2>5. RequestInv' /\ CommitInv'  BY DEF RequestInv, CommitInv
  <2> QED  BY <2>2, <2>3, <2>4, <2>5
<1>8. CASE Begin(f)
  <2> USE <1>8 DEF Begin, flash, session
  <2>1. TypeOK'
    BY <1>a, <1>0, AbandonType DEF TypeOK, FlashBusy
  <2>2. SelectedAlwaysBootable' /\ TargetInv'
    BY DEF SelectedAlwaysBootable, TargetInv
  <2>3. target_index' \in Slots
    BY <1>a DEF BeginStatus, TypeOK
  <2>4. BeginStatus(f)' = "OK"  BY DEF BeginStatus
  <2>5. UpdateInv' /\ RequestInv' /\ CommitInv'
    BY <2>3, <2>4 DEF UpdateInv, RequestInv, CommitInv, BeginStatus, Abandon
  <2> QED  BY <2>1, <2>2, <2>5
<1>9. CASE Data(f)
  <2> USE <1>9 DEF Data, flash, update, session
  <2>1. TypeOK'  BY <1>a, <1>0 DEF TypeOK, FlashBusy
  <2>2. SelectedAlwaysBootable' /\ TargetInv'
    BY DEF SelectedAlwaysBootable, TargetInv
  <2>3. update_active  BY DEF DataStatus
  <2>4. DataStatus(frame)' = "OK"  BY DEF DataStatus, Exceeds, Ragged
  <2>5. UpdateInv' /\ RequestInv' /\ CommitInv'
    BY <2>3, <2>4 DEF UpdateInv, RequestInv, CommitInv
  <2> QED  BY <2>1, <2>2, <2>5
<1>10. CASE End(f)
  <2> USE <1>10 DEF End, flash, update, session
  <2>1. TypeOK'  BY <1>a, <1>0 DEF TypeOK, FlashBusy
  <2>2. SelectedAlwaysBootable' /\ TargetInv'
    BY DEF SelectedAlwaysBootable, TargetInv
  <2>3. /\ update_active /\ DigestMatches /\ ImageVerifies
        /\ ~SeqOverflows(otadata, target_index)
    BY DEF EndStatuses
  <2>4. CommitInv'
    BY <2>3 DEF CommitInv, DigestMatches, ImageVerifies
  <2>5. UpdateInv' /\ RequestInv'
    BY <2>3 DEF UpdateInv, RequestInv
  <2> QED  BY <2>1, <2>2, <2>4, <2>5
<1> QED
  BY <1>1, <1>2, <1>3, <1>4, <1>5, <1>6, <1>7, <1>8, <1>9, <1>10
  DEF ProcessFrame

\* ------------------------------------------------------- flash operations --
\* In a session the slot under the knife is not the selected one.
LEMMA TargetNotSelected ==
  ASSUME IInv, FlashBusy
  PROVE  /\ target_index \in Slots
         /\ target_index # BootIndex(otadata)
         /\ AppCount = 2
<1> USE DEF IInv, FlashBusy
<1>1. target_index \in Slots  BY DEF UpdateInv, RequestInv, CommitInv
<1>2. target_index = ChooseTarget(BootIndex(otadata))  BY DEF TargetInv
<1>3. target_index # BootIndex(otadata)
  BY <1>2, ChooseTargetType DEF TypeOK
<1>4. AppCount = 2
  BY <1>1, <1>2, OtaDataAssumption DEF ChooseTarget, Slots, NoTarget
<1> QED  BY <1>1, <1>3, <1>4

\* A change of the target alone keeps what boots.
LEMMA TargetChange ==
  ASSUME IInv, FlashBusy, UNCHANGED otadata, NEW c \in Cells,
         slot' = [slot EXCEPT ![target_index] = c]
  PROVE  /\ slot' \in [Slots -> Cells]
         /\ SelectedAlwaysBootable'
BY TargetNotSelected
DEF IInv, TypeOK, SelectedAlwaysBootable, SelectedBootable

\* The same for a change of the entry not in force.
LEMMA SpareEntryBlanked ==
  ASSUME IInv, UNCHANGED slot,
         otadata' \in {otadata, [otadata EXCEPT ![NextEntry(otadata)] = Blank]}
  PROVE  /\ otadata' \in Otadata
         /\ BootIndex(otadata') = BootIndex(otadata)
         /\ SelectedAlwaysBootable'
<1>1. otadata \in Otadata  BY DEF IInv, TypeOK
<1>2. otadata' \in Otadata /\ BootIndex(otadata') = BootIndex(otadata)
  BY <1>1, EraseNextKeepsSelection
<1> QED
  BY <1>2 DEF IInv, SelectedAlwaysBootable, SelectedBootable

\* Writing the new entry selects the target or, when the sequence has run out,
\* nothing new.
LEMMA EntryWritten ==
  ASSUME IInv, pc = "otaWrite", UNCHANGED slot,
         otadata' = Committed(otadata, target_index)
  PROVE  /\ otadata' \in Otadata
         /\ IF NextSeq(otadata, target_index) # Blank
            THEN BootIndex(otadata') = target_index
            ELSE BootIndex(otadata') = BootIndex(otadata)
         /\ SelectedAlwaysBootable'
<1>1. FlashBusy /\ otadata \in Otadata  BY DEF FlashBusy, IInv, TypeOK
<1>2. ~SeqOverflows(otadata, target_index) /\ ImageVerifies
  BY DEF IInv, CommitInv
<1>3. /\ otadata' \in Otadata
      /\ IF NextSeq(otadata, target_index) # Blank
         THEN BootIndex(otadata') = target_index
         ELSE BootIndex(otadata') = BootIndex(otadata)
  BY <1>1, <1>2, TargetNotSelected, CommitSelects DEF Committed
<1>4. Bootable(slot[target_index])  BY <1>2 DEF ImageVerifies, Bootable
<1>5. SelectedAlwaysBootable'
  BY <1>3, <1>4 DEF IInv, SelectedAlwaysBootable, SelectedBootable
<1> QED  BY <1>3, <1>5

\* A flash operation has a request to work on.
LEMMA FrameType ==
  ASSUME IInv, FlashBusy
  PROVE  frame \in Frame /\ frame.data \in Seq(Byte) /\ next_offset \in Nat
BY IapAssumption DEF IInv, TypeOK, Frame

\* A flash operation that reports an error leads back to the session.
LEMMA FailsType ==
  ASSUME IInv, FlashBusy, Fails("ERR_FLASH", next_offset), 
         slot' \in [Slots -> Cells], otadata' \in Otadata,
         UNCHANGED <<target_index, update, idle, running>>
  PROVE  /\ TypeOK'
         /\ RequestInv' /\ CommitInv' /\ UpdateInv'
<1>1. reply' \in Reply
  BY ResponseType, FrameType DEF Fails, IInv, TypeOK, Statuses
<1>2. TypeOK'
  BY <1>1 DEF Fails, IInv, TypeOK, FlashBusy, update, session
<1>3. UpdateInv'
  BY TargetNotSelected DEF Fails, IInv, UpdateInv, update
<1> QED
  BY <1>2, <1>3 DEF Fails, RequestInv, CommitInv

\* The erase of BEGIN preserves the invariant, done or failed.
LEMMA EraseStep ==
  ASSUME IInv, EraseDone \/ EraseFails
  PROVE  IInv'
<1>0. FlashBusy /\ UNCHANGED otadata  BY DEF EraseDone, EraseFails, FlashBusy
<1>a. slot[target_index] \in Cells
  BY <1>0, TargetNotSelected DEF IInv, TypeOK
<1>1. CASE EraseDone
  <2>1. slot' \in [Slots -> Cells] /\ SelectedAlwaysBootable'
    <3>1. EraseTo(slot[target_index], EraseEnd(frame.size)) \in Cells
      BY <1>a, EraseToType
    <3> QED  BY <1>0, <1>1, <3>1, TargetChange DEF EraseDone
  <2>2. frame.size \in 1..SlotSize
    BY <1>1 DEF EraseDone, IInv, RequestInv, BeginStatus
  <2>3. TypeOK'
    BY <1>0, <1>1, <2>1, <2>2, FrameType, AcceptType, IapAssumption
    DEF EraseDone, IInv, TypeOK, FlashBusy
  <2>4. TargetInv' /\ UpdateInv'
    BY <1>0, <1>1, TargetNotSelected DEF EraseDone, IInv, TargetInv, UpdateInv
  <2>5. RequestInv' /\ CommitInv'
    BY <1>1 DEF EraseDone, RequestInv, CommitInv
  <2> QED  BY <2>1, <2>3, <2>4, <2>5 DEF IInv
<1>2. CASE EraseFails
  <2>1. slot' \in [Slots -> Cells] /\ SelectedAlwaysBootable'
    <3>1. PICK c \in TornErase(slot[target_index], EraseEnd(frame.size)) :
            slot' = [slot EXCEPT ![target_index] = c]
      BY <1>2 DEF EraseFails
    <3>2. c \in Cells  BY <1>a, TornEraseType
    <3> QED  BY <1>0, <3>1, <3>2, TargetChange
  <2>2. TypeOK' /\ RequestInv' /\ CommitInv' /\ UpdateInv'
    BY <1>0, <1>2, <2>1, FailsType DEF EraseFails, IInv, TypeOK
  <2>3. TargetInv'
    BY <1>0, <1>2 DEF EraseFails, IInv, TargetInv, FlashBusy
  <2> QED  BY <2>1, <2>2, <2>3 DEF IInv
<1> QED  BY <1>1, <1>2

\* The write of DATA preserves the invariant, done or failed.
LEMMA WriteStep ==
  ASSUME IInv, WriteDone \/ WriteFails
  PROVE  IInv'
<1>0. FlashBusy /\ UNCHANGED otadata  BY DEF WriteDone, WriteFails, FlashBusy
<1>a. slot[target_index] \in Cells /\ Padded(frame.data) \in Seq(Byte)
  BY <1>0, TargetNotSelected, FrameType, PaddedType DEF IInv, TypeOK
<1>1. CASE WriteDone
  <2>1. slot' \in [Slots -> Cells] /\ SelectedAlwaysBootable'
    <3>1. Program(slot[target_index], next_offset, Padded(frame.data)) \in Cells
      BY <1>0, <1>a, FrameType, ProgramType
    <3> QED  BY <1>0, <1>1, <3>1, TargetChange DEF WriteDone
  <2>2. next_offset + Len(frame.data) \in 0..image_size
    BY <1>0, <1>1, FrameType, IapAssumption
    DEF WriteDone, IInv, RequestInv, DataStatus, Exceeds, TypeOK
  <2>3. TypeOK'
    <3>1. next_offset' \in Nat
      BY <1>0, <1>1, FrameType DEF WriteDone
    <3>2. /\ expected_sequence' \in 0..(SeqMod - 1) /\ reply' \in Reply
          /\ last' \in [request: Frame, response: Reply]
      BY <1>0, <1>1, <3>1, FrameType, AcceptType DEF WriteDone
    <3> QED
      BY <1>0, <1>1, <2>1, <2>2, <3>2 DEF WriteDone, IInv, TypeOK, FlashBusy
  <2>4. TargetInv' /\ UpdateInv'
    BY <1>0, <1>1, TargetNotSelected DEF WriteDone, IInv, TargetInv, UpdateInv
  <2>5. RequestInv' /\ CommitInv'
    BY <1>1 DEF WriteDone, RequestInv, CommitInv
  <2> QED  BY <2>1, <2>3, <2>4, <2>5 DEF IInv
<1>2. CASE WriteFails
  <2>1. slot' \in [Slots -> Cells] /\ SelectedAlwaysBootable'
    <3>1. PICK c \in TornProgram(slot[target_index], next_offset,
                                 Padded(frame.data)) :
            slot' = [slot EXCEPT ![target_index] = c]
      BY <1>2 DEF WriteFails
    <3>2. c \in Cells  BY <1>0, <1>a, FrameType, TornProgramType
    <3> QED  BY <1>0, <3>1, <3>2, TargetChange
  <2>2. TypeOK' /\ RequestInv' /\ CommitInv' /\ UpdateInv'
    BY <1>0, <1>2, <2>1, FailsType DEF WriteFails, IInv, TypeOK
  <2>3. TargetInv'
    BY <1>0, <1>2 DEF WriteFails, IInv, TargetInv, FlashBusy
  <2> QED  BY <2>1, <2>2, <2>3 DEF IInv
<1> QED  BY <1>1, <1>2

\* The erase and the write of commit_target preserve the invariant.
LEMMA CommitStep ==
  ASSUME IInv, OtaEraseDone \/ OtaFails \/ OtaWriteDone
  PROVE  IInv'
<1>0. FlashBusy /\ UNCHANGED <<slot, target_index>> /\ pc \in {"otaErase", "otaWrite"}
  BY DEF OtaEraseDone, OtaFails, OtaWriteDone, FlashBusy
<1>1. CASE OtaEraseDone
  <2> USE <1>1 DEF OtaEraseDone, update, session
  <2>1. /\ otadata' \in Otadata /\ BootIndex(otadata') = BootIndex(otadata)
        /\ SelectedAlwaysBootable'
    BY <1>0, SpareEntryBlanked
  <2>2. TypeOK'  BY <1>0, <2>1 DEF IInv, TypeOK, FlashBusy
  <2>3. TargetInv' /\ UpdateInv'
    BY <1>0, <2>1 DEF IInv, TargetInv, UpdateInv
  <2>4. SeqOverflows(otadata, target_index)' = SeqOverflows(otadata, target_index)
    BY <1>0, TargetNotSelected, EraseNextKeepsSelection
    DEF SeqOverflows, IInv, TypeOK
  <2>5. RequestInv' /\ CommitInv'
    BY <1>0, <2>4 DEF IInv, RequestInv, CommitInv, DigestMatches, ImageVerifies
  <2> QED  BY <2>1, <2>2, <2>3, <2>5 DEF IInv
<1>2. CASE OtaFails
  <2>1. /\ otadata' \in Otadata /\ BootIndex(otadata') = BootIndex(otadata)
        /\ SelectedAlwaysBootable'
    BY <1>0, <1>2, SpareEntryBlanked DEF OtaFails
  <2>2. TypeOK' /\ RequestInv' /\ CommitInv' /\ UpdateInv'
    BY <1>0, <1>2, <2>1, FailsType DEF OtaFails, IInv, TypeOK
  <2>3. TargetInv'
    BY <1>0, <1>2, <2>1 DEF OtaFails, IInv, TargetInv
  <2> QED  BY <2>1, <2>2, <2>3 DEF IInv
<1>3. CASE OtaWriteDone
  <2>1. otadata' \in Otadata /\ SelectedAlwaysBootable'
    BY <1>0, <1>3, EntryWritten DEF OtaWriteDone
  <2>2. TypeOK'
    BY <1>0, <1>3, <2>1, FrameType, AcceptType
    DEF OtaWriteDone, IInv, TypeOK, FlashBusy
  <2>3. TargetInv' /\ UpdateInv' /\ RequestInv' /\ CommitInv'
    BY <1>3 DEF OtaWriteDone, TargetInv, UpdateInv, RequestInv, CommitInv
  <2> QED  BY <2>1, <2>2, <2>3 DEF IInv
<1> QED  BY <1>1, <1>2, <1>3

\* ----------------------------------------- start, timeouts, power failures --
LEMMA ForgetType ==
  ASSUME Forget
  PROVE  /\ update_active' = FALSE
         /\ image_size' \in 0..SlotSize /\ next_offset' \in 0..image_size'
         /\ expected_sha256' \in Seq(Byte)
         /\ expected_sequence' \in 0..(SeqMod - 1)
         /\ last' = NoRequest /\ idle' \in 0..(SessionTicks - 1)
         /\ frame' = NoFrame /\ reply' = NoReply
BY AbandonType, IapAssumption DEF Forget, Abandon

\* A step that gives the processor to something else keeps only what flash says.
LEMMA LeaveStep ==
  ASSUME IInv, Forget, target_index' = NoTarget, pc' \in {"start", "app"},
         running' \in Slots \cup {Factory, NoTarget},
         slot' \in [Slots -> Cells], otadata' \in Otadata,
         SelectedAlwaysBootable'
  PROVE  IInv'
<1>1. TypeOK'  BY ForgetType DEF TypeOK, FlashBusy
<1>2. TargetInv' /\ UpdateInv' /\ RequestInv' /\ CommitInv'
  BY ForgetType DEF TargetInv, UpdateInv, RequestInv, CommitInv
<1> QED  BY <1>1, <1>2 DEF IInv

\* A power failure preserves the invariant, wherever it strikes.
LEMMA PowerLossStep ==
  ASSUME IInv, PowerLoss
  PROVE  IInv'
<1> USE DEF PowerLoss, IInv
<1>1. CASE pc \in {"erase", "write"}
  <2>1. FlashBusy /\ UNCHANGED otadata  BY <1>1 DEF FlashBusy, CutOtadata
  <2>2. slot[target_index] \in Cells /\ Padded(frame.data) \in Seq(Byte)
    BY <2>1, TargetNotSelected, FrameType, PaddedType DEF TypeOK
  <2>3. PICK c \in TornErase(slot[target_index], EraseEnd(frame.size)) \cup
                   TornProgram(slot[target_index], next_offset,
                               Padded(frame.data)) :
          slot' = [slot EXCEPT ![target_index] = c]
    BY <1>1 DEF CutSlot
  <2>4. c \in Cells
    BY <2>1, <2>2, <2>3, FrameType, TornEraseType, TornProgramType
  <2>5. slot' \in [Slots -> Cells] /\ SelectedAlwaysBootable'
    BY <2>1, <2>3, <2>4, TargetChange
  <2> QED  BY <2>1, <2>5, LeaveStep DEF TypeOK
<1>2. CASE pc \notin {"erase", "write"}
  <2>1. UNCHANGED slot  BY <1>2 DEF CutSlot
  <2>2. otadata' \in Otadata /\ SelectedAlwaysBootable'
    <3>1. CASE pc = "otaWrite" /\ otadata' = Committed(otadata, target_index)
      BY <2>1, <3>1, EntryWritten
    <3>2. CASE otadata' \in {otadata, [otadata EXCEPT ![NextEntry(otadata)] = Blank]}
      BY <2>1, <3>2, SpareEntryBlanked
    <3> QED  BY <3>1, <3>2 DEF CutOtadata
  <2> QED  BY <2>1, <2>2, LeaveStep DEF TypeOK
<1> QED  BY <1>1, <1>2

\* The invariant holds when the device is switched on.
LEMMA InitInv == Init => IInv
<1> SUFFICES ASSUME Init PROVE IInv  OBVIOUS
<1> USE DEF Init
<1>1. TypeOK
  <2>1. \A s \in Slots : slot[s] \in Cells  BY IapAssumption
  <2>2. slot \in [Slots -> Cells]  BY <2>1
  <2>3. <<>> \in Seq(Byte) /\ 0 \in 0..SlotSize /\ 0 \in 0..0
        /\ 0 \in 0..(SeqMod - 1) /\ 0 \in 0..(SessionTicks - 1)
    BY IapAssumption
  <2> QED  BY <2>2, <2>3, IapAssumption DEF TypeOK, FlashBusy
<1>2. SelectedAlwaysBootable  BY DEF SelectedAlwaysBootable
<1>3. TargetInv /\ UpdateInv /\ RequestInv /\ CommitInv
  BY DEF TargetInv, UpdateInv, RequestInv, CommitInv
<1> QED  BY <1>1, <1>2, <1>3 DEF IInv

\* Every step preserves the invariant.
LEMMA NextInv == IInv /\ [Next]_vars => IInv'
<1> SUFFICES ASSUME IInv, [Next]_vars PROVE IInv'  OBVIOUS
<1>1. CASE UNCHANGED vars
  BY <1>1 DEF IInv, TypeOK, SelectedAlwaysBootable, TargetInv, UpdateInv,
    RequestInv, CommitInv, FlashBusy, BeginStatus, DataStatus, Exceeds, Ragged,
    DigestMatches, ImageVerifies, vars, flash, update, session
<1>2. CASE Start
  <2>1. ChooseTarget(BootIndex(otadata)) \in Slots \cup {NoTarget}
    BY ChooseTargetType DEF IInv, TypeOK
  <2>2. TypeOK'
    BY <1>2, <2>1, ForgetType DEF Start, IInv, TypeOK, FlashBusy, flash
  <2>3. SelectedAlwaysBootable' /\ TargetInv'
    BY <1>2 DEF Start, IInv, SelectedAlwaysBootable, TargetInv, flash
  <2>4. UpdateInv' /\ RequestInv' /\ CommitInv'
    BY <1>2, ForgetType DEF Start, UpdateInv, RequestInv, CommitInv
  <2> QED  BY <2>2, <2>3, <2>4 DEF IInv
<1>3. CASE EntryTimeout
  <2> USE <1>3 DEF EntryTimeout, flash, update, session, IInv
  <2>1. TypeOK'  BY DEF TypeOK, FlashBusy
  <2>2. SelectedAlwaysBootable' /\ TargetInv'
    BY DEF SelectedAlwaysBootable, TargetInv
  <2>3. UpdateInv' /\ RequestInv' /\ CommitInv'
    BY DEF UpdateInv, RequestInv, CommitInv
  <2> QED  BY <2>1, <2>2, <2>3
<1>4. CASE IdleTick
  <2>1. idle' \in 0..(SessionTicks - 1)
    BY <1>4, IapAssumption DEF IdleTick, IInv, TypeOK
  <2>2. \/ UNCHANGED <<pc, update>>
        \/ pc' = "boot" /\ Abandon
    BY <1>4 DEF IdleTick
  <2>3. TypeOK'
    BY <1>4, <2>1, <2>2, AbandonType
    DEF IdleTick, IInv, TypeOK, FlashBusy, flash, update, session
  <2>4. SelectedAlwaysBootable' /\ TargetInv'
    BY <1>4, <2>2 DEF IdleTick, IInv, SelectedAlwaysBootable, TargetInv, flash
  <2>5. UpdateInv' /\ RequestInv' /\ CommitInv'
    BY <1>4, <2>2
    DEF IdleTick, IInv, UpdateInv, RequestInv, CommitInv, Abandon, update
  <2> QED  BY <2>3, <2>4, <2>5 DEF IInv
<1>5. CASE Restart \/ RereadFails
  <2>1. SelectedAlwaysBootable'
    BY <1>5 DEF Restart, RereadFails, IInv, SelectedAlwaysBootable, flash
  <2> QED
    BY <1>5, <2>1, LeaveStep DEF Restart, RereadFails, IInv, TypeOK, flash
<1>6. CASE LoadApp
  <2>1. SelectedAlwaysBootable'
    BY <1>6 DEF LoadApp, IInv, SelectedAlwaysBootable, flash
  <2>2. running' \in Slots \cup {Factory, NoTarget}
    BY <1>6 DEF LoadApp, Loadable
  <2> QED  BY <1>6, <2>1, <2>2, LeaveStep DEF LoadApp, IInv, TypeOK, flash
<1>7. CASE PowerLoss  BY <1>7, PowerLossStep
<1>8. CASE EraseDone \/ EraseFails  BY <1>8, EraseStep
<1>9. CASE WriteDone \/ WriteFails  BY <1>9, WriteStep
<1>10. CASE OtaEraseDone \/ OtaFails \/ OtaWriteDone  BY <1>10, CommitStep
<1>11. ASSUME NEW f \in Frames, SessionFrame(f)
       PROVE  IInv'
  BY <1>11, ProcessFrameStep, IapAssumption DEF SessionFrame
<1>12. ASSUME NEW f \in Frames, EntryFrame(f)
       PROVE  IInv'
  <2>1. CASE ProcessFrame(f)
    BY <1>12, <2>1, ProcessFrameStep DEF EntryFrame, IInv, TypeOK
  <2>2. CASE pc' = "boot" /\ reply' = NoReply
             /\ UNCHANGED <<flash, target_index, update, session, frame, running>>
    <3> USE <1>12, <2>2 DEF EntryFrame, flash, update, session, IInv
    <3>1. TypeOK'  BY DEF TypeOK, FlashBusy
    <3>2. SelectedAlwaysBootable' /\ TargetInv'
      BY DEF SelectedAlwaysBootable, TargetInv
    <3>3. UpdateInv' /\ RequestInv' /\ CommitInv'
      BY DEF UpdateInv, RequestInv, CommitInv
    <3> QED  BY <3>1, <3>2, <3>3
  <2> QED  BY <1>12, <2>1, <2>2 DEF EntryFrame
<1> QED
  BY <1>1, <1>2, <1>3, <1>4, <1>5, <1>6, <1>7, <1>8, <1>9, <1>10, <1>11, <1>12
  DEF Next, Device, Line

\* ----------------------------------------------------------------- theorems --
\* The invariant holds in every reachable state.
THEOREM Invariance == Spec => []IInv
BY InitInv, NextInv, PTL DEF Spec

\* Every variable keeps its type: next_offset never passes image_size, which
\* never passes the slot, and a flash operation always has its request.
THEOREM TypeCorrect == Spec => []TypeOK
<1>1. IInv => TypeOK  BY DEF IInv
<1> QED  BY <1>1, Invariance, PTL

\* The boot selection names an image that verifies, after any requests, flash
\* errors and power failures.
THEOREM SelectionSafe == Spec => []SelectedAlwaysBootable
<1>1. IInv => SelectedAlwaysBootable  BY DEF IInv
<1> QED  BY <1>1, Invariance, PTL

\* -------------------------------------------------------- what a step can do --
\* Only an update changes a slot, and only the target.
LEMMA SlotChange ==
  ASSUME IInv, [Next]_vars
  PROVE  \A s \in Slots : s = BootIndex(otadata) => slot'[s] = slot[s]
<1>1. CASE UNCHANGED slot  BY <1>1
<1>2. CASE pc \in {"erase", "write"}
           /\ \E c : slot' = [slot EXCEPT ![target_index] = c]
  BY <1>2, TargetNotSelected DEF FlashBusy, IInv, TypeOK
<1>3. \/ UNCHANGED slot
      \/ /\ pc \in {"erase", "write"}
         /\ \E c : slot' = [slot EXCEPT ![target_index] = c]
  <2>1. CASE PowerLoss  BY <2>1 DEF PowerLoss, CutSlot
  <2>2. CASE EraseDone \/ EraseFails \/ WriteDone \/ WriteFails
    BY <2>2 DEF EraseDone, EraseFails, WriteDone, WriteFails
  <2>3. CASE \/ Start \/ EntryTimeout \/ IdleTick \/ Restart \/ LoadApp
             \/ OtaEraseDone \/ OtaFails \/ OtaWriteDone \/ RereadFails
    BY <2>3 DEF Start, EntryTimeout, IdleTick, Restart, LoadApp, OtaEraseDone,
      OtaFails, OtaWriteDone, RereadFails, flash
  <2>4. ASSUME NEW f \in Frames, ProcessFrame(f)
        PROVE  UNCHANGED flash
    BY <2>4 DEF ProcessFrame, Repeat, RefuseVersion, RefuseSequence, RefuseOther,
      Hello, Info, Abort, Boot, RefuseBegin, Begin, RefuseData, Data, RefuseEnd,
      End, Refuse
  <2>5. CASE Line
    BY <2>4, <2>5 DEF Line, SessionFrame, EntryFrame, flash
  <2>6. CASE UNCHANGED vars  BY <2>6 DEF vars, flash
  <2> QED  BY <2>1, <2>2, <2>3, <2>5, <2>6 DEF Next, Device
<1> QED  BY <1>1, <1>2, <1>3

\* The selection moves only when a commit is written.
LEMMA SelectionChange ==
  ASSUME IInv, [Next]_vars
  PROVE  \/ BootIndex(otadata') = BootIndex(otadata)
         \/ /\ pc = "otaWrite" /\ UNCHANGED slot
            /\ otadata' = Committed(otadata, target_index)
            /\ update_active' = FALSE
<1>1. CASE PowerLoss
  <2>1. pc \in {"otaErase", "otaWrite"} \/ UNCHANGED otadata
    BY <1>1 DEF PowerLoss, CutOtadata
  <2>2. CASE otadata' \in {otadata, [otadata EXCEPT ![NextEntry(otadata)] = Blank]}
    BY <2>2, EraseNextKeepsSelection DEF IInv, TypeOK
  <2>3. CASE pc = "otaWrite" /\ otadata' = Committed(otadata, target_index)
    BY <1>1, <2>3 DEF PowerLoss, CutSlot, Forget, Abandon
  <2> QED  BY <1>1, <2>1, <2>2, <2>3 DEF PowerLoss, CutOtadata
<1>2. CASE OtaEraseDone \/ OtaFails
  BY <1>2, EraseNextKeepsSelection DEF OtaEraseDone, OtaFails, IInv, TypeOK
<1>3. CASE OtaWriteDone  BY <1>3 DEF OtaWriteDone
<1>4. CASE \/ Start \/ EntryTimeout \/ IdleTick \/ Restart \/ LoadApp
           \/ EraseDone \/ EraseFails \/ WriteDone \/ WriteFails \/ RereadFails
  BY <1>4 DEF Start, EntryTimeout, IdleTick, Restart, LoadApp, EraseDone,
    EraseFails, WriteDone, WriteFails, RereadFails, flash
<1>5. ASSUME NEW f \in Frames, ProcessFrame(f)
      PROVE  UNCHANGED flash
  BY <1>5 DEF ProcessFrame, Repeat, RefuseVersion, RefuseSequence, RefuseOther,
    Hello, Info, Abort, Boot, RefuseBegin, Begin, RefuseData, Data, RefuseEnd,
    End, Refuse
<1>6. CASE Line
  BY <1>5, <1>6 DEF Line, SessionFrame, EntryFrame, flash
<1>7. CASE UNCHANGED vars  BY <1>7 DEF vars, flash
<1> QED  BY <1>1, <1>2, <1>3, <1>4, <1>6, <1>7 DEF Next, Device

\* The contents of a slot are a sequence of its length.
LEMMA CellsAreSequences ==
  ASSUME NEW c \in Cells
  PROVE  c \in Seq(Byte) /\ Len(c) = SlotSize
<1>1. SlotSize \in Nat  BY IapAssumption
<1>2. c \in [1..SlotSize -> Byte]  BY DEF Cells
<1>3. c \in Seq(Byte)  BY <1>1, <1>2
<1>4. Len(c) \in Nat /\ DOMAIN c = 1..Len(c)  BY <1>3
<1>5. 1..Len(c) = 1..SlotSize  BY <1>2, <1>4
<1>6. SlotSize <= Len(c)
  <2>1. SlotSize \in 1..SlotSize  BY IapAssumption
  <2>2. SlotSize \in 1..Len(c)  BY <2>1, <1>5
  <2> QED  BY <1>1, <1>4, <2>2
<1>7. Len(c) <= SlotSize
  <2>1. Len(c) \in 1..Len(c)  BY <1>1, <1>4, <1>6, IapAssumption
  <2>2. Len(c) \in 1..SlotSize  BY <2>1, <1>5
  <2> QED  BY <1>1, <1>4, <2>2
<1>8. \A n, m \in Nat : n <= m /\ m <= n => n = m  OBVIOUS
<1>9. Len(c) = SlotSize  BY <1>1, <1>4, <1>6, <1>7, <1>8
<1> QED  BY <1>3, <1>9

\* A prefix of a prefix is a prefix of the whole.
LEMMA PrefixOfPrefix ==
  ASSUME NEW S, NEW s \in Seq(S), NEW n \in 0..Len(s), NEW m \in 0..n
  PROVE  SubSeq(SubSeq(s, 1, n), 1, m) = SubSeq(s, 1, m)
<1> DEFINE a == SubSeq(s, 1, n)
           b == SubSeq(a, 1, m)
           d == SubSeq(s, 1, m)
<1>1. a \in Seq(S) /\ Len(a) = n /\ \A i \in 1..n : a[i] = s[i]
  OBVIOUS
<1>2. b \in Seq(S) /\ Len(b) = m /\ \A i \in 1..m : b[i] = a[i]
  BY <1>1
<1>3. d \in Seq(S) /\ Len(d) = m /\ \A i \in 1..m : d[i] = s[i]
  OBVIOUS
<1>4. \A i \in 1..Len(b) : b[i] = d[i]  BY <1>1, <1>2, <1>3
<1> HIDE DEF a, b, d
<1>5. b = d  BY <1>2, <1>3, <1>4, SeqEqual
<1> QED  BY <1>5 DEF a, b, d

\* During a commit the declared digest is that of an image, and it is the image
\* that the target holds.
LEMMA CommitsImage ==
  ASSUME IInv, pc = "otaWrite"
  PROVE  /\ expected_sha256 \in ValidImages
         /\ ImageIn(slot[target_index]) = expected_sha256
<1> DEFINE c == slot[target_index]
<1>1. DigestMatches /\ ImageVerifies  BY DEF IInv, CommitInv
<1>2. PICK img \in ValidImages : Len(img) = image_size /\ IsPrefixOf(img, c)
  BY <1>1 DEF ImageVerifies
<1>3. img = expected_sha256
  BY <1>1, <1>2 DEF DigestMatches, IsPrefixOf
<1>4. c \in Cells
  BY TargetNotSelected DEF FlashBusy, IInv, TypeOK
<1>5. ASSUME NEW other \in ValidImages, IsPrefixOf(other, c)
      PROVE  other = img
  <2>1. /\ img \in Seq(Byte) /\ other \in Seq(Byte) /\ SlotSize \in Nat
    BY IapAssumption
  <2>2. /\ img = SubSeq(c, 1, Len(img)) /\ Len(img) <= SlotSize
        /\ other = SubSeq(c, 1, Len(other)) /\ Len(other) <= SlotSize
    BY <1>2, <1>5 DEF IsPrefixOf
  <2>3. c \in Seq(Byte) /\ Len(c) = SlotSize
    BY <1>4, CellsAreSequences
  <2>4. \A n \in 0..SlotSize : \A m \in 0..n :
          SubSeq(SubSeq(c, 1, n), 1, m) = SubSeq(c, 1, m)
    BY <2>1, <2>3, PrefixOfPrefix
  <2>5. CASE Len(other) <= Len(img)
    <3>1. SubSeq(img, 1, Len(other)) = other
      BY <2>1, <2>2, <2>4, <2>5
    <3> QED  BY <2>5, <3>1, IapAssumption
  <2>6. CASE Len(img) <= Len(other)
    <3>1. SubSeq(other, 1, Len(img)) = img
      BY <2>1, <2>2, <2>4, <2>6
    <3> QED  BY <2>6, <3>1, IapAssumption
  <2> QED  BY <2>1, <2>5, <2>6
<1> QED  BY <1>2, <1>3, <1>5 DEF ImageIn

\* No request, flash error or power failure touches the slot that boots.
THEOREM SelectedUntouched == Spec => SelectedSlotUntouched
<1>1. IInv /\ [Next]_vars =>
        [\A s \in Slots : s = BootIndex(otadata) => slot'[s] = slot[s]]_vars
  BY SlotChange
<1> QED  BY <1>1, Invariance, PTL DEF Spec, SelectedSlotUntouched

\* The selection moves only to a complete image with the declared digest.
THEOREM MovesToVerified == Spec => SelectionMovesToVerified
<1> DEFINE A == BootIndex(otadata') # BootIndex(otadata) =>
                  /\ update_active
                  /\ BootIndex(otadata') = target_index
                  /\ SubSeq(slot[target_index], 1, image_size) = expected_sha256
                  /\ expected_sha256 \in ValidImages
<1>1. IInv /\ [Next]_vars => [A]_vars
  <2> SUFFICES ASSUME IInv, [Next]_vars,
                      BootIndex(otadata') # BootIndex(otadata)
               PROVE  A
    OBVIOUS
  <2>1. /\ pc = "otaWrite" /\ UNCHANGED slot
        /\ otadata' = Committed(otadata, target_index)
    BY SelectionChange
  <2>2. BootIndex(otadata') = target_index  BY <2>1, EntryWritten
  <2>3. update_active /\ DigestMatches  BY <2>1 DEF IInv, CommitInv
  <2> QED  BY <2>1, <2>2, <2>3, CommitsImage DEF DigestMatches
<1> QED  BY <1>1, Invariance, PTL DEF Spec, SelectionMovesToVerified

\* ------------------------------------------------------ the end of a commit --
\* A request other than an accepted END leads into no reset.
LEMMA FrameLeadsToNoReset ==
  ASSUME NEW f \in Frames, ProcessFrame(f), pc # "reset"
  PROVE  pc' # "reset"
BY DEF ProcessFrame, Repeat, RefuseVersion, RefuseSequence, RefuseOther, Hello,
  Info, Abort, Boot, RefuseBegin, Begin, RefuseData, Data, RefuseEnd, End, Refuse

\* Every step preserves that a committed session has selected its target.
LEMMA CommitSelectsTargetStep ==
  IInv /\ CommitSelectsTarget /\ [Next]_vars => CommitSelectsTarget'
<1> SUFFICES ASSUME IInv, CommitSelectsTarget, [Next]_vars, pc' = "reset"
             PROVE  \/ BootIndex(otadata') = target_index'
                    \/ \E e \in Entries : otadata'[e] = SeqMax - 1
  BY DEF CommitSelectsTarget
<1>1. CASE UNCHANGED vars
  BY <1>1 DEF CommitSelectsTarget, vars, flash
<1>2. CASE OtaWriteDone
  <2>1. /\ pc = "otaWrite" /\ UNCHANGED <<slot, target_index>>
        /\ otadata' = Committed(otadata, target_index)
    BY <1>2 DEF OtaWriteDone
  <2>2. CASE NextSeq(otadata, target_index) # Blank
    BY <2>1, <2>2, EntryWritten
  <2>3. CASE NextSeq(otadata, target_index) = Blank
    <3>1. otadata \in Otadata /\ FlashBusy
      BY <2>1 DEF IInv, TypeOK, FlashBusy
    <3>2. PICK e \in Entries : e # NextEntry(otadata) /\ otadata[e] = SeqMax - 1
      BY <2>3, <3>1, TargetNotSelected, SequenceRunsOut
    <3>3. otadata'[e] = otadata[e]
      BY <2>1, <3>1, <3>2 DEF Committed, Otadata
    <3> QED  BY <3>2, <3>3
  <2> QED  BY <2>2, <2>3
<1>3. CASE \/ Start \/ EntryTimeout \/ IdleTick \/ Restart \/ LoadApp
           \/ EraseDone \/ EraseFails \/ WriteDone \/ WriteFails
           \/ OtaEraseDone \/ OtaFails \/ RereadFails \/ PowerLoss
  BY <1>3 DEF Start, EntryTimeout, IdleTick, Restart, LoadApp, EraseDone,
    EraseFails, WriteDone, WriteFails, OtaEraseDone, OtaFails, RereadFails,
    PowerLoss, Fails
<1>4. CASE Line
  BY <1>4, FrameLeadsToNoReset DEF Line, SessionFrame, EntryFrame
<1> QED  BY <1>1, <1>2, <1>3, <1>4 DEF Next, Device

\* A session that resets after a commit has selected its target, as long as
\* ota_seq has not run out.
THEOREM CommitSelectsIt == Spec => []CommitSelectsTarget
<1>1. Init => CommitSelectsTarget  BY DEF Init, CommitSelectsTarget
<1> QED  BY <1>1, CommitSelectsTargetStep, Invariance, PTL DEF Spec

\* ------------------------------------------------------------- refinement --
LEMMA BootedImageStays ==
  ASSUME IInv, [Next]_vars, BootIndex(otadata') = BootIndex(otadata)
  PROVE  BootedImage' = BootedImage
BY SlotChange DEF BootedImage

\* An update ends, goes on with the digest it began with, or begins where there
\* was none.
LEMMA OfferChange ==
  ASSUME IInv, [Next]_vars
  PROVE  \/ update_active' = FALSE
         \/ UNCHANGED <<update_active, expected_sha256>>
         \/ /\ ~update_active /\ update_active'
            /\ expected_sha256' \in {f.data : f \in Frames}
<1>1. CASE EraseDone
  <2>1. ~update_active /\ frame \in Frames
    BY <1>1 DEF EraseDone, IInv, UpdateInv, TypeOK, FlashBusy
  <2> QED  BY <1>1, <2>1 DEF EraseDone
<1>2. ASSUME NEW f \in Frames, ProcessFrame(f)
      PROVE  update_active' = FALSE \/ UNCHANGED <<update_active, expected_sha256>>
  BY <1>2 DEF ProcessFrame, Repeat, RefuseVersion, RefuseSequence, RefuseOther,
    Hello, Info, Abort, Boot, RefuseBegin, Begin, RefuseData, Data, RefuseEnd,
    End, Refuse, Abandon, update
<1>3. CASE Line
  BY <1>2, <1>3 DEF Line, SessionFrame, EntryFrame, update
<1>4. CASE \/ Start \/ EntryTimeout \/ IdleTick \/ Restart \/ LoadApp
           \/ EraseFails \/ WriteDone \/ WriteFails
           \/ OtaEraseDone \/ OtaFails \/ OtaWriteDone \/ RereadFails \/ PowerLoss
  BY <1>4 DEF Start, EntryTimeout, IdleTick, Restart, LoadApp,
    EraseFails, WriteDone, WriteFails, OtaEraseDone, OtaFails, OtaWriteDone,
    RereadFails, PowerLoss, Forget, Abandon, update
<1>5. CASE UNCHANGED vars  BY <1>5 DEF vars, update
<1> QED  BY <1>1, <1>3, <1>4, <1>5 DEF Next, Device

\* The initial states map to initial states of the promise.
LEMMA RefinesInit == Init => Promise!Init
<1> SUFFICES ASSUME Init PROVE Promise!Init  OBVIOUS
<1>1. SelectedBootable(otadata, slot) /\ ~update_active  BY DEF Init
<1>2. BootedImage \in ValidImages \cup {FactoryImage}
  BY <1>1 DEF SelectedBootable, Bootable, BootedImage, ImageIn
<1> QED  BY <1>1, <1>2 DEF Promise!Init

\* Every step maps to a step of the promise or to a stutter.
LEMMA RefinesNext == IInv /\ [Next]_vars => [Promise!Next]_(Promise!vars)
<1> SUFFICES ASSUME IInv, [Next]_vars PROVE [Promise!Next]_(Promise!vars)
  OBVIOUS
<1> DEFINE offer == IF update_active THEN {expected_sha256} ELSE {}
<1>1. CASE BootIndex(otadata') = BootIndex(otadata)
  <2>1. BootedImage' = BootedImage  BY <1>1, BootedImageStays
  <2>2. CASE update_active' = FALSE
    BY <2>1, <2>2 DEF Promise!Next, Promise!Withdraw
  <2>3. CASE UNCHANGED <<update_active, expected_sha256>>
    BY <2>1, <2>3 DEF Promise!vars
  <2>4. CASE /\ ~update_active /\ update_active'
             /\ expected_sha256' \in {f.data : f \in Frames}
    BY <2>1, <2>4 DEF Promise!Next, Promise!Offer
  <2> QED  BY <2>2, <2>3, <2>4, OfferChange
<1>2. CASE BootIndex(otadata') # BootIndex(otadata)
  <2>1. /\ pc = "otaWrite" /\ UNCHANGED slot /\ update_active' = FALSE
        /\ otadata' = Committed(otadata, target_index)
    BY <1>2, SelectionChange
  <2>2. BootIndex(otadata') = target_index  BY <1>2, <2>1, EntryWritten
  <2>3. update_active /\ target_index \in Slots
    BY <2>1, TargetNotSelected DEF IInv, CommitInv, FlashBusy
  <2>4. BootedImage' = expected_sha256 /\ expected_sha256 \in ValidImages
    BY <2>1, <2>2, <2>3, CommitsImage DEF BootedImage, ImageIn
  <2> QED  BY <2>1, <2>3, <2>4 DEF Promise!Next, Promise!Switch
<1> QED  BY <1>1, <1>2

\* The bootloader implements the abstract promise: what boots is replaced as a
\* whole, by the image offered, or stays, whatever the power and flash do.
THEOREM Refinement == Spec => ImplementsBootImage
BY RefinesInit, RefinesNext, Invariance, PTL
DEF Spec, ImplementsBootImage, Promise!Spec

\* ---------------------------------------------------- the units of a write --
\* The padding of write_buffer fills the last write unit, and no more.
LEMMA PaddedLength ==
  ASSUME NEW data \in Seq(Byte)
  PROVE  /\ Len(Padded(data)) \in Nat
         /\ Len(Padded(data)) % Align = 0
         /\ Len(Padded(data)) < Len(data) + Align
<1> DEFINE n == Len(data)
           k == (Align - (n % Align)) % Align
<1>1. Align \in Nat \ {0} /\ n \in Nat  BY IapAssumption
<1>2. k \in Nat /\ k < Align  BY <1>1
<1>3. Len(Padded(data)) = n + k  BY <1>2, IapAssumption DEF Padded
<1>4. n = (Align * (n \div Align)) + (n % Align) /\ n % Align \in 0..(Align - 1) /\ n \div Align \in Nat BY <1>1
<1>5. (n + k) % Align = 0
  <2>1. CASE n % Align = 0
    <3>1. k = Align % Align  BY <2>1, <1>1
    <3>2. k = 0  BY <3>1, <1>1
    <3> QED  BY <3>2, <2>1, <1>1
  <2>2. CASE n % Align # 0
    <3>1. k = Align - (n % Align)  BY <2>2, <1>1, <1>4
    <3>2. n + k = Align * (n \div Align) + Align  BY <3>1, <1>4, <1>1
    <3>3. n + k = Align * (n \div Align + 1)  BY <3>2, <1>4, <1>1
    <3>4. n \div Align + 1 \in Nat  BY <1>4
    <3> HIDE DEF n, k
    <3> QED  BY <3>3, <3>4, <1>1, MultipleIsWhole
  <2> QED  BY <2>1, <2>2
<1> QED  BY <1>1, <1>2, <1>3, <1>5

\* Between two blocks the update stands at a unit boundary, or at its end.
AlignInv ==
  update_active => next_offset % Align = 0 \/ next_offset = image_size

\* What the invariant makes of the checks that admitted a block.
LEMMA AdmittedBlock ==
  ASSUME IInv, AlignInv, pc = "write"
  PROVE  /\ frame.data \in Seq(Byte) /\ Len(frame.data) \in Nat
         /\ image_size \in Nat /\ next_offset \in Nat
         /\ next_offset % Align = 0
         /\ next_offset + Len(frame.data) <= image_size
         /\ \/ Len(frame.data) % Align = 0
            \/ next_offset + Len(frame.data) = image_size
<1>1. frame.data \in Seq(Byte)
  BY IapAssumption DEF IInv, TypeOK, FlashBusy, Frame
<1>2. image_size \in Nat /\ next_offset \in Nat /\ next_offset <= image_size
  BY IapAssumption DEF IInv, TypeOK
<1>3. update_active /\ DataStatus(frame) = "OK"  BY DEF IInv, RequestInv
<1>4. /\ Len(frame.data) \in Nat /\ frame.data # <<>>
      /\ ~Exceeds(frame) /\ ~Ragged(frame)
  BY <1>1, <1>3 DEF DataStatus
<1>5. Len(frame.data) # 0  BY <1>1, <1>4, EmptySeq
<1>6. next_offset + Len(frame.data) <= image_size  BY <1>2, <1>4 DEF Exceeds
<1>7. next_offset % Align = 0  BY <1>2, <1>3, <1>4, <1>5, <1>6 DEF AlignInv
<1> QED  BY <1>1, <1>2, <1>4, <1>6, <1>7 DEF Ragged

\* A block that leaves the boundary is the last one.
LEMMA AlignInvStep ==
  ASSUME IInv, AlignInv, [Next]_vars
  PROVE  AlignInv'
<1>1. Align \in Nat \ {0} /\ 0 % Align = 0  BY IapAssumption
<1>2. CASE UNCHANGED update  BY <1>2 DEF AlignInv, update
<1>3. CASE ~update_active'  BY <1>3 DEF AlignInv
<1>4. CASE EraseDone  BY <1>1, <1>4 DEF AlignInv, EraseDone
<1>5. CASE WriteDone
  <2>1. pc = "write" /\ next_offset' = next_offset + Len(frame.data)
        /\ image_size' = image_size
    BY <1>5 DEF WriteDone
  <2> QED  BY <1>1, <2>1, AdmittedBlock, UnitsAdd DEF AlignInv
<1>6. UNCHANGED update \/ ~update_active' \/ EraseDone \/ WriteDone
  <2>1. CASE Start \/ Restart \/ RereadFails \/ LoadApp \/ PowerLoss
    BY <2>1 DEF Start, Restart, RereadFails, LoadApp, PowerLoss, Forget, Abandon
  <2>2. CASE EntryTimeout \/ IdleTick
    BY <2>2 DEF EntryTimeout, IdleTick, Abandon
  <2>3. CASE \/ EraseDone \/ EraseFails \/ WriteDone \/ WriteFails
             \/ OtaEraseDone \/ OtaFails \/ OtaWriteDone
    BY <2>3 DEF EraseFails, WriteFails, OtaEraseDone, OtaFails, OtaWriteDone
  <2>4. ASSUME NEW f \in Frames, ProcessFrame(f)
        PROVE  UNCHANGED update \/ ~update_active'
    BY <2>4 DEF ProcessFrame, Repeat, RefuseVersion, RefuseSequence, RefuseOther,
      Hello, Info, Abort, Boot, RefuseBegin, Begin, RefuseData, Data, RefuseEnd,
      End, Refuse, Abandon
  <2>5. ASSUME NEW f \in Frames, EntryFrame(f) \/ SessionFrame(f)
        PROVE  UNCHANGED update \/ ~update_active'
    BY <2>4, <2>5 DEF EntryFrame, SessionFrame
  <2>6. CASE UNCHANGED vars  BY <2>6 DEF vars
  <2> QED  BY <2>1, <2>2, <2>3, <2>5, <2>6 DEF Next, Device, Line
<1> QED  BY <1>2, <1>3, <1>4, <1>5, <1>6

\* write_update hands the flash driver whole units, inside what BEGIN has erased.
THEOREM WritesAreSafe == Spec => []WriteInErasedUnits
<1>1. Init => AlignInv  BY DEF Init, AlignInv
<1>2. IInv /\ AlignInv => WriteInErasedUnits
  <2> SUFFICES ASSUME IInv, AlignInv, pc = "write"
               PROVE  /\ next_offset % Align = 0
                      /\ Len(Padded(frame.data)) % Align = 0
                      /\ next_offset + Len(Padded(frame.data)) <= EraseEnd(image_size)
    BY DEF WriteInErasedUnits
  <2> DEFINE n == Len(Padded(frame.data))
  <2>1. Align \in Nat \ {0}  BY IapAssumption
  <2>2. n \in Nat /\ n % Align = 0 /\ n < Len(frame.data) + Align
    BY AdmittedBlock, PaddedLength
  <2>3. (next_offset + n) % Align = 0 /\ next_offset + n \in Nat
    BY <2>1, <2>2, AdmittedBlock, UnitsAdd
  <2>4. /\ EraseEnd(image_size) \in Nat
        /\ EraseEnd(image_size) % Align = 0
        /\ image_size <= EraseEnd(image_size)
    BY AdmittedBlock, EraseEndWhole
  <2>5. next_offset + n < EraseEnd(image_size) + Align
    BY <2>1, <2>2, <2>4, AdmittedBlock
  <2>6. next_offset + n <= EraseEnd(image_size)
    BY <2>1, <2>3, <2>4, <2>5, WholeOrder
  <2> QED  BY <2>2, <2>6, AdmittedBlock
<1>3. AlignInv /\ IInv /\ [Next]_vars => AlignInv'  BY AlignInvStep
<1> QED  BY <1>1, <1>2, <1>3, Invariance, PTL DEF Spec

\* ------------------------------------------------------ the cached response --
\* A flash operation belongs to a request of its kind.
PendingInv ==
  /\ pc = "erase" => frame.command = "BEGIN"
  /\ pc = "write" => frame.command = "DATA"
  /\ pc \in {"otaErase", "otaWrite"} => frame.command = "END"

\* Only the request that starts an operation, and the first half of a commit,
\* leave an operation under way.
LEMMA PendingStep ==
  ASSUME IInv, PendingInv, [Next]_vars
  PROVE  PendingInv'
<1>1. CASE UNCHANGED vars  BY <1>1 DEF PendingInv, vars
<1>2. CASE \/ Start \/ EntryTimeout \/ Restart \/ LoadApp \/ RereadFails \/ PowerLoss
           \/ EraseDone \/ EraseFails \/ WriteDone \/ WriteFails \/ OtaFails
           \/ OtaWriteDone
  BY <1>2 DEF PendingInv, Start, EntryTimeout, Restart, LoadApp, RereadFails,
    PowerLoss, EraseDone, EraseFails, WriteDone, WriteFails, OtaFails, OtaWriteDone,
    Fails
<1>3. CASE IdleTick \/ OtaEraseDone
  BY <1>3 DEF PendingInv, IdleTick, OtaEraseDone
<1>4. ASSUME NEW f \in Frames, ProcessFrame(f)
      PROVE  PendingInv'
  BY <1>4 DEF PendingInv, ProcessFrame, Repeat, RefuseVersion, RefuseSequence,
    RefuseOther, Hello, Info, Abort, Boot, RefuseBegin, Begin, RefuseData, Data,
    RefuseEnd, End, Refuse
<1>5. CASE Line
  BY <1>4, <1>5 DEF Line, SessionFrame, EntryFrame, PendingInv
<1> QED  BY <1>1, <1>2, <1>3, <1>4, <1>5 DEF Next, Device

\* What an accepted request leaves in the cache.
LEMMA AcceptCaches ==
  ASSUME NEW f \in Frame, NEW o \in Nat, Accept(f, o)
  PROVE  /\ last'.response.status = "OK" /\ last'.response.offset = o
         /\ last'.response.expected = expected_sequence'
         /\ last'.request.seq # expected_sequence'
         /\ last'.request.command = f.command
         /\ last'.request.size = f.size /\ last'.request.data = f.data
         /\ last'.request.offset = f.offset
<1>1. last' = [request |-> Key(f), response |-> Response("OK", expected_sequence', o)]
  BY DEF Accept
<1>2. /\ Key(f).seq = f.seq /\ Key(f).command = f.command
      /\ Key(f).size = f.size /\ Key(f).data = f.data /\ Key(f).offset = f.offset
  BY DEF Key, Frame
<1>3. expected_sequence' # f.seq
  <2>1. SeqMod \in Nat /\ SeqMod > 1 /\ f.seq \in 0..(SeqMod - 1)
    BY IapAssumption DEF Frame
  <2>2. expected_sequence' = (f.seq + 1) % SeqMod  BY DEF Accept
  <2>3. CASE f.seq + 1 < SeqMod
    <3>1. (f.seq + 1) % SeqMod = f.seq + 1  BY <2>1, <2>3
    <3> QED  BY <2>1, <2>2, <3>1
  <2>4. CASE f.seq + 1 = SeqMod
    <3>1. (f.seq + 1) % SeqMod = 0  BY <2>1, <2>4
    <3> QED  BY <2>1, <2>2, <2>4, <3>1
  <2> QED  BY <2>1, <2>3, <2>4
<1> QED  BY <1>1, <1>2, <1>3 DEF Response

\* The operations that complete leave a response that is true of the update.
LEMMA DoneCaches ==
  ASSUME IInv, PendingInv, EraseDone \/ WriteDone \/ OtaWriteDone
  PROVE  CachedAnswerHolds'
<1>1. FlashBusy  BY DEF EraseDone, WriteDone, OtaWriteDone, FlashBusy
<1>2. frame \in Frame /\ next_offset \in Nat /\ Len(frame.data) \in Nat
  BY <1>1, FrameType
<1>3. CASE EraseDone
  <2>1. Accept(frame, 0) /\ frame.command = "BEGIN"
    BY <1>3 DEF EraseDone, PendingInv
  <2> QED
    BY <1>2, <1>3, <2>1, AcceptCaches DEF EraseDone, CachedAnswerHolds
<1>4. CASE WriteDone
  <2>1. /\ Accept(frame, next_offset + Len(frame.data)) /\ frame.command = "DATA"
        /\ next_offset' = next_offset + Len(frame.data)
    BY <1>4 DEF WriteDone, PendingInv
  <2>2. frame.offset = next_offset
    BY <1>4 DEF WriteDone, IInv, RequestInv, DataStatus
  <2>3. next_offset + Len(frame.data) \in Nat  BY <1>2
  <2> QED
    BY <1>2, <2>1, <2>2, <2>3, AcceptCaches DEF CachedAnswerHolds
<1>5. CASE OtaWriteDone
  <2>1. Accept(frame, next_offset) /\ update_active' = FALSE
    BY <1>5 DEF OtaWriteDone
  <2> QED
    BY <1>2, <2>1, AcceptCaches DEF CachedAnswerHolds
<1> QED  BY <1>3, <1>4, <1>5

\* A request that is answered at once leaves it true: HELLO, ABORT and BOOT give
\* the update up, INFO tells where it stands, and a refusal changes nothing.
LEMMA FrameCaches ==
  ASSUME IInv, CachedAnswerHolds, NEW f \in Frames, ProcessFrame(f)
  PROVE  CachedAnswerHolds'
<1>1. f \in Frame /\ next_offset \in Nat
  BY IapAssumption DEF IInv, TypeOK
<1>2. CASE UNCHANGED <<update, session>>
  BY <1>2 DEF CachedAnswerHolds, update, session
<1>3. CASE Begin(f)
  BY <1>3 DEF Begin, Abandon, CachedAnswerHolds, session
<1>4. CASE Hello(f) \/ Abort(f) \/ Boot(f)
  <2>1. Accept(f, 0) /\ update_active' = FALSE
    BY <1>4 DEF Hello, Abort, Boot, Abandon
  <2> QED  BY <1>1, <2>1, AcceptCaches DEF CachedAnswerHolds
<1>5. CASE Info(f)
  <2>1. Accept(f, next_offset) /\ UNCHANGED update /\ f.command = "INFO"
    BY <1>5 DEF Info
  <2> QED  BY <1>1, <2>1, AcceptCaches DEF CachedAnswerHolds, update
<1> QED
  BY <1>2, <1>3, <1>4, <1>5
  DEF ProcessFrame, Repeat, RefuseVersion, RefuseSequence, RefuseOther, RefuseBegin,
    RefuseData, Data, RefuseEnd, End, Refuse

\* Every step keeps the cached response true.
LEMMA CachedAnswerStep ==
  ASSUME IInv, PendingInv, CachedAnswerHolds, [Next]_vars
  PROVE  CachedAnswerHolds'
<1>1. CASE UNCHANGED <<update, session>>
  BY <1>1 DEF CachedAnswerHolds, update, session
<1>2. CASE UNCHANGED session /\ update_active' = FALSE
  BY <1>2 DEF CachedAnswerHolds, session
<1>3. CASE Start \/ Restart \/ LoadApp \/ RereadFails \/ PowerLoss
  BY <1>3 DEF Start, Restart, LoadApp, RereadFails, PowerLoss, Forget,
    CachedAnswerHolds
<1>4. CASE EraseDone \/ WriteDone \/ OtaWriteDone  BY <1>4, DoneCaches
<1>5. CASE EraseFails \/ WriteFails \/ OtaEraseDone \/ OtaFails
  BY <1>1, <1>5 DEF EraseFails, WriteFails, OtaEraseDone, OtaFails, Fails
<1>6. CASE EntryTimeout \/ IdleTick
  BY <1>1, <1>2, <1>6 DEF EntryTimeout, IdleTick, Abandon
<1>7. ASSUME NEW f \in Frames, EntryFrame(f) \/ SessionFrame(f)
      PROVE  CachedAnswerHolds'
  BY <1>1, <1>7, FrameCaches DEF EntryFrame, SessionFrame
<1>8. CASE UNCHANGED vars  BY <1>1, <1>8 DEF vars
<1> QED  BY <1>3, <1>4, <1>5, <1>6, <1>7, <1>8 DEF Next, Device, Line

\* A repeat is answered with what is still true of the device: of its sequence
\* number, of the update and of what the update was declared to be.
THEOREM RepeatsAnsweredTruly == Spec => []CachedAnswerHolds
<1>1. Init => PendingInv /\ CachedAnswerHolds
  BY DEF Init, PendingInv, CachedAnswerHolds
<1>2. IInv /\ PendingInv /\ [Next]_vars => PendingInv'  BY PendingStep
<1>3. IInv /\ PendingInv /\ CachedAnswerHolds /\ [Next]_vars => CachedAnswerHolds'
  BY CachedAnswerStep
<1> QED  BY <1>1, <1>2, <1>3, Invariance, PTL DEF Spec
=============================================================================

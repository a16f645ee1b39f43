-------------------------- MODULE IapServiceProofs --------------------------
(***************************************************************************)
(* Safety of the application's service for every slot size, every set of   *)
(* images and of frames, and whichever responses fail to get out.  What    *)
(* boots is safe if the response to END always gets out: the service       *)
(* restarts only then.                                                     *)
(***************************************************************************)
EXTENDS IapService, SerialIapProofs

\* -------------------------------------------------- the inductive invariant --
EndGetsOut == "END" \notin Unsendable

\* As long as the service runs, the selection names the application that runs.
FlashInv ==
  /\ running \in Slots \cup {Factory}
  /\ otadata \in Otadata
  /\ slot \in [Slots -> Cells]
  /\ EndGetsOut =>
       /\ SelectedAlwaysBootable
       /\ ~restarting => BootIndex(otadata) = running

\* An update goes to the slot after the running one, with one handle.
UpdateInv ==
  /\ update_state \in {"IDLE", "RECEIVING", "COMMITTED"}
  /\ target_partition \in Slots \cup {NoTarget}
  /\ image_size \in 0..SlotSize /\ next_offset \in 0..image_size
  /\ expected_sha256 \in Seq(Byte)
  /\ OneOpenHandle
  /\ update_state = "RECEIVING" =>
       target_partition \in Slots /\ target_partition = NextUpdatePartition

\* A session expects the number after that of the request it accepted last.
SessionInv ==
  /\ expected_sequence \in 0..(SeqMod - 1)
  /\ session_active \in BOOLEAN /\ has_last_response \in BOOLEAN
  /\ last_request \in Frame \cup {NoFrame}
  /\ last_response \in AnswerType \cup {NoReply}
  /\ age \in 0..SessionTicks
  /\ reply \in AnswerType \cup {NoReply}
  /\ restarting \in BOOLEAN
  /\ session_active =>
       /\ last_request \in Frame
       /\ expected_sequence = (last_request.seq + 1) % SeqMod

IInv == FlashInv /\ UpdateInv /\ SessionInv /\ UpdateBelongsToSession

\* ----------------------------------------------------------------- responses --
\* A response answers a request.
LEMMA AnswerIsTyped ==
  ASSUME NEW f \in Frame, NEW status \in Statuses, NEW e \in 0..(SeqMod - 1),
         NEW o \in Nat
  PROVE  Answer(f, status, e, o) \in AnswerType
<1>1. Response(status, e, o) \in Reply  BY ResponseType
<1>2. f.command \in Commands /\ f.seq \in 0..(SeqMod - 1)  BY DEF Frame
<1> QED  BY <1>1, <1>2 DEF Answer, AnswerType

\* What the host sees of it is the response or nothing.
LEMMA SeenIsTyped ==
  ASSUME NEW a \in AnswerType \cup {NoReply}, NEW sent, reply' \in Seen(a, sent)
  PROVE  reply' \in AnswerType \cup {NoReply}
BY DEF Seen

\* The stamp of a frame lies within the idle limit.
LEMMA StampIsTyped ==
  ASSUME NEW spent, spent \in {Quick, Long}, Stamp(spent)
  PROVE  age' \in 0..SessionTicks
<1>1. SessionTicks \in Nat  BY IapAssumption
<1>2. PICK t \in spent : age' = IF session_active' THEN t ELSE 0  BY DEF Stamp
<1>3. t \in 0..SessionTicks  BY <1>1, <1>2 DEF Quick, Long
<1> QED  BY <1>1, <1>2, <1>3

\* A refused request leaves the session as it is.
LEMMA RefuseSession ==
  ASSUME SessionInv, NEW f \in Frame, NEW status \in Statuses,
         next_offset' \in Nat, Refuse(f, status), age' \in 0..SessionTicks
  PROVE  /\ SessionInv'
         /\ UNCHANGED <<running, restarting, session_active>>
<1> DEFINE a == Answer(f, status, expected_sequence, next_offset')
<1>1. a \in AnswerType  BY AnswerIsTyped DEF SessionInv
<1>2. reply' \in AnswerType \cup {NoReply}
  BY <1>1, SeenIsTyped DEF Refuse, Send
<1> QED  BY <1>2 DEF Refuse, SessionInv, session, cache

\* The sequence number after one that has been used.
LEMMA NextSequence ==
  ASSUME NEW n \in 0..(SeqMod - 1)
  PROVE  (n + 1) % SeqMod \in 0..(SeqMod - 1) /\ (n + 1) % SeqMod # n
<1>1. SeqMod \in Nat /\ SeqMod > 1 /\ n \in Nat  BY IapAssumption
<1>2. CASE n + 1 < SeqMod
  <2>1. (n + 1) % SeqMod = n + 1  BY <1>1, <1>2
  <2> QED  BY <1>1, <1>2, <2>1
<1>3. CASE n + 1 = SeqMod
  <2>1. (n + 1) % SeqMod = 0  BY <1>1, <1>3
  <2> QED  BY <1>1, <1>3, <2>1
<1> QED  BY <1>1, <1>2, <1>3

\* An accepted request opens or advances the session, and after an END whose
\* response gets out the service restarts.
LEMMA AcceptSession ==
  ASSUME SessionInv, NEW f \in Frame, NEW had \in BOOLEAN,
         next_offset' \in Nat, Accept(f, had), age' \in 0..SessionTicks
  PROVE  /\ SessionInv'
         /\ session_active' = TRUE
         /\ UNCHANGED running
         /\ EndGetsOut /\ f.command = "END" => restarting' = TRUE
<1> DEFINE a == Answer(f, "OK", expected_sequence', next_offset')
<1>0. f.seq \in 0..(SeqMod - 1)  BY DEF Frame
<1>1. expected_sequence' \in 0..(SeqMod - 1)
  BY <1>0, NextSequence DEF Accept
<1>2. a \in AnswerType  BY <1>1, AnswerIsTyped DEF Statuses
<1>3. PICK sent \in SendOutcomes(a) :
        /\ reply' \in Seen(a, sent)
        /\ last_response' = IF sent THEN a ELSE last_response
        /\ has_last_response' = (sent \/ had)
        /\ restarting' = (sent /\ Restarts(f))
  BY DEF Accept
<1>4. sent \in BOOLEAN  BY DEF SendOutcomes
<1>5. reply' \in AnswerType \cup {NoReply}  BY <1>2, <1>3, SeenIsTyped
<1>6. last_response' \in AnswerType \cup {NoReply}  BY <1>2, <1>3 DEF SessionInv
<1>7. Restarts(f) \in BOOLEAN  BY DEF Restarts
<1>8. has_last_response' \in BOOLEAN  BY <1>3, <1>4, Zenon
<1>9. restarting' \in BOOLEAN  BY <1>3, <1>4, <1>7, Zenon
<1>10. last_request' \in Frame /\ last_request'.seq = f.seq
  BY KeyType, KeyKeeps DEF Accept
<1>11. expected_sequence' = (last_request'.seq + 1) % SeqMod /\ session_active' = TRUE
  BY <1>10 DEF Accept
<1>12. ASSUME EndGetsOut, f.command = "END" PROVE restarting' = TRUE
  <2>1. a.command = "END"  BY <1>12 DEF Answer
  <2>2. sent = TRUE  BY <1>12, <2>1 DEF SendOutcomes, EndGetsOut
  <2>3. Restarts(f) = TRUE  BY <1>12 DEF Restarts
  <2> QED  BY <1>3, <2>2, <2>3, Zenon
<1> QED
  BY <1>1, <1>5, <1>6, <1>8, <1>9, <1>10, <1>11, <1>12 DEF SessionInv, Accept

\* ------------------------------------------------------ flash and the update --
\* The service updates another slot than the one it runs from.
LEMMA NextIsNotRunning ==
  ASSUME running \in Slots \cup {Factory}
  PROVE  /\ NextUpdatePartition \in Slots \cup {NoTarget}
         /\ NextUpdatePartition # running
         /\ NextUpdatePartition \in Slots => AppCount = 2
BY OtaDataAssumption
   DEF NextUpdatePartition, ChooseTarget, NoTarget, Factory, Slots

\* A request that leaves the flash alone leaves what boots as it is.
LEMMA FlashStays ==
  ASSUME FlashInv, ~restarting, UNCHANGED <<flash, running>>
  PROVE  FlashInv'
BY DEF FlashInv, flash, SelectedAlwaysBootable

\* So does one that erases or programs the slot of the update.
LEMMA TargetChanges ==
  ASSUME FlashInv, ~restarting, UNCHANGED <<otadata, running>>,
         NEW t \in Slots, t = NextUpdatePartition, NEW c \in Cells,
         slot' = [slot EXCEPT ![t] = c]
  PROVE  FlashInv'
<1>1. slot' \in [Slots -> Cells]  BY DEF FlashInv
<1>2. ASSUME EndGetsOut PROVE SelectedAlwaysBootable' /\ BootIndex(otadata') = running'
  <2>1. BootIndex(otadata) = running /\ SelectedAlwaysBootable
    BY <1>2 DEF FlashInv
  <2>2. t # running  BY NextIsNotRunning DEF FlashInv
  <2>3. slot'[running] = slot[running] \/ running \notin Slots
    BY <2>2 DEF FlashInv
  <2> QED  BY <2>1, <2>3 DEF SelectedAlwaysBootable, SelectedBootable
<1> QED  BY <1>1, <1>2 DEF FlashInv

\* The update stays.
LEMMA UpdateStays ==
  ASSUME UpdateInv, UNCHANGED <<update, running>>
  PROVE  UpdateInv' /\ update_state' = update_state /\ next_offset' \in Nat
BY IapAssumption DEF UpdateInv, update, OneOpenHandle, NextUpdatePartition

\* abort_update gives back the handle, if there is one.
LEMMA AbortedUpdate ==
  ASSUME UpdateInv, AbortUpdate
  PROVE  UpdateInv' /\ update_state' = "IDLE" /\ next_offset' \in Nat
BY IapAssumption DEF UpdateInv, AbortUpdate, HandlesLeft, OneOpenHandle

\* BEGIN drops the update under way, if there is one.
LEMMA DroppedUpdate ==
  ASSUME UpdateInv, Dropped, UNCHANGED running
  PROVE  UpdateInv' /\ update_state' # "RECEIVING" /\ next_offset' \in Nat
<1>1. CASE update_state = "RECEIVING"  BY <1>1, AbortedUpdate DEF Dropped
<1>2. CASE update_state # "RECEIVING"  BY <1>2, UpdateStays DEF Dropped
<1> QED  BY <1>1, <1>2

\* A commit, or its failure, ends the update in the slot of the update.
LEMMA EndedUpdate ==
  ASSUME UpdateInv, update_state = "RECEIVING", open' = open - 1,
         update_state' \in {"IDLE", "COMMITTED"}, next_offset' \in {0, next_offset},
         UNCHANGED <<target_partition, image_size, expected_sha256>>
  PROVE  UpdateInv' /\ next_offset' \in Nat
BY IapAssumption DEF UpdateInv, OneOpenHandle

\* ------------------------------------------------------------- the requests --
\* A request that is refused keeps the invariant if its work does.
LEMMA Refused ==
  ASSUME IInv, FlashInv', UpdateInv',
         update_state' = "RECEIVING" => update_state = "RECEIVING",
         NEW f \in Frame, NEW status \in Statuses, Refuse(f, status),
         NEW spent \in {Quick, Long}, Stamp(spent)
  PROVE  IInv'
<1>1. next_offset' \in Nat /\ age' \in 0..SessionTicks
  BY StampIsTyped, IapAssumption DEF UpdateInv
<1>2. SessionInv' /\ session_active' = session_active
  BY <1>1, RefuseSession DEF IInv
<1>3. last_request' = last_request  BY DEF Refuse, cache
<1> QED  BY <1>2, <1>3 DEF IInv, UpdateBelongsToSession, RestartsSession

\* So does one that is accepted.
LEMMA Accepted ==
  ASSUME IInv, FlashInv', UpdateInv', NEW f \in Frame, NEW had \in BOOLEAN,
         update_state' = "RECEIVING" => ~RestartsSession(f),
         Accept(f, had), NEW spent \in {Quick, Long}, Stamp(spent)
  PROVE  IInv'
<1>1. next_offset' \in Nat /\ age' \in 0..SessionTicks
  BY StampIsTyped, IapAssumption DEF UpdateInv
<1>2. SessionInv' /\ session_active'
  BY <1>1, AcceptSession DEF IInv
<1>3. RestartsSession(last_request') <=> RestartsSession(f)
  BY KeyKeeps DEF Accept, RestartsSession
<1>4. UpdateBelongsToSession'
  BY <1>2, <1>3 DEF UpdateBelongsToSession, RestartsSession
<1> QED  BY <1>2, <1>4 DEF IInv

\* A repeated request is answered and has no other effect.
LEMMA RepeatStep ==
  ASSUME IInv, ~restarting, NEW f \in Frame, Repeat(f)
  PROVE  IInv'
<1>1. UNCHANGED <<running, flash, update, session, cache, restarting>>
  BY DEF Repeat
<1>2. FlashInv'  BY <1>1, FlashStays DEF IInv
<1>3. UpdateInv'  BY <1>1, UpdateStays DEF IInv
<1>4. age' \in 0..SessionTicks  BY StampIsTyped DEF Repeat
<1>5. reply' \in AnswerType \cup {NoReply}
  BY SeenIsTyped DEF Repeat, Send, IInv, SessionInv
<1>6. SessionInv'  BY <1>1, <1>4, <1>5 DEF IInv, SessionInv, session, cache
<1>7. UpdateBelongsToSession'
  BY <1>1 DEF IInv, UpdateBelongsToSession, RestartsSession, update, session, cache
<1> QED  BY <1>2, <1>3, <1>6, <1>7 DEF IInv

\* Requests that are refused before any work is done.
LEMMA RefusalStep ==
  ASSUME IInv, ~restarting, NEW f \in Frame,
         \/ RefuseVersion(f) \/ RefuseSequence(f) \/ RefuseOther(f)
         \/ RefuseData(f) \/ RefuseEnd(f)
  PROVE  IInv'
<1>1. PICK status \in Statuses :
        /\ UNCHANGED <<flash, update>>
        /\ Refuse(f, status) /\ Stamp(Quick)
  <2>1. CASE RefuseVersion(f)  BY <2>1 DEF RefuseVersion, Statuses
  <2>2. CASE RefuseSequence(f)
    BY <2>2, "ERR_SEQUENCE" \in Statuses, "ERR_STATE" \in Statuses
       DEF RefuseSequence, Statuses
  <2>3. CASE RefuseOther(f)  BY <2>3 DEF RefuseOther, Statuses
  <2>4. CASE RefuseData(f)
    <3>1. DataStatus(f) \in Statuses  BY DEF DataStatus, Statuses
    <3> QED  BY <2>4, <3>1 DEF RefuseData
  <2>5. CASE RefuseEnd(f)
    <3>1. EarlyEndStatus(f) \in Statuses  BY DEF EarlyEndStatus, Statuses
    <3> QED  BY <2>5, <3>1 DEF RefuseEnd
  <2> QED  BY <2>1, <2>2, <2>3, <2>4, <2>5
<1>2. UNCHANGED running  BY <1>1 DEF Refuse
<1>3. FlashInv'  BY <1>1, <1>2, FlashStays DEF IInv
<1>4. UpdateInv' /\ update_state' = update_state
  BY <1>1, <1>2, UpdateStays DEF IInv
<1> QED  BY <1>1, <1>3, <1>4, Refused

\* HELLO, INFO, ABORT and BOOT.
LEMMA SessionStep ==
  ASSUME IInv, ~restarting, NEW f \in Frame,
         Hello(f) \/ Info(f) \/ AbortOrBoot(f)
  PROVE  IInv'
<1>1. PICK had \in BOOLEAN : Accept(f, had) /\ Stamp(Quick)
  BY DEF Hello, Info, AbortOrBoot, IInv, SessionInv
<1>2. UNCHANGED <<flash, running>>
  BY <1>1 DEF Hello, Info, AbortOrBoot, Accept
<1>3. FlashInv'  BY <1>2, FlashStays DEF IInv
<1>4. CASE AbortUpdate
  <2>1. UpdateInv' /\ update_state' = "IDLE"  BY <1>4, AbortedUpdate DEF IInv
  <2> QED  BY <1>1, <1>3, <2>1, Accepted
<1>5. CASE UNCHANGED update /\ InOrder(f)
  <2>1. UpdateInv' /\ ~RestartsSession(f)
    BY <1>2, <1>5, UpdateStays DEF IInv, InOrder
  <2> QED  BY <1>1, <1>3, <2>1, Accepted
<1> QED  BY <1>4, <1>5 DEF Hello, Info, AbortOrBoot

\* BEGIN.
LEMMA BeginStep ==
  ASSUME IInv, ~restarting, NEW f \in Frame,
         RefuseBegin(f) \/ Begin(f) \/ BeginFails(f)
  PROVE  IInv'
<1> DEFINE t == NextUpdatePartition
<1>0. f.size \in Nat /\ f.data \in Seq(Byte)  BY DEF Frame
<1>1. CASE RefuseBegin(f)
  <2>1. Refuse(f, "ERR_LENGTH") /\ Stamp(Quick) /\ UNCHANGED <<flash, running>>
    BY <1>1 DEF RefuseBegin, Refuse
  <2>2. FlashInv'  BY <2>1, FlashStays DEF IInv
  <2>3. CASE UNCHANGED update
    <3>1. UpdateInv' /\ update_state' = update_state
      BY <2>1, <2>3, UpdateStays DEF IInv
    <3> QED  BY <2>1, <2>2, <3>1, Refused DEF Statuses
  <2>4. CASE Dropped
    <3>1. UpdateInv' /\ update_state' # "RECEIVING"
      BY <2>1, <2>4, DroppedUpdate DEF IInv
    <3> QED  BY <2>1, <2>2, <3>1, Refused DEF Statuses
  <2> QED  BY <1>1, <2>3, <2>4 DEF RefuseBegin
<1>2. ASSUME CanBegin(f) PROVE t \in Slots /\ slot[t] \in Cells /\ f.size <= SlotSize
  <2>1. t # NoTarget /\ ~(f.size > SlotSize)  BY <1>2 DEF CanBegin, NoRoom
  <2>2. t \in Slots  BY <2>1, NextIsNotRunning DEF IInv, FlashInv
  <2> QED  BY <1>0, <2>1, <2>2, IapAssumption DEF IInv, FlashInv
<1>3. CASE Begin(f)
  <2>1. t \in Slots /\ slot[t] \in Cells /\ f.size <= SlotSize
    BY <1>2, <1>3 DEF Begin
  <2> DEFINE c == EraseTo(slot[t], EraseEnd(f.size))
  <2>2. c \in Cells  BY <2>1, EraseToType
  <2>3. /\ slot' = [slot EXCEPT ![t] = c]
        /\ Accept(f, has_last_response) /\ Stamp(Long)
        /\ UNCHANGED <<otadata, running>>
    BY <1>3 DEF Begin, Accept
  <2>4. FlashInv'
    <3> HIDE DEF c
    <3> QED  BY <2>1, <2>2, <2>3, TargetChanges DEF IInv
  <2>5. UpdateInv'
    BY <1>0, <1>3, <2>1, <2>3, IapAssumption
       DEF Begin, IInv, UpdateInv, OneOpenHandle, HandlesLeft, NextUpdatePartition
  <2>6. ~RestartsSession(f)  BY <1>3 DEF Begin, CanBegin, InOrder
  <2> QED  BY <2>3, <2>4, <2>5, <2>6, Accepted DEF IInv, SessionInv
<1>4. CASE BeginFails(f)
  <2>1. t \in Slots /\ slot[t] \in Cells  BY <1>2, <1>4 DEF BeginFails
  <2>2. PICK c \in TornErase(slot[t], EraseEnd(f.size)) :
          slot' = [slot EXCEPT ![t] = c]
    BY <1>4 DEF BeginFails
  <2>3. c \in Cells  BY <2>1, TornEraseType
  <2>4. /\ Dropped /\ Refuse(f, "ERR_FLASH") /\ Stamp(Long)
        /\ UNCHANGED <<otadata, running>>
    BY <1>4 DEF BeginFails, Refuse
  <2>5. FlashInv'  BY <2>1, <2>2, <2>3, <2>4, TargetChanges DEF IInv
  <2>6. UpdateInv' /\ update_state' # "RECEIVING"
    BY <2>4, DroppedUpdate DEF IInv
  <2> QED  BY <2>4, <2>5, <2>6, Refused DEF Statuses
<1> QED  BY <1>1, <1>3, <1>4

\* DATA.
LEMMA DataStep ==
  ASSUME IInv, ~restarting, NEW f \in Frame, Data(f) \/ DataFails(f)
  PROVE  IInv'
<1> DEFINE t == target_partition
<1>0. f.data \in Seq(Byte) /\ Len(f.data) \in Nat  BY DEF Frame
<1>1. update_state = "RECEIVING" /\ ~Exceeds(f)
  BY DEF Data, DataFails, DataStatus
<1>2. /\ t \in Slots /\ t = NextUpdatePartition /\ slot[t] \in Cells
      /\ next_offset \in Nat
  BY <1>1, IapAssumption DEF IInv, UpdateInv, FlashInv
<1>3. CASE Data(f)
  <2> DEFINE c == Program(slot[t], next_offset, f.data)
  <2>1. c \in Cells  BY <1>0, <1>2, ProgramType
  <2>2. /\ slot' = [slot EXCEPT ![t] = c]
        /\ Accept(f, has_last_response) /\ Stamp(Quick)
        /\ UNCHANGED <<otadata, running>>
    BY <1>3 DEF Data, Accept
  <2>3. FlashInv'
    <3> HIDE DEF c
    <3> QED  BY <1>2, <2>1, <2>2, TargetChanges DEF IInv
  <2>4. next_offset' = next_offset + Len(f.data) /\ next_offset' \in 0..image_size
    BY <1>0, <1>1, <1>2, <1>3, IapAssumption DEF Data, Exceeds, IInv, UpdateInv
  <2>5. UpdateInv'
    BY <1>1, <1>3, <2>2, <2>4
       DEF Data, IInv, UpdateInv, OneOpenHandle, NextUpdatePartition
  <2>6. ~RestartsSession(f)  BY <1>3 DEF Data, InOrder
  <2> QED  BY <2>2, <2>3, <2>5, <2>6, Accepted DEF IInv, SessionInv
<1>4. CASE DataFails(f)
  <2>1. PICK c \in TornProgram(slot[t], next_offset, f.data) :
          slot' = [slot EXCEPT ![t] = c]
    BY <1>4 DEF DataFails
  <2>2. c \in Cells  BY <1>0, <1>2, TornProgramType
  <2>3. /\ Refuse(f, "ERR_FLASH") /\ Stamp(Quick)
        /\ UNCHANGED <<otadata, update, running>>
    BY <1>4 DEF DataFails, Refuse
  <2>4. FlashInv'  BY <1>2, <2>1, <2>2, <2>3, TargetChanges DEF IInv
  <2>5. UpdateInv' /\ update_state' = update_state
    BY <2>3, UpdateStays DEF IInv
  <2> QED  BY <2>3, <2>4, <2>5, Refused DEF Statuses
<1> QED  BY <1>3, <1>4

\* What a commit writes selects the slot of the update, which holds an image.
LEMMA EndSelects ==
  ASSUME IInv, ~restarting, NEW f \in Frame, End(f)
  PROVE  /\ otadata' \in Otadata
         /\ EndGetsOut => /\ BootIndex(otadata') = target_partition
                          /\ SelectedAlwaysBootable'
<1> DEFINE t == target_partition
<1>1. update_state = "RECEIVING"  BY DEF End, CanEnd, EarlyEndStatus
<1>2. t \in Slots /\ t = NextUpdatePartition  BY <1>1 DEF IInv, UpdateInv
<1>3. AppCount = 2 /\ t # running /\ otadata \in Otadata
  BY <1>2, NextIsNotRunning DEF IInv, FlashInv
<1>4. NextSeq(otadata, t) \in Nat  BY <1>2, <1>3, NextSeqType
<1>5. ~SeqOverflows(otadata, t) /\ NextSeq(otadata, t) # Blank
  BY <1>4, OtaDataAssumption DEF End, SeqOverflows, Blank
<1>6. otadata' = [otadata EXCEPT ![NextEntry(otadata)] = NextSeq(otadata, t)]
  BY DEF End
<1>7. otadata' \in Otadata  BY <1>2, <1>3, <1>5, <1>6, CommitType
<1>8. ASSUME EndGetsOut
      PROVE  BootIndex(otadata') = t /\ SelectedAlwaysBootable'
  <2>1. t # BootIndex(otadata)  BY <1>3, <1>8 DEF IInv, FlashInv
  <2>2. BootIndex(otadata') = t
    BY <1>2, <1>3, <1>5, <1>6, <2>1, CommitSelects
  <2>3. Bootable(slot'[t])  BY DEF End, ImageVerifies
  <2> QED  BY <2>2, <2>3 DEF SelectedAlwaysBootable, SelectedBootable
<1> QED  BY <1>7, <1>8

\* END.
LEMMA EndStep ==
  ASSUME IInv, ~restarting, NEW f \in Frame, End(f) \/ EndFails(f)
  PROVE  IInv'
<1>1. update_state = "RECEIVING" /\ f.command = "END"
  BY DEF End, EndFails, CanEnd, EarlyEndStatus
<1>2. CASE End(f)
  <2>1. Accept(f, has_last_response) /\ Stamp(Quick) /\ UNCHANGED <<slot, running>>
    BY <1>2 DEF End, Accept
  <2>2. UpdateInv'
    BY <1>1, <1>2, EndedUpdate DEF End, IInv
  <2>3. EndGetsOut => restarting' = TRUE
    <3>1. next_offset' \in Nat /\ age' \in 0..SessionTicks
      BY <2>1, <2>2, StampIsTyped, IapAssumption DEF UpdateInv
    <3> QED  BY <1>1, <2>1, <3>1, AcceptSession DEF IInv, SessionInv
  <2>4. FlashInv'  BY <1>2, <2>1, <2>3, EndSelects DEF IInv, FlashInv
  <2>5. update_state' = "COMMITTED"  BY <1>2 DEF End
  <2> QED  BY <2>1, <2>2, <2>4, <2>5, Accepted DEF IInv, SessionInv
<1>3. CASE EndFails(f)
  <2>1. PICK status \in Statuses : Refuse(f, status)
    BY <1>3 DEF EndFails, Statuses
  <2>2. Stamp(Quick) /\ UNCHANGED <<slot, running>>
    BY <1>3, <2>1 DEF EndFails, Refuse
  <2>3. UpdateInv' /\ update_state' = "IDLE"
    BY <1>1, <1>3, EndedUpdate DEF EndFails, IInv
  <2>4. otadata' \in Otadata /\ BootIndex(otadata') = BootIndex(otadata)
    <3>1. CASE UNCHANGED otadata  BY <3>1 DEF IInv, FlashInv
    <3>2. CASE otadata' = [otadata EXCEPT ![NextEntry(otadata)] = Blank]
      BY <3>2, EraseNextKeepsSelection DEF IInv, FlashInv
    <3> QED  BY <1>3, <3>1, <3>2 DEF EndFails
  <2>5. FlashInv'
    BY <2>2, <2>4 DEF IInv, FlashInv, SelectedAlwaysBootable, SelectedBootable
  <2> QED  BY <2>1, <2>2, <2>3, <2>5, Refused
<1> QED  BY <1>2, <1>3

\* ----------------------------------------------------------------- the task --
\* A frame that has been received.
LEMMA ReceiveStep ==
  ASSUME IInv, NEW f \in Frames, Receive(f)
  PROVE  IInv'
<1>1. f \in Frame /\ ~restarting  BY IapAssumption DEF Receive
<1>2. ProcessFrame(f)  BY DEF Receive
<1>3. CASE Repeat(f)  BY <1>1, <1>3, RepeatStep
<1>4. CASE \/ RefuseVersion(f) \/ RefuseSequence(f) \/ RefuseOther(f)
           \/ RefuseData(f) \/ RefuseEnd(f)
  BY <1>1, <1>4, RefusalStep
<1>5. CASE Hello(f) \/ Info(f) \/ AbortOrBoot(f)  BY <1>1, <1>5, SessionStep
<1>6. CASE RefuseBegin(f) \/ Begin(f) \/ BeginFails(f)  BY <1>1, <1>6, BeginStep
<1>7. CASE Data(f) \/ DataFails(f)  BY <1>1, <1>7, DataStep
<1>8. CASE End(f) \/ EndFails(f)  BY <1>1, <1>8, EndStep
<1> QED  BY <1>2, <1>3, <1>4, <1>5, <1>6, <1>7, <1>8 DEF ProcessFrame

\* A session that times out.
LEMMA ExpireStep ==
  ASSUME IInv, NEW t, Expire(t)
  PROVE  IInv'
<1>1. UNCHANGED <<flash, running>> /\ ~restarting /\ AbortUpdate
  BY DEF Expire, Release, flash
<1>2. FlashInv'  BY <1>1, FlashStays DEF IInv
<1>3. UpdateInv' /\ update_state' = "IDLE"  BY <1>1, AbortedUpdate DEF IInv
<1>4. SessionInv'
  <2>1. 0 \in 0..(SeqMod - 1) /\ 0 \in 0..SessionTicks  BY IapAssumption
  <2> QED  BY <2>1 DEF Expire, IInv, SessionInv
<1> QED  BY <1>2, <1>3, <1>4 DEF IInv, UpdateBelongsToSession

\* A read that brings nothing.
LEMMA ReadTimeoutStep ==
  ASSUME IInv, ReadTimeout
  PROVE  IInv'
<1>1. CASE Expire(age + 1)  BY <1>1, ExpireStep
<1>2. CASE ~Expire(age + 1)
  <2>1. /\ ~restarting /\ reply' = NoReply
        /\ age' = IF age < SessionTicks THEN age + 1 ELSE age
        /\ UNCHANGED <<running, flash, update, session, cache, restarting>>
    BY <1>2 DEF ReadTimeout
  <2>2. FlashInv'  BY <2>1, FlashStays DEF IInv
  <2>3. UpdateInv'  BY <2>1, UpdateStays DEF IInv
  <2>4. age' \in 0..SessionTicks  BY <2>1, IapAssumption DEF IInv, SessionInv
  <2>5. SessionInv'  BY <2>1, <2>4 DEF IInv, SessionInv, session, cache
  <2>6. UpdateBelongsToSession'
    BY <2>1 DEF IInv, UpdateBelongsToSession, RestartsSession, update, session, cache
  <2> QED  BY <2>2, <2>3, <2>5, <2>6 DEF IInv
<1> QED  BY <1>1, <1>2

\* What the service starts from.
Fresh ==
  /\ open = 0 /\ update_state = "IDLE" /\ target_partition = NoTarget
  /\ image_size = 0 /\ next_offset = 0 /\ expected_sha256 = <<>>
  /\ expected_sequence = 0 /\ session_active = FALSE
  /\ has_last_response = FALSE /\ last_request = NoFrame
  /\ last_response = NoReply
  /\ age = 0 /\ reply = NoReply /\ restarting = FALSE

\* A service that has just started has no update and no session.
LEMMA FreshService ==
  ASSUME Fresh
  PROVE  UpdateInv /\ SessionInv /\ UpdateBelongsToSession
<1>1. 0 \in 0..(SeqMod - 1) /\ 0 \in 0..SessionTicks /\ 0 \in 0..SlotSize
  BY IapAssumption
<1>2. UpdateInv  BY <1>1 DEF Fresh, UpdateInv, OneOpenHandle
<1>3. SessionInv  BY <1>1 DEF Fresh, SessionInv
<1> QED  BY <1>2, <1>3 DEF Fresh, UpdateBelongsToSession

\* A restart runs what is selected, when that boots.
LEMMA RebootStep ==
  ASSUME IInv, Reboot
  PROVE  IInv'
<1>1. Fresh'  BY DEF Reboot, Fresh
<1>2. UpdateInv' /\ SessionInv' /\ UpdateBelongsToSession'
  BY <1>1, FreshService, PTL
<1>3. UNCHANGED <<otadata, slot>>  BY DEF Reboot, flash
<1>4. BootIndex(otadata) \in Slots \cup {Factory}
  BY BootIndexType DEF IInv, FlashInv
<1>5. running' \in Slots \cup {Factory}  BY <1>4 DEF Reboot, Loadable
<1>6. ASSUME SelectedAlwaysBootable PROVE BootIndex(otadata) = running'
  BY <1>4, <1>6 DEF Reboot, Loadable, SelectedAlwaysBootable, SelectedBootable
<1>7. FlashInv'
  BY <1>3, <1>5, <1>6 DEF IInv, FlashInv, SelectedAlwaysBootable
<1> QED  BY <1>2, <1>7 DEF IInv

\* -------------------------------------------------------------- the invariant --
\* The service starts in the invariant.
LEMMA InitInv == Init => IInv
<1> SUFFICES ASSUME Init PROVE IInv  OBVIOUS
<1>1. otadata \in Otadata /\ slot \in [Slots -> Cells]
  BY IapAssumption DEF Init
<1>2. FlashInv  BY <1>1, BootIndexType DEF Init, FlashInv, SelectedAlwaysBootable
<1>3. Fresh  BY DEF Init, Fresh
<1> QED  BY <1>2, <1>3, FreshService DEF IInv

\* No step leaves it.
LEMMA NextInv == IInv /\ [Next]_vars => IInv'
<1> SUFFICES ASSUME IInv, [Next]_vars PROVE IInv'  OBVIOUS
<1>1. CASE Loop
  BY <1>1, ExpireStep, ReadTimeoutStep, RebootStep DEF Loop, ChunkEnd
<1>2. CASE Line  BY <1>2, ReceiveStep DEF Line
<1>3. CASE Reboot  BY <1>3, RebootStep
<1>4. CASE UNCHANGED vars
  <2> USE <1>4 DEF vars, flash, update, session, cache
  <2>1. FlashInv'  BY DEF IInv, FlashInv, SelectedAlwaysBootable
  <2>2. UpdateInv'  BY UpdateStays DEF IInv
  <2>3. SessionInv'  BY DEF IInv, SessionInv
  <2> QED  BY <2>1, <2>2, <2>3 DEF IInv, UpdateBelongsToSession, RestartsSession
<1> QED  BY <1>1, <1>2, <1>3, <1>4 DEF Next

\* Every state of the service satisfies the invariant.
LEMMA ServiceInvariant == Spec => []IInv
BY InitInv, NextInv, PTL DEF Spec

\* What a step may do to the slots: erase or program the one after the running one.
LEMMA SlotsKept ==
  ASSUME IInv, [Next]_vars
  PROVE  \/ UNCHANGED slot
         \/ /\ ~restarting /\ NextUpdatePartition \in Slots
            /\ \A s \in Slots : s # NextUpdatePartition => slot'[s] = slot[s]
<1> DEFINE Kept == \/ UNCHANGED slot
                   \/ /\ ~restarting /\ NextUpdatePartition \in Slots
                      /\ \A s \in Slots : s # NextUpdatePartition => slot'[s] = slot[s]
<1>1. slot \in [Slots -> Cells]  BY DEF IInv, FlashInv
<1>2. ASSUME NEW t \in Slots, t = NextUpdatePartition, NEW c, ~restarting,
             slot' = [slot EXCEPT ![t] = c]
      PROVE  Kept
  BY <1>1, <1>2
<1>3. ASSUME NEW f \in Frames, Receive(f) PROVE Kept
  <2> USE <1>3 DEF Receive
  <2>1. CASE Begin(f) \/ BeginFails(f)
    <3> DEFINE t == NextUpdatePartition
    <3>1. t \in Slots
      BY <2>1, NextIsNotRunning
         DEF Begin, BeginFails, CanBegin, NoRoom, IInv, FlashInv
    <3>2. \E c : slot' = [slot EXCEPT ![t] = c]  BY <2>1 DEF Begin, BeginFails
    <3> QED  BY <3>1, <3>2, <1>2
  <2>2. CASE Data(f) \/ DataFails(f)
    <3>1. update_state = "RECEIVING"  BY <2>2 DEF Data, DataFails, DataStatus
    <3>2. target_partition \in Slots /\ target_partition = NextUpdatePartition
      BY <3>1 DEF IInv, UpdateInv
    <3>3. \E c : slot' = [slot EXCEPT ![target_partition] = c]
      BY <2>2 DEF Data, DataFails
    <3> QED  BY <3>2, <3>3, <1>2
  <2>3. CASE ~(Begin(f) \/ BeginFails(f) \/ Data(f) \/ DataFails(f))
    <3>1. UNCHANGED slot
      BY <2>3
         DEF ProcessFrame, Repeat, RefuseVersion, RefuseSequence, RefuseOther,
             Hello, Info, AbortOrBoot, RefuseBegin, RefuseData, RefuseEnd, End,
             EndFails, flash
    <3> QED  BY <3>1
  <2> QED  BY <2>1, <2>2, <2>3
<1>4. CASE Line  BY <1>3, <1>4 DEF Line
<1>5. CASE Loop \/ Reboot \/ UNCHANGED vars
  BY <1>5 DEF Loop, ChunkEnd, ReadTimeout, Expire, Reboot, vars, flash
<1> QED  BY <1>4, <1>5 DEF Next

\* What a step may do to the selection: nothing, unless it is a commit.
LEMMA SelectionKept ==
  ASSUME IInv, [Next]_vars
  PROVE  \/ BootIndex(otadata') = BootIndex(otadata)
         \/ ~restarting /\ \E f \in Frames : End(f)
<1>1. ASSUME NEW f \in Frames, Receive(f), ~End(f)
      PROVE  BootIndex(otadata') = BootIndex(otadata)
  <2>1. CASE EndFails(f)
    <3>1. CASE UNCHANGED otadata  BY <3>1
    <3>2. CASE otadata' = [otadata EXCEPT ![NextEntry(otadata)] = Blank]
      BY <3>2, EraseNextKeepsSelection DEF IInv, FlashInv
    <3> QED  BY <2>1, <3>1, <3>2 DEF EndFails
  <2>2. CASE ~EndFails(f)
    <3>1. UNCHANGED otadata
      BY <1>1, <2>2
         DEF Receive, ProcessFrame, Repeat, RefuseVersion, RefuseSequence,
             RefuseOther, Hello, Info, AbortOrBoot, RefuseBegin, Begin, BeginFails,
             RefuseData, Data, DataFails, RefuseEnd, flash
    <3> QED  BY <3>1
  <2> QED  BY <2>1, <2>2
<1>2. CASE Line  BY <1>1, <1>2 DEF Line, Receive
<1>3. CASE Loop \/ Reboot \/ UNCHANGED vars
  BY <1>3 DEF Loop, ChunkEnd, ReadTimeout, Expire, Reboot, vars, flash
<1> QED  BY <1>2, <1>3 DEF Next

\* ------------------------------------------------------------------- theorems --
\* Every variable of the service keeps its type.
THEOREM ServiceTypeCorrect == Spec => []TypeOK
<1>1. IInv => TypeOK
  BY DEF IInv, FlashInv, UpdateInv, SessionInv, OneOpenHandle, TypeOK
<1> QED  BY <1>1, ServiceInvariant, PTL

\* The service holds a handle of esp_ota_begin exactly while it receives.
THEOREM NoHandleLeaks == Spec => []OneOpenHandle
<1>1. IInv => OneOpenHandle  BY DEF IInv, UpdateInv
<1> QED  BY <1>1, ServiceInvariant, PTL

\* A session never goes on with the update of an older one: a session that timed
\* out has none, and one whose latest request is its HELLO has none.
THEOREM UpdateInSession == Spec => []UpdateBelongsToSession
<1>1. IInv => UpdateBelongsToSession  BY DEF IInv
<1> QED  BY <1>1, ServiceInvariant, PTL

\* The image that executes is never erased or written, whichever responses are
\* lost, so also after a commit from which the service did not restart.
THEOREM RunningSlotSafe == Spec => RunningSlotUntouched
<1>1. ASSUME IInv, [Next]_vars
      PROVE  \A s \in Slots : s = running => slot'[s] = slot[s]
  <2>1. NextUpdatePartition # running  BY <1>1, NextIsNotRunning DEF IInv, FlashInv
  <2> QED  BY <1>1, <2>1, SlotsKept
<1> QED  BY <1>1, ServiceInvariant, PTL DEF Spec, RunningSlotUntouched

\* A request that was accepted is not carried out again: its number is not the
\* one the session expects, and a session that has ended expects none.
THEOREM RepeatsAreHarmless == Spec => RepeatHasNoEffect
<1>1. ASSUME IInv, NEW f \in Frames, Key(f) = last_request, f.command # "HELLO",
             Receive(f)
      PROVE  UNCHANGED <<flash, update, session>>
  <2>1. f \in Frame /\ f.seq \in 0..(SeqMod - 1)  BY IapAssumption DEF Frame
  <2>2. last_request.seq = f.seq  BY <1>1, <2>1, KeyKeeps
  <2>3. ~InOrder(f)
    <3>1. session_active => expected_sequence # f.seq
      BY <1>1, <2>1, <2>2, NextSequence DEF IInv, SessionInv
    <3> QED  BY <3>1 DEF InOrder
  <2>4. Repeat(f) \/ RefuseVersion(f) \/ RefuseSequence(f)
    BY <1>1, <2>3
       DEF Receive, ProcessFrame, RefuseOther, Hello, Info, AbortOrBoot, RefuseBegin,
           Begin, BeginFails, CanBegin, RefuseData, Data, DataFails, RefuseEnd, End,
           EndFails, CanEnd, RestartsSession
  <2> QED
    BY <2>4 DEF Repeat, RefuseVersion, RefuseSequence, Refuse
<1>2. IInv /\ [Next]_vars =>
        \A f \in Frames :
          Key(f) = last_request /\ f.command # "HELLO" =>
            (Receive(f) => UNCHANGED <<flash, update, session>>)
  BY <1>1
<1> QED  BY <1>2, ServiceInvariant, PTL DEF Spec, RepeatHasNoEffect

\* If the response to END always gets out, the selection always names an image
\* that verifies, through every order of requests, flash errors and restarts.
THEOREM SelectionIsBootable ==
  ASSUME EndGetsOut
  PROVE  Spec => []SelectedAlwaysBootable
<1>1. IInv => SelectedAlwaysBootable  BY DEF IInv, FlashInv
<1> QED  BY <1>1, ServiceInvariant, PTL

\* And then the selected slot is never erased or written.
THEOREM SelectedSlotSafe ==
  ASSUME EndGetsOut
  PROVE  Spec => SelectedSlotUntouched
<1>1. ASSUME IInv, [Next]_vars
      PROVE  \A s \in Slots : s = BootIndex(otadata) => slot'[s] = slot[s]
  <2>1. NextUpdatePartition # running  BY <1>1, NextIsNotRunning DEF IInv, FlashInv
  <2>2. ~restarting => BootIndex(otadata) = running
    BY <1>1 DEF IInv, FlashInv
  <2> QED  BY <1>1, <2>1, <2>2, SlotsKept
<1> QED  BY <1>1, ServiceInvariant, PTL DEF Spec, SelectedSlotUntouched

\* And then it moves only to the slot of an update that was verified.
THEOREM SelectionMovesRight ==
  ASSUME EndGetsOut
  PROVE  Spec => SelectionMovesToVerified
<1>1. ASSUME IInv, [Next]_vars, BootIndex(otadata') # BootIndex(otadata)
      PROVE  /\ update_state = "RECEIVING"
             /\ BootIndex(otadata') = target_partition
             /\ Bootable(slot[target_partition])
             /\ SubSeq(slot[target_partition], 1, image_size) = expected_sha256
  <2>1. PICK f \in Frames : ~restarting /\ End(f)  BY <1>1, SelectionKept
  <2>2. f \in Frame  BY IapAssumption
  <2>3. BootIndex(otadata') = target_partition  BY <1>1, <2>1, <2>2, EndSelects
  <2> QED
    BY <2>1, <2>3 DEF End, CanEnd, EarlyEndStatus, ImageVerifies, DigestMatches
<1>2. IInv /\ [Next]_vars =>
        (BootIndex(otadata') # BootIndex(otadata) =>
           /\ update_state = "RECEIVING"
           /\ BootIndex(otadata') = target_partition
           /\ Bootable(slot[target_partition])
           /\ SubSeq(slot[target_partition], 1, image_size) = expected_sha256)
  BY <1>1
<1> QED  BY <1>2, ServiceInvariant, PTL DEF Spec, SelectionMovesToVerified
=============================================================================

------------------------ MODULE SerialUpgradeProofs ------------------------
(***************************************************************************)
(* Safety of the host's programs, the line and the bootloader together,    *)
(* for every file, block length, number of attempts and of losses.         *)
(***************************************************************************)
EXTENDS SerialUpgrade, IapBootloaderProofs

\* Upgrade does not depend on Frames, the frames that IapBootloader's own
\* specification takes from the line: here they may be any.
AnyFrames == Frames = Frame

\* -------------------------------------------------- the inductive invariant --
\* What the host may send: a block is the part of its file that the offset says.
HostFrame == {f \in Frame : f.command = "DATA" => f.data = Host!Block(f.offset)}
Answer ==
  [command: Commands, seq: 0..(SeqMod - 1), payload: Reply,
   peer: {"bootloader", "application"}]

UploadType == upload \in [declared: Seq(Byte), content: Seq(Byte)]

\* The steps of a scenario: a request, or a rest.
Instruction ==
  [command: Commands, seq: 0..(SeqMod - 1), at: Nat, status: Statuses,
   expected: SUBSET Nat, offsets: SUBSET Nat, peers: SUBSET {"bootloader", "application"}]
  \cup {[command |-> "settle"], [command |-> "reset"]}

Pausing == {"settle", "reset"}

\* A scenario waits where its script says.
ScriptInv ==
  /\ phase \in Pausing => Host!Scripted
  /\ Host!Scripted /\ phase \in Commands \cup Pausing =>
       step \in 1..Len(Host!Script) /\ Host!Script[step].command = phase

HostInv ==
  /\ UploadType
  /\ host_sequence \in 0..(SeqMod - 1) /\ host_offset \in Nat
  /\ phase \in Commands \cup Pausing \cup {"done", "failed", "cancelled", "idle"}
  /\ ScriptInv

\* The line and the host.
HostReady ==
  /\ to_device \in Seq(HostFrame) /\ to_host \in Seq(Answer)
  /\ HostInv

\* Byte i of the file.
IsByte(x, i) == i <= Len(upload.content) /\ x = upload.content[i]

\* What has been received is in the slot.  After it, as far as BEGIN has erased,
\* there is what a write that failed has left of the same file, or nothing.
SlotInv ==
  update_active =>
    /\ \A i \in 1..next_offset : IsByte(slot[target_index][i], i)
    /\ \A i \in 1..SlotSize :
         next_offset < i /\ i <= EraseEnd(image_size) =>
           slot[target_index][i] = Erased \/ IsByte(slot[target_index][i], i)

DeviceInv ==
  /\ frame \in HostFrame \cup {NoFrame}
  /\ pc = "write" => frame.command = "DATA"
  /\ SlotInv

UInv == IInv /\ HostReady /\ DeviceInv

\* ----------------------------------------------------------------- requests --
\* A block is the bytes of the file from its offset on.
LEMMA BlockIs ==
  ASSUME UploadType, NEW o \in Nat
  PROVE  /\ Host!Block(o) \in Seq(Byte)
         /\ \A i \in 1..Len(Host!Block(o)) :
              o + i <= Len(upload.content) /\ Host!Block(o)[i] = upload.content[o + i]
<1> DEFINE size == Len(upload.declared)
           last_byte == Host!Shorter(Len(upload.content), Host!Shorter(o + BlockLength, size))
<1>1. /\ upload.content \in Seq(Byte) /\ Len(upload.content) \in Nat
      /\ size \in Nat /\ BlockLength \in Nat
  BY UpgradeAssumption DEF UploadType, Host!ValidationAssumption, Host!HostAssumption
<1>2. last_byte \in Nat /\ last_byte <= Len(upload.content)
  BY <1>1 DEF Host!Shorter
<1>3. Host!Block(o) = SubSeq(upload.content, o + 1, last_byte)  BY DEF Host!Block
<1> HIDE DEF last_byte
<1>4. CASE last_byte < o + 1
  BY <1>1, <1>2, <1>3, <1>4, SubSeqProperties
<1>5. CASE o + 1 <= last_byte
  BY <1>1, <1>2, <1>3, <1>5, SubSeqProperties
<1> QED  BY <1>2, <1>4, <1>5

\* What the host sends is a frame, and a block of its file.
LEMMA RequestType ==
  ASSUME UploadType, NEW c \in Commands, NEW s \in 0..(SeqMod - 1), NEW o \in Nat
  PROVE  Host!Request(c, s, o) \in HostFrame
<1>1. Host!Block(o) \in Seq(Byte)  BY BlockIs
<1>2. upload.declared \in Seq(Byte) /\ Len(upload.declared) \in Nat  BY DEF UploadType
<1>3. <<>> \in Seq(Byte)  OBVIOUS
<1> QED  BY <1>1, <1>2, <1>3 DEF Host!Request, Frame, HostFrame, Commands
\* ----------------------------------------------------------------- scenarios --
\* The instructions of a scenario, built up.
LEMMA CallType ==
  ASSUME NEW c \in Commands, NEW n \in Nat, NEW at \in Nat,
         NEW o \in SUBSET Nat, NEW p \in SUBSET {"bootloader", "application"}
  PROVE  Host!Call(c, n, at, o, p) \in Instruction
<1>1. n % SeqMod \in 0..(SeqMod - 1) /\ (n + 1) % SeqMod \in 0..(SeqMod - 1)
  BY IapAssumption
<1> QED  BY <1>1 DEF Host!Call, Instruction, Statuses

\* A request of `assert_status` or `request_ok` is an instruction.
LEMMA TryType ==
  ASSUME NEW c \in Commands, NEW n \in Nat, NEW at \in Nat, NEW s \in Statuses,
         NEW o \in Nat
  PROVE  Host!Try(c, n, at, s, o) \in Instruction
<1>1. n % SeqMod \in 0..(SeqMod - 1) /\ (n + 1) % SeqMod \in 0..(SeqMod - 1)
  BY IapAssumption
<1>2. (IF s = "OK" THEN n + 1 ELSE n) % SeqMod \in Nat  BY <1>1
<1> QED  BY <1>1, <1>2 DEF Host!Try, Host!Peers, Instruction

\* HELLO and INFO are instructions.
LEMMA ConnectType == Host!Connect \in Seq(Instruction)
<1>1. /\ Host!Call("HELLO", 0, 0, Host!Offsets, {"bootloader"}) \in Instruction
      /\ Host!Call("INFO", 1, 0, Host!Offsets, Host!Peers) \in Instruction
  BY CallType, IapAssumption DEF Commands, Host!Offsets, Host!Peers
<1> QED  BY <1>1 DEF Host!Connect

\* The last two instructions wait, and say HELLO.
LEMMA VerifyType ==
  /\ Host!Verify \in Seq(Instruction) /\ Len(Host!Verify) = 2
  /\ Host!Verify[2].command = "HELLO"
<1>1. Host!Call("HELLO", 0, 0, Host!Offsets, {"application"}) \in Instruction
  BY CallType, IapAssumption DEF Commands, Host!Offsets
<1>2. Host!Rest("settle") \in Instruction  BY DEF Host!Rest, Instruction
<1> QED  BY <1>1, <1>2 DEF Host!Verify, Host!Call

\* Blocks end at offsets.
LEMMA BlockEndType ==
  ASSUME UploadType, NEW i \in Nat
  PROVE  Host!BlockEnd(i) \in Nat
<1>1. BlockLength \in Nat /\ Len(upload.content) \in Nat
  BY UpgradeAssumption DEF UploadType, Host!ValidationAssumption, Host!HostAssumption
<1>2. i * BlockLength \in Nat  BY <1>1
<1> QED  BY <1>1, <1>2 DEF Host!BlockEnd, Host!Shorter

\* The blocks of a scenario are instructions.
LEMMA SendBlocksType ==
  ASSUME UploadType, NEW n \in Nat, NEW s \in Nat
  PROVE  Host!SendBlocks(n, s) \in Seq(Instruction)
<1>1. ASSUME NEW i \in 1..n
      PROVE  Host!Try("DATA", s + i - 1, (i - 1) * BlockLength, "OK", Host!BlockEnd(i))
               \in Instruction
  <2>1. BlockLength \in Nat
    BY UpgradeAssumption DEF Host!ValidationAssumption, Host!HostAssumption
  <2>2. s + i - 1 \in Nat /\ (i - 1) * BlockLength \in Nat  BY <2>1
  <2> QED  BY <2>2, TryType, BlockEndType DEF Commands, Statuses
<1> QED  BY <1>1 DEF Host!SendBlocks

\* A scenario says HELLO first and last.
Opens(s) == s \in Seq(Instruction) /\ s # <<>> /\ s[1].command = "HELLO"
Sound(s) == Opens(s) /\ s[Len(s)].command = "HELLO"

\* What is appended leaves the first instruction in place.
LEMMA OpensOn ==
  ASSUME NEW s, Opens(s), NEW t \in Seq(Instruction)
  PROVE  Opens(s \o t)
<1>1. s \in Seq(Instruction) /\ Len(s) \in Nat /\ Len(s) # 0
  BY EmptySeq DEF Opens
<1>2. /\ s \o t \in Seq(Instruction) /\ Len(s \o t) = Len(s) + Len(t)
      /\ (s \o t)[1] = s[1]
  BY <1>1, ConcatProperties
<1>3. s \o t # <<>>  BY <1>1, <1>2
<1> QED  BY <1>2, <1>3 DEF Opens

\* Every scenario ends as `verify_application_running` does.
LEMMA EndsWithVerify ==
  ASSUME NEW s, Opens(s)
  PROVE  Sound(s \o Host!Verify)
<1>1. Opens(s \o Host!Verify)  BY OpensOn, VerifyType
<1>2. /\ Len(s \o Host!Verify) = Len(s) + 2
      /\ (s \o Host!Verify)[Len(s) + 2] = Host!Verify[2]
  <2>1. ASSUME NEW t \in Seq(Instruction), Len(t) = 2
        PROVE  Len(s \o t) = Len(s) + 2 /\ (s \o t)[Len(s) + 2] = t[2]
    <3>1. s \in Seq(Instruction) /\ Len(s) \in Nat  BY DEF Opens
    <3>2. Len(s \o t) = Len(s) + 2  BY <2>1, <3>1, ConcatProperties
    <3> DEFINE k == Len(s) + 2
    <3>3. k \in 1..(Len(s) + Len(t)) /\ ~(k <= Len(s)) /\ k - Len(s) = 2
      BY <2>1, <3>1
    <3> HIDE DEF k
    <3>4. (s \o t)[k] = IF k <= Len(s) THEN s[k] ELSE t[k - Len(s)]
      BY <2>1, <3>1, <3>3, ConcatProperties
    <3> QED  BY <3>2, <3>3, <3>4 DEF k
  <2> QED  BY <2>1, VerifyType
<1> QED  BY <1>1, <1>2, VerifyType DEF Sound

\* Every scenario begins with HELLO.
LEMMA ConnectOpens == Opens(Host!Connect)
BY ConnectType DEF Opens, Host!Connect, Host!Call

\* The scenario of wrong offsets, lengths and states.
LEMMA ProtocolErrorsSound == Sound(Host!ProtocolErrors)
<1>1. BlockLength \in Nat
  BY UpgradeAssumption DEF Host!ValidationAssumption, Host!HostAssumption
<1>2. /\ Host!Try("BEGIN", 2, 0, "OK", 0) \in Instruction
      /\ Host!Try("DATA", 3, BlockLength, "ERR_OFFSET", 0) \in Instruction
      /\ Host!Try("DATA", 3, 0, "OK", BlockLength) \in Instruction
      /\ Host!Try("END", 4, 0, "ERR_LENGTH", BlockLength) \in Instruction
      /\ Host!Try("ABORT", 4, 0, "OK", 0) \in Instruction
      /\ Host!Try("DATA", 5, 0, "ERR_STATE", 0) \in Instruction
      /\ Host!Try("BOOT", 5, 0, "OK", 0) \in Instruction
  BY <1>1, TryType DEF Commands, Statuses
<1> DEFINE tests ==
      <<Host!Try("BEGIN", 2, 0, "OK", 0),
        Host!Try("DATA", 3, BlockLength, "ERR_OFFSET", 0),
        Host!Try("DATA", 3, 0, "OK", BlockLength),
        Host!Try("DATA", 3, 0, "OK", BlockLength),
        Host!Try("END", 4, 0, "ERR_LENGTH", BlockLength),
        Host!Try("ABORT", 4, 0, "OK", 0),
        Host!Try("DATA", 5, 0, "ERR_STATE", 0),
        Host!Try("BOOT", 5, 0, "OK", 0)>>
<1>3. tests \in Seq(Instruction)  BY <1>2
<1>4. Host!ProtocolErrors = (Host!Connect \o tests) \o Host!Verify
  BY DEF Host!ProtocolErrors
<1> HIDE DEF tests
<1> QED  BY <1>3, <1>4, ConnectOpens, OpensOn, EndsWithVerify

\* The scenario of a wrong hash.
LEMMA BadHashSound ==
  ASSUME UploadType
  PROVE  Sound(Host!BadHash)
<1> DEFINE n == (Len(upload.content) + BlockLength - 1) \div BlockLength
<1>1. BlockLength \in Nat \ {0} /\ Len(upload.content) \in Nat
  BY UpgradeAssumption DEF UploadType, Host!ValidationAssumption, Host!HostAssumption
<1>2. n \in Nat /\ n + 2 \in Nat /\ n + 3 \in Nat
  <2>1. Len(upload.content) + BlockLength - 1 \in Nat  BY <1>1
  <2>2. ASSUME NEW m \in Nat, NEW d \in Nat \ {0}  PROVE m \div d \in Nat  OBVIOUS
  <2>3. n \in Nat  BY <1>1, <2>1, <2>2
  <2> HIDE DEF n
  <2> QED  BY <2>3
<1> HIDE DEF n
<1>3. /\ Host!Offsets \in SUBSET Nat /\ {0} \in SUBSET Nat
      /\ Host!Peers \in SUBSET {"bootloader", "application"}
  BY IapAssumption DEF Host!Offsets, Host!Peers
<1>4. /\ Host!Call("HELLO", 0, 0, Host!Offsets, Host!Peers) \in Instruction
      /\ Host!Call("BEGIN", 1, 0, {0}, Host!Peers) \in Instruction
      /\ Host!Call("END", n + 2, 0, Host!Offsets, Host!Peers) \in Instruction
      /\ Host!Call("ABORT", n + 2, 0, Host!Offsets, Host!Peers) \in Instruction
      /\ Host!Call("BOOT", n + 3, 0, Host!Offsets, Host!Peers) \in Instruction
  BY <1>2, <1>3, CallType DEF Commands
<1>5. [Host!Call("END", n + 2, 0, Host!Offsets, Host!Peers) EXCEPT
         !.status = "ERR_HASH", !.expected = 0..(SeqMod - 1)] \in Instruction
  <2>1. 0..(SeqMod - 1) \in SUBSET Nat  BY IapAssumption
  <2>2. (n + 2) % SeqMod \in 0..(SeqMod - 1)  BY <1>2, IapAssumption
  <2> QED  BY <2>1, <2>2, <1>3 DEF Host!Call, Instruction, Statuses, Commands
<1>6. Host!SendBlocks(n, 2) \in Seq(Instruction)  BY <1>2, SendBlocksType
<1> DEFINE first == <<Host!Call("HELLO", 0, 0, Host!Offsets, Host!Peers),
                      Host!Call("BEGIN", 1, 0, {0}, Host!Peers)>>
           after == <<[Host!Call("END", n + 2, 0, Host!Offsets, Host!Peers) EXCEPT
                         !.status = "ERR_HASH", !.expected = 0..(SeqMod - 1)],
                      Host!Call("ABORT", n + 2, 0, Host!Offsets, Host!Peers),
                      Host!Call("BOOT", n + 3, 0, Host!Offsets, Host!Peers)>>
<1>7. first \in Seq(Instruction) /\ after \in Seq(Instruction)  BY <1>4, <1>5
<1>8. Host!BadHash =
        (((Host!Connect \o first) \o Host!SendBlocks(n, 2)) \o after) \o Host!Verify
  BY DEF Host!BadHash, n
<1> HIDE DEF first, after
<1> QED  BY <1>6, <1>7, <1>8, ConnectOpens, OpensOn, EndsWithVerify

\* The scenario of a reset in a transfer.
LEMMA InterruptedTransferSound ==
  ASSUME UploadType
  PROVE  Sound(Host!InterruptedTransfer)
<1>1. TestBlocks \in Nat  BY UpgradeAssumption DEF Host!ValidationAssumption
<1>2. Host!SendBlocks(TestBlocks, 3) \in Seq(Instruction)
  BY <1>1, SendBlocksType
<1>3. /\ Host!Try("BEGIN", 2, 0, "OK", 0) \in Instruction
      /\ Host!Try("BOOT", 2, 0, "OK", 0) \in Instruction
  BY TryType DEF Commands, Statuses
<1>4. Host!Rest("reset") \in Instruction  BY DEF Host!Rest, Instruction
<1>5. /\ <<Host!Try("BEGIN", 2, 0, "OK", 0)>> \in Seq(Instruction)
      /\ <<Host!Try("BOOT", 2, 0, "OK", 0)>> \in Seq(Instruction)
      /\ <<Host!Rest("reset")>> \in Seq(Instruction)
  BY <1>3, <1>4
<1> QED
  BY <1>2, <1>5, ConnectOpens, ConnectType, VerifyType, OpensOn, EndsWithVerify
  DEF Host!InterruptedTransfer

\* Whatever the scenario, its script is a sequence of instructions.
LEMMA ScriptSound == UploadType => Sound(Host!Script)
BY ProtocolErrorsSound, BadHashSound, InterruptedTransferSound DEF Host!Script

\* ------------------------------------------------------------------ the host --
\* While the file stays, so does what may be on the line, and the script.
LEMMA SameFile ==
  ASSUME UNCHANGED upload
  PROVE  HostFrame' = HostFrame
BY DEF HostFrame, Host!Block, Host!Shorter

\* While file and job stay, so does the script.
LEMMA SameScript ==
  ASSUME UNCHANGED <<upload, job>>
  PROVE  Host!Script' = Host!Script /\ Host!Scripted' = Host!Scripted
<1>1. /\ Host!ProtocolErrors' = Host!ProtocolErrors
      /\ Host!Connect' = Host!Connect /\ Host!Verify' = Host!Verify
  BY DEF Host!ProtocolErrors, Host!Connect, Host!Verify, Host!Call, Host!Try
<1>2. ASSUME NEW i \in Nat
      PROVE  Host!BlockEnd(i)' = Host!BlockEnd(i)
  BY DEF Host!BlockEnd, Host!Shorter
<1>3. ASSUME NEW n, NEW s
      PROVE  Host!SendBlocks(n, s)' = Host!SendBlocks(n, s)
  BY DEF Host!SendBlocks, Host!BlockEnd, Host!Shorter, Host!Try
<1>4. Host!BadHash' = Host!BadHash  BY <1>1, <1>3 DEF Host!BadHash, Host!Call
<1>5. Host!InterruptedTransfer' = Host!InterruptedTransfer
  BY <1>1, <1>3 DEF Host!InterruptedTransfer, Host!Try
<1> QED
  BY <1>1, <1>4, <1>5 DEF Host!Script, Host!Scripted

\* A request goes on the line.
LEMMA IssueType ==
  ASSUME UploadType, UNCHANGED upload, to_device \in Seq(HostFrame),
         NEW c \in Commands, NEW s \in 0..(SeqMod - 1), NEW o \in Nat, Host!Issue(c, s, o)
  PROVE  /\ phase' = c /\ host_sequence' \in 0..(SeqMod - 1) /\ host_offset' \in Nat
         /\ to_device' \in Seq(HostFrame')
<1>1. Host!Request(c, s, o) \in HostFrame  BY RequestType
<1>2. to_device' = Append(to_device, Host!Request(c, s, o))  BY DEF Host!Issue
<1>3. to_device' \in Seq(HostFrame)  BY <1>1, <1>2, AppendProperties
<1> QED  BY <1>3, SameFile DEF Host!Issue

\* Reading takes responses off the line.
LEMMA ReturnsType ==
  ASSUME to_host \in Seq(Answer), Host!Returns
  PROVE  to_host' \in Seq(Answer)
<1>1. PICK k \in 1..Len(to_host) : to_host' = SubSeq(to_host, k + 1, Len(to_host))
  BY DEF Host!Returns
<1> QED  BY <1>1, SubSeqProperties

\* The first response on the line is one, and so are those behind it.
LEMMA HeadAnswer ==
  ASSUME to_host \in Seq(Answer), to_host # <<>>
  PROVE  /\ Head(to_host).payload.offset \in Nat
         /\ Tail(to_host) \in Seq(Answer)
<1>1. Head(to_host) \in Answer /\ Tail(to_host) \in Seq(Answer)
  BY HeadTailProperties
<1> QED  BY <1>1 DEF Answer, Reply

\* What a step of the host leaves behind.
HostKeeps ==
  /\ to_device' \in Seq(HostFrame') /\ to_host' \in Seq(Answer)
  /\ HostInv'

\* HELLO does not depend on the file.
LEMMA HelloType == UploadType => Host!Request("HELLO", 0, 0) \in HostFrame
BY RequestType, IapAssumption DEF Commands

\* A program that is started, with any job and file, says HELLO first.
LEMMA LaunchStep ==
  ASSUME to_host \in Seq(Answer), NEW j \in Jobs, NEW u \in Uploads, Host!Launch(j, u)
  PROVE  HostKeeps
<1>1. UploadType'
  BY UpgradeAssumption
  DEF UploadType, Host!Launch, Host!Open, Host!ValidationAssumption, Host!HostAssumption
<1>2. (Host!Request("HELLO", 0, 0) \in HostFrame)'
  BY HelloType, <1>1, PTL
<1>3. Host!Request("HELLO", 0, 0)' = Host!Request("HELLO", 0, 0)
  BY DEF Host!Request
<1>4. to_device' \in Seq(HostFrame')
  BY <1>2, <1>3 DEF Host!Launch, Host!Open
<1>5. to_host' \in Seq(Answer)
  <2>1. \/ to_host' = <<>>
        \/ to_host # <<>> /\ to_host' = <<to_host[Len(to_host)]>>
    BY DEF Host!Launch, Host!Open
  <2>2. to_host # <<>> => to_host[Len(to_host)] \in Answer  BY EmptySeq
  <2>3. CASE to_host' = <<>>  BY <2>3
  <2>4. CASE to_host # <<>> /\ to_host' = <<to_host[Len(to_host)]>>
    <3> DEFINE a == to_host[Len(to_host)]
    <3>1. a \in Answer  BY <2>2, <2>4
    <3> HIDE DEF a
    <3>2. <<a>> \in Seq(Answer)  BY <3>1
    <3> QED  BY <2>4, <3>2 DEF a
  <2> QED  BY <2>1, <2>3, <2>4
<1>6. Sound(Host!Script)'
  BY ScriptSound, <1>1, PTL
<1>7. Host!Scripted' => Host!Script' # <<>> /\ Host!Script'[1].command = "HELLO"
                        /\ Host!Script' \in Seq(Instruction) /\ step' = 1
  BY <1>6 DEF Sound, Opens, Host!Launch, Host!Open, Host!Scripted
<1>8. phase' = "HELLO" /\ host_sequence' = 0 /\ host_offset' = 0
  BY DEF Host!Launch, Host!Open
<1>9. ScriptInv'
  BY <1>7, <1>8, EmptySeq DEF ScriptInv, Pausing
<1> QED  BY <1>1, <1>4, <1>5, <1>8, <1>9, IapAssumption DEF HostKeeps, HostInv, Commands

\* A program that ends, in any way, sends nothing.
LEMMA FinishStep ==
  ASSUME HostReady, NEW o \in {"done", "failed", "cancelled"}, Host!Finish(o),
         UNCHANGED upload, to_host' \in Seq(Answer)
  PROVE  HostKeeps
<1>1. phase' = o /\ UNCHANGED <<host_sequence, host_offset, to_device>>
  BY DEF Host!Finish
<1>2. to_device' \in Seq(HostFrame')  BY <1>1, SameFile DEF HostReady
<1>3. ScriptInv'  BY <1>1 DEF ScriptInv, Commands, Pausing
<1> QED
  BY <1>1, <1>2, <1>3 DEF HostKeeps, HostReady, HostInv, UploadType

\* A request that is issued is a frame of the file.
LEMMA IssueStep ==
  ASSUME HostReady, ~Host!Scripted, UNCHANGED <<job, upload>>,
         NEW c \in Commands, NEW s \in 0..(SeqMod - 1), NEW o \in Nat,
         Host!Issue(c, s, o), to_host' \in Seq(Answer)
  PROVE  HostKeeps
<1>1. /\ phase' = c /\ host_sequence' \in 0..(SeqMod - 1) /\ host_offset' \in Nat
      /\ to_device' \in Seq(HostFrame')
  BY IssueType DEF HostReady, HostInv
<1>2. ScriptInv'
  <2>1. ~Host!Scripted'  BY DEF Host!Scripted
  <2> QED  BY <1>1, <2>1 DEF ScriptInv, Commands, Pausing
<1> QED  BY <1>1, <1>2 DEF HostKeeps, HostReady, HostInv, UploadType

\* Nothing but the clock moves, and a repeat may go on the line.
LEMMA StayStep ==
  ASSUME HostReady, UNCHANGED <<phase, job, upload, host_sequence, host_offset, step>>,
         to_host' \in Seq(Answer), to_device' \in Seq(HostFrame)
  PROVE  HostKeeps
<1>1. HostFrame' = HostFrame  BY SameFile
<1>2. Host!Script' = Host!Script /\ Host!Scripted' = Host!Scripted  BY SameScript
<1>3. ScriptInv'  BY <1>2 DEF ScriptInv, HostReady, HostInv
<1> QED  BY <1>1, <1>3 DEF HostKeeps, HostReady, HostInv, UploadType

\* A response that is skipped leaves the request awaited.
LEMMA SkipStep ==
  ASSUME HostReady, Host!Skip, UNCHANGED step
  PROVE  HostKeeps
<1>1. to_host' \in Seq(Answer)
  BY HeadAnswer DEF HostReady, Host!Skip
<1> QED  BY <1>1, StayStep DEF Host!Skip, Host!client, HostReady

\* A response that is refused ends the program.
LEMMA RejectStep ==
  ASSUME HostReady, Host!Reject
  PROVE  HostKeeps
<1>1. to_host' \in Seq(Answer)  BY ReturnsType DEF HostReady, Host!Reject
<1>2. Host!Failure \in {"done", "failed", "cancelled"}  BY DEF Host!Failure
<1> QED  BY <1>1, <1>2, FinishStep DEF Host!Reject

\* A response that is accepted is followed by the next request, or the end.
LEMMA ProceedStep ==
  ASSUME HostReady, ~Host!Scripted, Host!Proceed
  PROVE  HostKeeps
<1> DEFINE o == Head(to_host).payload.offset
           c == Host!CommandAfter(o)
<1>1. to_host' \in Seq(Answer)  BY ReturnsType DEF HostReady, Host!Proceed
<1>2. o \in Nat  BY HeadAnswer DEF HostReady, Host!Proceed
<1>3. UNCHANGED <<job, upload>>  BY DEF Host!Proceed
<1>4. c \in {"BOOT", "INFO", "BEGIN", "DATA", "END", "done", "cancelled"}
  BY DEF Host!CommandAfter
<1>5. (host_sequence + 1) % SeqMod \in 0..(SeqMod - 1)
  BY IapAssumption DEF HostReady, HostInv
<1> HIDE DEF o, c
<1>6. \/ c \in {"done", "cancelled"} /\ Host!Finish(c)
      \/ Host!Finish("failed")
      \/ c \in Commands /\ Host!Issue(c, (host_sequence + 1) % SeqMod, o)
  BY <1>4 DEF Host!Proceed, Host!Outcomes, Commands, o, c
<1>7. CASE c \in {"done", "cancelled"} /\ Host!Finish(c)
  BY <1>1, <1>3, <1>7, FinishStep
<1>8. CASE Host!Finish("failed")  BY <1>1, <1>3, <1>8, FinishStep
<1>9. CASE c \in Commands /\ Host!Issue(c, (host_sequence + 1) % SeqMod, o)
  BY <1>1, <1>2, <1>3, <1>5, <1>9, IssueStep
<1> QED  BY <1>6, <1>7, <1>8, <1>9

\* A program that was told to cancel sends ABORT.
LEMMA CancelStep ==
  ASSUME HostReady, ~Host!Scripted, Host!Cancel
  PROVE  HostKeeps
<1>1. to_host' \in Seq(Answer)  BY ReturnsType DEF HostReady, Host!Cancel
<1>2. Head(to_host).payload.offset \in Nat  BY HeadAnswer DEF HostReady, Host!Cancel
<1>3. (host_sequence + 1) % SeqMod \in 0..(SeqMod - 1)
  BY IapAssumption DEF HostReady, HostInv
<1> QED  BY <1>1, <1>2, <1>3, IssueStep DEF Host!Cancel, Commands

\* On in the script.
LEMMA NextStepStep ==
  ASSUME HostReady, Host!Scripted, phase \in Commands \cup Pausing, Host!NextStep,
         to_host' \in Seq(Answer)
  PROVE  HostKeeps
<1>1. /\ Host!Script \in Seq(Instruction) /\ step \in 1..Len(Host!Script)
  BY ScriptSound DEF HostReady, HostInv, ScriptInv, Sound, Opens
<1>2. UNCHANGED <<job, upload>> /\ step' = step + 1  BY DEF Host!NextStep
<1>3. CASE step = Len(Host!Script)
  BY <1>2, <1>3, FinishStep DEF Host!NextStep
<1>4. CASE step # Len(Host!Script)
  <2> DEFINE i == Host!Script[step + 1]
  <2>1. i \in Instruction /\ step + 1 \in 1..Len(Host!Script)  BY <1>1, <1>4
  <2>2. Host!Script' = Host!Script /\ Host!Scripted' = Host!Scripted
    BY <1>2, SameScript
  <2>3. HostFrame' = HostFrame  BY <1>2, SameFile
  <2>4. \/ i.command \in Commands /\ Host!Issue(i.command, i.seq, i.at)
        \/ /\ i.command \notin Commands /\ phase' = i.command
           /\ UNCHANGED <<host_sequence, host_offset, to_device>>
    BY <1>4 DEF Host!NextStep, Host!Commands, Commands
  <2> HIDE DEF i
  <2>5. i.command \in Commands => i.seq \in 0..(SeqMod - 1) /\ i.at \in Nat
    BY <2>1 DEF Instruction, Commands
  <2>6. /\ phase' = i.command
        /\ host_sequence' \in 0..(SeqMod - 1) /\ host_offset' \in Nat
        /\ to_device' \in Seq(HostFrame')
    BY <1>2, <2>3, <2>4, <2>5, IssueType DEF HostReady, HostInv
  <2>7. i.command \in Commands \cup Pausing
    BY <2>1 DEF Instruction, Pausing
  <2>8. ScriptInv'
    BY <1>2, <2>1, <2>2, <2>6 DEF ScriptInv, i
  <2> QED
    BY <1>2, <2>6, <2>7, <2>8 DEF HostKeeps, HostReady, HostInv, UploadType
<1> QED  BY <1>3, <1>4

\* A scenario whose response is right goes on to the next instruction.
LEMMA PassStep ==
  ASSUME HostReady, Host!Pass
  PROVE  HostKeeps
<1>1. to_host' \in Seq(Answer)  BY ReturnsType DEF HostReady, Host!Pass
<1> QED
  BY <1>1, NextStepStep DEF Host!Pass, Host!Waiting, Host!Commands, Commands

\* A scenario whose response is wrong ends.
LEMMA FailStep ==
  ASSUME HostReady, Host!Fail
  PROVE  HostKeeps
<1>1. to_host' \in Seq(Answer)  BY ReturnsType DEF HostReady, Host!Fail
<1> QED  BY <1>1, FinishStep DEF Host!Fail

\* A scenario that has rested goes on.
LEMMA WakeStep ==
  ASSUME HostReady, Host!Wake
  PROVE  HostKeeps
<1>1. to_host' \in Seq(Answer)  BY DEF Host!Wake
<1>2. phase \in Pausing /\ Host!Scripted
  BY DEF Host!Wake, Pausing, HostReady, HostInv, ScriptInv
<1> QED  BY <1>1, <1>2, NextStepStep DEF Host!Wake

\* A scenario rests, or has rested.
LEMMA SettleStep ==
  ASSUME HostReady, Host!Settle
  PROVE  HostKeeps
<1>1. \/ Host!Wake
      \/ UNCHANGED <<phase, job, upload, host_sequence, host_offset, step,
                     to_device, to_host>>
  BY DEF Host!Settle
<1> QED  BY <1>1, WakeStep, StayStep DEF HostReady

\* A scenario resets the device and says HELLO again, or rests.
LEMMA PulseStep ==
  ASSUME HostReady, Host!Pulse
  PROVE  HostKeeps
<1>1. /\ UNCHANGED <<job, upload>> /\ step' = step + 1 /\ to_host' = <<>>
      /\ phase' = Host!Script[step + 1].command
      /\ \/ /\ host_sequence' = 0 /\ host_offset' = 0
            /\ to_device' = <<Host!Request("HELLO", 0, 0)>>
         \/ UNCHANGED <<host_sequence, host_offset>> /\ to_device' = <<>>
  BY DEF Host!Pulse
<1>2. /\ Host!Scripted /\ Sound(Host!Script)
      /\ step \in 1..Len(Host!Script) /\ Host!Script[step].command = "reset"
  BY ScriptSound DEF HostReady, HostInv, ScriptInv, Pausing, Host!Pulse
<1>3. step # Len(Host!Script)  BY <1>2 DEF Sound
<1>4. step + 1 \in 1..Len(Host!Script) /\ Host!Script[step + 1] \in Instruction
  BY <1>2, <1>3 DEF Sound, Opens
<1>5. Host!Script[step + 1].command \in Commands \cup Pausing
  BY <1>4 DEF Instruction, Pausing
<1>6. Host!Script' = Host!Script /\ Host!Scripted' = Host!Scripted
  BY <1>1, SameScript
<1>7. ScriptInv'  BY <1>1, <1>2, <1>4, <1>6 DEF ScriptInv
<1>8. to_device' \in Seq(HostFrame')
  <2>1. Host!Request("HELLO", 0, 0) \in HostFrame
    BY HelloType DEF HostReady, HostInv
  <2>2. <<Host!Request("HELLO", 0, 0)>> \in Seq(HostFrame) /\ <<>> \in Seq(HostFrame)
    BY <2>1
  <2>3. to_device' \in Seq(HostFrame)  BY <1>1, <2>2
  <2> QED  BY <1>1, <2>3, SameFile
<1>9. to_host' \in Seq(Answer)  BY <1>1
<1> QED
  BY <1>1, <1>5, <1>7, <1>8, <1>9, IapAssumption DEF HostKeeps, HostReady, HostInv, UploadType

\* A request that has timed out is repeated, or the program ends.
LEMMA TimeOutStep ==
  ASSUME HostReady, Host!TimeOut, UNCHANGED step
  PROVE  HostKeeps
<1>1. phase \in Commands /\ UNCHANGED <<job, upload, to_host>>
  BY DEF Host!TimeOut, Host!Waiting, Host!Commands, Commands
<1>2. CASE Host!Repeat
  <2>1. Host!Request(phase, host_sequence, host_offset) \in HostFrame
    BY <1>1, RequestType DEF HostReady, HostInv
  <2>2. to_device' \in Seq(HostFrame)
    BY <1>2, <2>1, AppendProperties DEF HostReady, Host!Repeat
  <2> QED  BY <1>1, <1>2, <2>2, StayStep DEF HostReady, Host!Repeat
<1>3. CASE Host!GiveUp
  <2>1. Host!Failure \in {"done", "failed", "cancelled"}  BY DEF Host!Failure
  <2> QED  BY <1>1, <1>3, <2>1, FinishStep DEF HostReady, Host!GiveUp
<1> QED  BY <1>2, <1>3 DEF Host!TimeOut

\* A program that is stopped ends.
LEMMA QuitStep ==
  ASSUME HostReady, Host!Quit
  PROVE  HostKeeps
<1>1. Host!Failure \in {"done", "failed", "cancelled"}  BY DEF Host!Failure
<1> QED  BY <1>1, FinishStep DEF HostReady, Host!Quit

\* A deadline comes nearer, or is over.
LEMMA WaitStep ==
  ASSUME HostReady, Host!Wait, UNCHANGED step
  PROVE  HostKeeps
<1>1. \/ Host!TimeOut
      \/ UNCHANGED <<phase, job, upload, host_sequence, host_offset, to_device, to_host>>
  BY DEF Host!Wait
<1> QED  BY <1>1, TimeOutStep, StayStep DEF HostReady

\* ---------------------------------------------------------------- the device --
\* Every step of the whole is one of the bootloader's, or leaves it alone.
LEMMA DeviceStep ==
  ASSUME AnyFrames, HostReady, [UpgradeNext]_all
  PROVE  [Next]_vars
<1>1. CASE BootloaderReceives
  <2>1. Head(to_device) \in HostFrame
    BY <1>1, HeadTailProperties DEF BootloaderReceives, HostReady
  <2>2. Head(to_device) \in Frames  BY <2>1 DEF HostFrame, AnyFrames
  <2> QED  BY <1>1, <2>2 DEF BootloaderReceives, Next, Line
<1>2. CASE BootloaderWorks  BY <1>2 DEF BootloaderWorks, Next, Device
<1>3. CASE Resets  BY <1>3 DEF Resets, Next, Device
<1>4. CASE HostOpens \/ HostResets  BY <1>4 DEF HostOpens, HostResets, Next
<1>5. CASE Tick \/ DeviceTimesOut
  BY <1>5 DEF Tick, DeviceTimesOut, Next, Device, device
<1>6. CASE ApplicationReceives \/ HostReceives \/ HostQuits \/ Lose \/ LoseHeader
           \/ HostTimesOut
  BY <1>6 DEF ApplicationReceives, HostReceives, HostQuits, Lose, LoseHeader,
    HostTimesOut, device
<1>7. CASE UNCHANGED all  BY <1>7 DEF all, device
<1> QED
  BY <1>1, <1>2, <1>3, <1>4, <1>5, <1>6, <1>7 DEF UpgradeNext, DeviceSteps

\* A step that leaves the slot and the update alone, or gives it up.
LEMMA SlotStays ==
  ASSUME SlotInv, UNCHANGED upload,
         UNCHANGED <<update, slot, target_index>> \/ ~update_active'
  PROVE  SlotInv'
BY DEF SlotInv, IsByte, update

\* A request changes no slot before its flash operation.
LEMMA ReceiveStep ==
  ASSUME DeviceInv, UNCHANGED upload, NEW f \in HostFrame, ProcessFrame(f),
         pc \in {"entry", "session"}
  PROVE  DeviceInv'
<1>1. HostFrame' = HostFrame  BY SameFile
<1>2. frame' \in {frame, f}
  BY DEF ProcessFrame, Repeat, RefuseVersion, RefuseSequence, RefuseOther,
      Hello, Info, Abort, Boot, RefuseBegin, Begin, RefuseData, Data, RefuseEnd,
      End, Refuse
<1>3. UNCHANGED slot /\ UNCHANGED target_index
  BY DEF ProcessFrame, Repeat, RefuseVersion, RefuseSequence, RefuseOther,
      Hello, Info, Abort, Boot, RefuseBegin, Begin, RefuseData, Data, RefuseEnd,
      End, Refuse, flash
<1>4. UNCHANGED update \/ ~update_active'
  BY DEF ProcessFrame, Repeat, RefuseVersion, RefuseSequence, RefuseOther,
      Hello, Info, Abort, Boot, RefuseBegin, Begin, RefuseData, Data, RefuseEnd,
      End, Refuse, Abandon
<1>5. pc' = "write" => frame' = f /\ f.command = "DATA"
  BY DEF ProcessFrame, Repeat, RefuseVersion, RefuseSequence, RefuseOther,
      Hello, Info, Abort, Boot, RefuseBegin, Begin, RefuseData, Data, RefuseEnd,
      End, Refuse
<1>6. SlotInv'  BY <1>3, <1>4, SlotStays DEF DeviceInv
<1> QED  BY <1>1, <1>2, <1>5, <1>6 DEF DeviceInv

\* write_buffer holds the data and erased bytes.
LEMMA PaddedIs ==
  ASSUME NEW data \in Seq(Byte)
  PROVE  /\ Padded(data) \in Seq(Byte) /\ Len(Padded(data)) \in Nat
         /\ Len(data) <= Len(Padded(data))
         /\ \A j \in 1..Len(Padded(data)) :
              Padded(data)[j] = IF j <= Len(data) THEN data[j] ELSE Erased
<1> DEFINE n == (Align - (Len(data) % Align)) % Align
           pad == [i \in 1..n |-> Erased]
<1>1. n \in Nat /\ Len(data) \in Nat  BY IapAssumption
<1>2. pad \in Seq(Byte) /\ Len(pad) = n  BY <1>1, IapAssumption
<1>3. \A i \in 1..n : pad[i] = Erased  OBVIOUS
<1>4. Padded(data) = data \o pad  BY DEF Padded
<1> HIDE DEF n, pad
<1>5. /\ Padded(data) \in Seq(Byte) /\ Len(Padded(data)) = Len(data) + n
      /\ \A j \in 1..(Len(data) + n) :
           Padded(data)[j] = IF j <= Len(data) THEN data[j] ELSE pad[j - Len(data)]
  <2>1. Len(data \o pad) = Len(data) + Len(pad)  BY <1>2, ConcatProperties
  <2>2. ASSUME NEW j \in 1..(Len(data) + Len(pad))
        PROVE  (data \o pad)[j] = IF j <= Len(data) THEN data[j] ELSE pad[j - Len(data)]
    BY <1>2, ConcatProperties
  <2>3. data \o pad \in Seq(Byte)  BY <1>2, ConcatProperties
  <2> QED  BY <1>2, <1>4, <2>1, <2>2, <2>3
<1> QED  BY <1>1, <1>3, <1>5

\* What programming a part of a block leaves of the slot.
LEMMA ProgramBlock ==
  ASSUME IInv, UploadType, DeviceInv, pc = "write",
         NEW k \in 0..Len(Padded(frame.data)), NEW c,
         c = Program(slot[target_index], next_offset, SubSeq(Padded(frame.data), 1, k))
  PROVE  /\ \A i \in 1..next_offset : IsByte(c[i], i)
         /\ \A i \in 1..SlotSize :
              next_offset < i /\ i <= EraseEnd(image_size) =>
                c[i] = Erased \/ IsByte(c[i], i)
         /\ k = Len(Padded(frame.data)) =>
              \A i \in 1..(next_offset + Len(frame.data)) : IsByte(c[i], i)
<1> DEFINE data == frame.data
           old == slot[target_index]
           part == SubSeq(Padded(data), 1, k)
<1>1. /\ frame \in HostFrame /\ data \in Seq(Byte) /\ Len(data) \in Nat
      /\ image_size \in 0..SlotSize /\ next_offset \in 0..image_size
      /\ SlotSize \in Nat /\ frame.command = "DATA"
  <2>1. frame \in Frames  BY DEF IInv, TypeOK, FlashBusy
  <2>2. frame \in Frame  BY <2>1, IapAssumption
  <2>3. frame.command = "DATA" /\ frame \in HostFrame \cup {NoFrame}  BY DEF DeviceInv
  <2>4. frame \in HostFrame  BY <2>3 DEF NoFrame
  <2>5. data \in Seq(Byte) /\ Len(data) \in Nat  BY <2>2 DEF Frame
  <2> QED  BY <2>3, <2>4, <2>5, IapAssumption DEF IInv, TypeOK
<1>2. /\ update_active /\ frame.offset = next_offset
      /\ next_offset + Len(data) <= image_size
  <2>1. update_active /\ DataStatus(frame) = "OK"  BY DEF IInv, RequestInv
  <2>2. frame.offset = next_offset /\ ~Exceeds(frame)  BY <2>1 DEF DataStatus
  <2> QED  BY <1>1, <2>1, <2>2 DEF Exceeds
<1>3. \A j \in 1..Len(data) : IsByte(data[j], next_offset + j)
  <2>1. data = Host!Block(next_offset)  BY <1>1, <1>2 DEF HostFrame
  <2> QED  BY <1>1, <2>1, BlockIs DEF IsByte
<1>4. /\ Padded(data) \in Seq(Byte) /\ Len(Padded(data)) \in Nat
      /\ Len(data) <= Len(Padded(data))
      /\ \A j \in 1..Len(Padded(data)) :
           Padded(data)[j] = IF j <= Len(data) THEN data[j] ELSE Erased
  BY <1>1, PaddedIs
<1> HIDE DEF data
<1>5. /\ Len(part) = k
      /\ \A j \in 1..k : part[j] = Padded(data)[j]
  <2>1. \A j \in 1..k : Padded(data)[j] \in Byte  BY <1>4 DEF data
  <2>2. k \in Nat  BY <1>4 DEF data
  <2> QED  BY <2>1, <2>2, SubSeqProperties
<1>6. \A i \in 1..SlotSize :
        c[i] = IF i \in (next_offset + 1)..(next_offset + k)
                 THEN Burn(old[i], Padded(data)[i - next_offset]) ELSE old[i]
  <2>1. k \in Nat /\ next_offset \in Nat  BY <1>1, <1>4 DEF data
  <2>2. \A i \in 1..SlotSize :
          c[i] = IF i \in (next_offset + 1)..(next_offset + k)
                   THEN Burn(old[i], part[i - next_offset]) ELSE old[i]
    BY <1>5 DEF Program, data
  <2>3. ASSUME NEW i \in (next_offset + 1)..(next_offset + k)
        PROVE  i - next_offset \in 1..k
    BY <2>1
  <2> QED  BY <1>5, <2>2, <2>3
<1>7. /\ \A i \in 1..next_offset : IsByte(old[i], i)
      /\ \A i \in 1..SlotSize :
           next_offset < i /\ i <= EraseEnd(image_size) =>
             old[i] = Erased \/ IsByte(old[i], i)
  BY <1>2 DEF DeviceInv, SlotInv
<1> HIDE DEF old, part
<1>8. k \in Nat /\ next_offset \in Nat /\ image_size \in Nat  BY <1>1, <1>4 DEF data
<1>9. ASSUME NEW i \in 1..next_offset
      PROVE  IsByte(c[i], i)
  <2>1. i \in 1..SlotSize /\ i \notin (next_offset + 1)..(next_offset + k)
    BY <1>1, <1>8
  <2>2. c[i] = old[i]  BY <1>6, <2>1
  <2> QED  BY <1>7, <2>2
<1>10. ASSUME NEW i \in 1..SlotSize, next_offset < i, i <= EraseEnd(image_size)
       PROVE  /\ c[i] = Erased \/ IsByte(c[i], i)
              /\ i <= next_offset + k /\ i <= next_offset + Len(data) => IsByte(c[i], i)
  <2>1. old[i] = Erased \/ IsByte(old[i], i)  BY <1>7, <1>10
  <2>2. CASE i > next_offset + k
    <3>1. c[i] = old[i]  BY <1>6, <1>8, <2>2
    <3> QED  BY <1>8, <2>1, <2>2, <3>1
  <2>3. CASE i <= next_offset + k
    <3> DEFINE j == i - next_offset
               new == Padded(data)[j]
    <3>1. j \in 1..k /\ j \in 1..Len(Padded(data)) /\ next_offset + j = i
          /\ (j <= Len(data) <=> i <= next_offset + Len(data))
      BY <1>1, <1>4, <1>8, <1>10, <2>3 DEF data
    <3>2. c[i] = Burn(old[i], new)
      <4>1. i \in (next_offset + 1)..(next_offset + k)  BY <1>8, <1>10, <2>3
      <4> QED  BY <1>6, <4>1
    <3>3. CASE j <= Len(data)
      <4>1. IsByte(new, i)  BY <1>1, <1>3, <1>4, <3>1, <3>3
      <4>2. Burn(old[i], new) = new  BY <2>1, <4>1 DEF Burn, IsByte
      <4> QED  BY <3>2, <4>1, <4>2
    <3>4. CASE ~(j <= Len(data))
      <4>1. new = Erased  BY <1>4, <3>1, <3>4
      <4>2. Burn(old[i], new) = old[i]  BY <4>1 DEF Burn
      <4> QED  BY <2>1, <3>1, <3>2, <3>4, <4>2
    <3> QED  BY <3>3, <3>4
  <2> QED  BY <1>8, <2>2, <2>3
<1>11. ASSUME k = Len(Padded(frame.data)), NEW i \in 1..(next_offset + Len(frame.data))
       PROVE  IsByte(c[i], i)
  <2>1. CASE i <= next_offset  BY <1>8, <1>9, <2>1
  <2>2. CASE next_offset < i
    <3>1. EraseEnd(image_size) \in Nat /\ image_size <= EraseEnd(image_size)
      BY <1>8, EraseEndWhole
    <3>2. i \in 1..SlotSize /\ i <= EraseEnd(image_size)
          /\ i <= next_offset + Len(data) /\ i <= next_offset + k
      BY <1>1, <1>2, <1>4, <1>8, <1>11, <3>1 DEF data
    <3> QED  BY <1>10, <2>2, <3>2
  <2> QED  BY <1>1, <1>8, <2>1, <2>2 DEF data
<1> QED  BY <1>9, <1>10, <1>11

\* The steps the bootloader takes by itself, and a power failure.
LEMMA OwnStep ==
  ASSUME IInv, UploadType, DeviceInv, UNCHANGED upload, Device \/ RereadFails \/ PowerLoss
  PROVE  DeviceInv'
<1>1. HostFrame' = HostFrame  BY SameFile
<1>2. frame' \in {frame, NoFrame}
  BY DEF Device, Start, EntryTimeout, IdleTick, Restart, LoadApp, RereadFails,
    PowerLoss, Forget, EraseDone, EraseFails, WriteDone, WriteFails, OtaEraseDone,
    OtaFails, OtaWriteDone, Fails
<1>3. pc' # "write"
  BY DEF Device, Start, EntryTimeout, IdleTick, Restart, LoadApp, RereadFails,
    PowerLoss, EraseDone, EraseFails, WriteDone, WriteFails, OtaEraseDone,
    OtaFails, OtaWriteDone, Fails
<1>4. SlotInv'
  <2>1. CASE Start \/ Restart \/ LoadApp \/ RereadFails \/ PowerLoss
    <3>1. ~update_active'
      BY <2>1 DEF Start, Restart, LoadApp, RereadFails, PowerLoss, Forget, Abandon
    <3> QED  BY <3>1 DEF SlotInv
  <2>2. CASE EntryTimeout \/ IdleTick \/ OtaEraseDone \/ OtaFails \/ OtaWriteDone
    <3>1. UNCHANGED <<update, slot, target_index>> \/ ~update_active'
      BY <2>2 DEF EntryTimeout, IdleTick, OtaEraseDone, OtaFails, OtaWriteDone,
        Abandon, flash
    <3> QED  BY <3>1, SlotStays DEF DeviceInv
  <2>3. CASE EraseFails
    <3>1. ~update_active'
      BY <2>3 DEF EraseFails, IInv, UpdateInv, update
    <3> QED  BY <3>1 DEF SlotInv
  <2>4. CASE EraseDone
    <3>1. target_index \in Slots /\ slot \in [Slots -> Cells]
      BY <2>4 DEF EraseDone, IInv, UpdateInv, TypeOK
    <3>2. /\ next_offset' = 0 /\ target_index' = target_index
          /\ slot'[target_index] = EraseTo(slot[target_index], EraseEnd(image_size'))
      BY <2>4, <3>1 DEF EraseDone
    <3>3. \A i \in 1..SlotSize :
            i <= EraseEnd(image_size') => slot'[target_index][i] = Erased
      BY <3>2 DEF EraseTo
    <3> QED  BY <3>2, <3>3 DEF SlotInv
  <2>5. CASE WriteDone \/ WriteFails
    <3>1. /\ target_index \in Slots /\ slot \in [Slots -> Cells]
          /\ UNCHANGED <<image_size, target_index>> /\ pc = "write"
      BY <2>5 DEF WriteDone, WriteFails, IInv, UpdateInv, RequestInv, TypeOK, update
    <3>2. Padded(frame.data) \in Seq(Byte) /\ Len(Padded(frame.data)) \in Nat
          /\ next_offset \in Nat /\ Len(frame.data) \in Nat
      <4>1. frame.data \in Seq(Byte)
        BY <3>1, IapAssumption DEF IInv, TypeOK, FlashBusy, Frame
      <4> QED  BY <4>1, PaddedIs, IapAssumption DEF IInv, TypeOK
    <3>3. CASE WriteFails
      <4>1. PICK k \in 0..Len(Padded(frame.data)) :
              slot' = [slot EXCEPT ![target_index] =
                Program(slot[target_index], next_offset, SubSeq(Padded(frame.data), 1, k))]
        BY <3>3 DEF WriteFails, TornProgram
      <4> DEFINE c == Program(slot[target_index], next_offset,
                              SubSeq(Padded(frame.data), 1, k))
      <4>2. slot'[target_index] = c  BY <3>1, <4>1
      <4>3. UNCHANGED <<next_offset, image_size, target_index, upload>>
        BY <3>3 DEF WriteFails, update
      <4> HIDE DEF c
      <4>4. /\ \A i \in 1..next_offset : IsByte(c[i], i)
            /\ \A i \in 1..SlotSize :
                 next_offset < i /\ i <= EraseEnd(image_size) =>
                   c[i] = Erased \/ IsByte(c[i], i)
        BY <3>1, ProgramBlock DEF c
      <4> QED  BY <4>2, <4>3, <4>4 DEF SlotInv, IsByte
    <3>4. CASE WriteDone
      <4> DEFINE k == Len(Padded(frame.data))
                 c == Program(slot[target_index], next_offset,
                              SubSeq(Padded(frame.data), 1, k))
      <4>1. SubSeq(Padded(frame.data), 1, k) = Padded(frame.data)
        BY <3>2, SubSeqFull
      <4>2. slot'[target_index] = c  BY <3>1, <3>4, <4>1 DEF WriteDone
      <4>3. /\ UNCHANGED <<image_size, target_index, upload>>
            /\ next_offset' = next_offset + Len(frame.data)
        BY <3>4 DEF WriteDone
      <4>4. k \in 0..Len(Padded(frame.data))  BY <3>2
      <4> HIDE DEF c
      <4>5. /\ \A i \in 1..SlotSize :
                 next_offset < i /\ i <= EraseEnd(image_size) =>
                   c[i] = Erased \/ IsByte(c[i], i)
            /\ \A i \in 1..(next_offset + Len(frame.data)) : IsByte(c[i], i)
        BY <3>1, <4>4, ProgramBlock DEF c
      <4>6. \A i \in 1..SlotSize :
              next_offset' < i /\ i <= EraseEnd(image_size) =>
                c[i] = Erased \/ IsByte(c[i], i)
        BY <3>2, <4>3, <4>5
      <4> QED  BY <4>2, <4>3, <4>5, <4>6 DEF SlotInv, IsByte
    <3> QED  BY <2>5, <3>3, <3>4
  <2> QED
    BY <2>1, <2>2, <2>3, <2>4, <2>5 DEF Device
<1> QED  BY <1>1, <1>2, <1>3, <1>4 DEF DeviceInv

\* A device that is left alone.
LEMMA IdleStep ==
  ASSUME DeviceInv, UNCHANGED <<device, upload>>
  PROVE  DeviceInv'
<1>1. HostFrame' = HostFrame  BY SameFile
<1>2. SlotInv'
  BY SlotStays DEF DeviceInv, device, vars, flash, update
<1> QED  BY <1>1, <1>2 DEF DeviceInv, device, vars

\* A reset starts over, also with another file.
LEMMA ResetStep ==
  ASSUME PowerLoss
  PROVE  DeviceInv'
BY DEF PowerLoss, Forget, Abandon, DeviceInv, SlotInv

\* ----------------------------------------------------------------- induction --
\* A response goes on the line.
LEMMA SendsType ==
  ASSUME to_host \in Seq(Answer), NEW f, NEW r,
         NEW p \in {"bootloader", "application"},
         r # NoReply => f \in Frame /\ r \in Reply, Sends(f, p, r)
  PROVE  to_host' \in Seq(Answer)
<1> DEFINE a == [command |-> f.command, seq |-> f.seq, payload |-> r, peer |-> p]
<1>1. CASE to_host' = to_host  BY <1>1
<1>2. CASE r # NoReply /\ to_host' = Append(to_host, a)
  <2>1. a \in Answer  BY <1>2 DEF Answer, Frame
  <2> QED  BY <1>2, <2>1, AppendProperties
<1> QED  BY <1>1, <1>2 DEF Sends

\* A frame that is taken off the line is one that the host has sent.
LEMMA HeadFrame ==
  ASSUME to_device \in Seq(HostFrame), to_device # <<>>
  PROVE  Head(to_device) \in HostFrame /\ Tail(to_device) \in Seq(HostFrame)
BY HeadTailProperties

\* Every initial state satisfies the invariant.
LEMMA UpgradeInitInv == UpgradeInit => UInv
<1> SUFFICES ASSUME UpgradeInit PROVE UInv  OBVIOUS
<1>1. IInv  BY InitInv DEF UpgradeInit
<1>2. UploadType
  BY DEF UpgradeInit, Host!Init, Host!NoUpload, UploadType
<1>3. HostInv
  BY <1>2, IapAssumption DEF UpgradeInit, Host!Init, HostInv, ScriptInv, Pausing, Commands
<1>4. HostReady  BY <1>3 DEF UpgradeInit, Host!Init, HostReady
<1>5. DeviceInv
  BY DEF UpgradeInit, Init, DeviceInv, SlotInv
<1> QED  BY <1>1, <1>4, <1>5 DEF UInv

\* Every step of the whole preserves it.
LEMMA UpgradeNextInv == AnyFrames /\ UInv /\ [UpgradeNext]_all => UInv'
<1> SUFFICES ASSUME AnyFrames, UInv, [UpgradeNext]_all PROVE UInv'  OBVIOUS
<1> USE DEF UInv
<1>1. IInv'
  <2>1. [Next]_vars  BY DeviceStep
  <2> QED  BY <2>1, NextInv
<1>2. TypeOK /\ TypeOK' /\ HostInv /\ UploadType
      /\ to_device \in Seq(HostFrame) /\ to_host \in Seq(Answer)
  BY <1>1 DEF IInv, HostReady, HostInv
<1>3. HostKeeps => HostReady'  BY DEF HostKeeps, HostReady
<1>4. CASE BootloaderReceives
  <2>1. Head(to_device) \in HostFrame /\ to_device' \in Seq(HostFrame)
    BY <1>2, <1>4, HeadFrame DEF BootloaderReceives
  <2>2. to_host' \in Seq(Answer)
    <3>1. reply' # NoReply => Head(to_device) \in Frame /\ reply' \in Reply
      BY <1>2, <2>1 DEF TypeOK, HostFrame
    <3> QED  BY <1>2, <1>4, <3>1, SendsType DEF BootloaderReceives
  <2>3. UNCHANGED <<phase, job, upload, host_sequence, host_offset, step>>
    BY <1>4 DEF BootloaderReceives, client
  <2>4. HostKeeps  BY <2>1, <2>2, <2>3, StayStep
  <2>5. DeviceInv'
    <3>1. CASE ProcessFrame(Head(to_device))
      <4>1. pc \in {"entry", "session"}
        BY <1>4 DEF BootloaderReceives, EntryFrame, SessionFrame
      <4> QED  BY <2>1, <2>3, <3>1, <4>1, ReceiveStep
    <3>2. CASE pc' = "boot" /\ UNCHANGED <<flash, target_index, update, session, frame, running>>
      <4>1. SlotInv'  BY <2>3, <3>2, SlotStays DEF DeviceInv, flash
      <4> QED  BY <2>3, <3>2, <4>1, SameFile DEF DeviceInv
    <3> QED  BY <1>4, <3>1, <3>2 DEF BootloaderReceives, EntryFrame, SessionFrame
  <2> QED  BY <1>1, <1>3, <2>4, <2>5
<1>5. CASE ApplicationReceives
  <2>1. Head(to_device) \in HostFrame /\ to_device' \in Seq(HostFrame)
    BY <1>2, <1>5, HeadFrame DEF ApplicationReceives
  <2>2. Response("OK", 1, 0) \in Reply /\ Response("ERR_STATE", 0, 0) \in Reply
    BY IapAssumption DEF Response, Reply, Statuses
  <2>3. to_host' \in Seq(Answer)
    BY <1>2, <1>5, <2>1, <2>2, SendsType DEF ApplicationReceives, HostFrame
  <2>4. UNCHANGED <<phase, job, upload, host_sequence, host_offset, step>>
        /\ UNCHANGED device
    BY <1>5 DEF ApplicationReceives, client
  <2> QED  BY <1>1, <1>3, <2>1, <2>3, <2>4, StayStep, IdleStep
<1>6. CASE BootloaderWorks
  <2>1. /\ UNCHANGED <<phase, job, upload, host_sequence, host_offset, step>>
        /\ UNCHANGED to_device
        /\ Device
    BY <1>6 DEF BootloaderWorks, client, Device
  <2>2. reply' # NoReply => frame \in Frame /\ reply' \in Reply
    <3>1. reply' # NoReply => FlashBusy
      BY <1>6 DEF BootloaderWorks, Start, LoadApp, Forget, EraseDone, EraseFails,
        WriteDone, WriteFails, OtaEraseDone, OtaFails, OtaWriteDone, FlashBusy
    <3> QED  BY <1>2, <3>1, IapAssumption DEF TypeOK
  <2>3. to_host' \in Seq(Answer)
    BY <1>2, <1>6, <2>2, SendsType DEF BootloaderWorks
  <2> QED  BY <1>1, <1>2, <1>3, <2>1, <2>3, StayStep, OwnStep
<1>7. CASE Resets
  <2>1. /\ UNCHANGED <<phase, job, upload, host_sequence, host_offset, step, to_host>>
        /\ to_device' \in Seq(HostFrame)
        /\ Device \/ RereadFails \/ PowerLoss
    <3>1. <<>> \in Seq(HostFrame)  OBVIOUS
    <3> QED  BY <1>2, <1>7, <3>1 DEF Resets, client, Device
  <2> QED  BY <1>1, <1>2, <1>3, <2>1, StayStep, OwnStep
<1>8. CASE Lose \/ LoseHeader
  <2>1. UNCHANGED <<phase, job, upload, host_sequence, host_offset, step>>
        /\ UNCHANGED device
    BY <1>8 DEF Lose, LoseHeader, client
  <2>2. to_host' \in Seq(Answer)
    BY <1>2, <1>8, HeadTailProperties DEF Lose, LoseHeader
  <2>3. to_device' \in Seq(HostFrame)
    <3>1. CASE Lose  BY <1>2, <3>1, HeadFrame DEF Lose
    <3>2. CASE LoseHeader
      <4> DEFINE hello == <<Host!Request("HELLO", 0, 0)>>
      <4>1. Host!Request("HELLO", 0, 0) \in HostFrame  BY <1>2, HelloType
      <4>2. hello \in Seq(HostFrame)  BY <4>1
      <4>3. to_device' = hello \o Tail(to_device) /\ to_device # <<>>
        BY <3>2 DEF LoseHeader
      <4> HIDE DEF hello
      <4> QED  BY <1>2, <4>2, <4>3, HeadFrame, ConcatProperties
    <3> QED  BY <1>8, <3>1, <3>2
  <2> QED  BY <1>1, <1>3, <2>1, <2>2, <2>3, StayStep, IdleStep
<1>9. CASE HostOpens
  <2>1. HostKeeps  BY <1>2, <1>9, LaunchStep DEF HostOpens
  <2> QED  BY <1>1, <1>3, <1>9, <2>1, ResetStep DEF HostOpens
<1>10. CASE HostResets
  <2>1. HostKeeps  BY <1>10, PulseStep DEF HostResets
  <2> QED  BY <1>1, <1>3, <1>10, <2>1, ResetStep DEF HostResets
<1>11. CASE HostReceives
  <2>1. HostKeeps /\ UNCHANGED upload
    <3>1. CASE Host!Skip /\ UNCHANGED step
      BY <3>1, SkipStep DEF Host!Skip, Host!client
    <3>2. CASE ~Host!Scripted /\ (Host!Reject \/ Host!Proceed \/ Host!Cancel)
      BY <3>2, RejectStep, ProceedStep, CancelStep
      DEF Host!Reject, Host!Proceed, Host!Cancel
    <3>3. CASE Host!Pass \/ Host!Fail
      BY <3>3, PassStep, FailStep DEF Host!Pass, Host!Fail, Host!NextStep
    <3> QED  BY <1>11, <3>1, <3>2, <3>3 DEF HostReceives
  <2> QED  BY <1>1, <1>3, <1>11, <2>1, IdleStep DEF HostReceives
<1>12. CASE HostQuits
  <2>1. HostKeeps /\ UNCHANGED upload
    BY <1>12, QuitStep DEF HostQuits, Host!Quit
  <2> QED  BY <1>1, <1>3, <1>12, <2>1, IdleStep DEF HostQuits
<1>13. CASE Tick
  <2>1. HostKeeps
    BY <1>13, WaitStep, SettleStep DEF Tick
  <2>2. UNCHANGED upload
    BY <1>13 DEF Tick, Host!Wait, Host!TimeOut, Host!Settle, Host!Wake, Host!NextStep
  <2>3. UNCHANGED device \/ Device  BY <1>13 DEF Tick, Device
  <2> QED  BY <1>1, <1>2, <1>3, <2>1, <2>2, <2>3, IdleStep, OwnStep
<1>14. CASE HostTimesOut
  <2>1. HostKeeps
    BY <1>14, TimeOutStep, WakeStep DEF HostTimesOut
  <2>2. UNCHANGED upload
    BY <1>14 DEF HostTimesOut, Host!TimeOut, Host!Wake, Host!NextStep
  <2> QED  BY <1>1, <1>3, <1>14, <2>1, <2>2, IdleStep DEF HostTimesOut
<1>15. CASE DeviceTimesOut
  <2>1. UNCHANGED <<client, line>> /\ Device
    BY <1>15 DEF DeviceTimesOut, Device
  <2> QED  BY <1>1, <1>2, <1>3, <2>1, StayStep, OwnStep DEF client, line
<1>16. CASE UNCHANGED all
  BY <1>1, <1>2, <1>3, <1>16, StayStep, IdleStep DEF all, client, line
<1> QED
  BY <1>4, <1>5, <1>6, <1>7, <1>8, <1>9, <1>10, <1>11, <1>12, <1>13, <1>14, <1>15, <1>16
  DEF UpgradeNext, DeviceSteps

\* The invariant holds throughout.
THEOREM UpgradeInvariance == ASSUME AnyFrames PROVE Upgrade => []UInv
BY UpgradeInitInv, UpgradeNextInv, PTL DEF Upgrade

\* What has been received is the beginning of the file, byte by byte.
LEMMA ReceivedInSlot == UInv => ReceivedIsSent
<1> SUFFICES ASSUME UInv, update_active
             PROVE  /\ next_offset <= Len(upload.content)
                    /\ IsPrefixOf(SubSeq(upload.content, 1, next_offset), slot[target_index])
  BY DEF ReceivedIsSent
<1>1. /\ next_offset \in 0..SlotSize /\ SlotSize \in Nat
      /\ slot[target_index] \in Cells
  BY IapAssumption DEF UInv, IInv, TypeOK, UpdateInv
<1>2. \A i \in 1..next_offset : IsByte(slot[target_index][i], i)
  BY DEF UInv, DeviceInv, SlotInv
<1>3. upload.content \in Seq(Byte) /\ Len(upload.content) \in Nat
  BY DEF UInv, HostReady, HostInv, UploadType
<1>4. next_offset <= Len(upload.content)
  BY <1>1, <1>2, <1>3 DEF IsByte
<1>5. SubSeq(slot[target_index], 1, next_offset) = SubSeq(upload.content, 1, next_offset)
  <2> DEFINE s == SubSeq(slot[target_index], 1, next_offset)
             t == SubSeq(upload.content, 1, next_offset)
  <2>1. /\ s \in Seq(Byte) /\ Len(s) = next_offset
        /\ \A i \in 1..next_offset : s[i] = slot[target_index][i]
    <3>1. \A i \in 1..next_offset : slot[target_index][i] \in Byte
      BY <1>1 DEF Cells
    <3> QED  BY <1>1, <3>1, SubSeqProperties
  <2>2. /\ t \in Seq(Byte) /\ Len(t) = next_offset
        /\ \A i \in 1..next_offset : t[i] = upload.content[i]
    <3>1. \A i \in 1..next_offset : upload.content[i] \in Byte
      BY <1>1, <1>3, <1>4
    <3> QED  BY <1>1, <3>1, SubSeqProperties
  <2> HIDE DEF s, t
  <2>3. \A i \in 1..next_offset : s[i] = t[i]  BY <1>2, <2>1, <2>2 DEF IsByte
  <2> QED  BY <2>1, <2>2, <2>3, SeqEqual DEF s, t
<1>6. Len(SubSeq(upload.content, 1, next_offset)) = next_offset
  <2>1. \A i \in 1..next_offset : upload.content[i] \in Byte  BY <1>1, <1>3, <1>4
  <2> QED  BY <1>1, <2>1, SubSeqProperties
<1> QED  BY <1>1, <1>4, <1>5, <1>6 DEF IsPrefixOf

\* ------------------------------------------------------------------ theorems --
\* Within the whole the device does what the bootloader's own specification lets
\* it do: every theorem about that is one about this.
THEOREM DeviceIsBootloader == ASSUME AnyFrames PROVE Upgrade => Spec
<1>1. UpgradeInit => Init  BY DEF UpgradeInit
<1>2. UInv /\ [UpgradeNext]_all => [Next]_vars  BY DeviceStep DEF UInv
<1> QED  BY <1>1, <1>2, UpgradeInvariance, PTL DEF Upgrade, Spec

\* The bytes that the device counts as received are in the slot and are the first
\* bytes of the file: no loss, repeat, late frame, failed write, reset, new run
\* of a program or changed file puts anything else there.
THEOREM WhatIsReceivedWasSent == ASSUME AnyFrames PROVE Upgrade => []ReceivedIsSent
BY ReceivedInSlot, UpgradeInvariance, PTL
=============================================================================

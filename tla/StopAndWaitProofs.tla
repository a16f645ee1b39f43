------------------------- MODULE StopAndWaitProofs -------------------------
(***************************************************************************)
(* That host and device stay in step, that a program which says so has the *)
(* image selected, and that no other program moves the boot selection:     *)
(* what the whole upgrade owes to its sequence numbers, for every file,    *)
(* block length, width of the numbers, number of attempts and of losses.   *)
(***************************************************************************)
EXTENDS SerialUpgradeProofs

\* ------------------------------------------------------ what is on its way --
\* The requests that the device has still to answer: on the line, or waiting for
\* their flash operation.
Sent    == {to_device[i] : i \in 1..Len(to_device)}
Pending == IF FlashBusy THEN {frame} ELSE {}
Outstanding == Sent \cup Pending

\* The responses that the host has still to read.
Heard == {to_host[i] : i \in 1..Len(to_host)}

InSession == pc = "session" \/ FlashBusy

\* The request that the host is waiting for, its repeats, and their responses.
Current(x) == x.command = phase /\ x.seq = host_sequence

\* What may follow those on the line: themselves, and a HELLO that was found in a
\* block that has lost its header.
After(x) == Current(x) \/ (x.command = "HELLO" /\ phase = "DATA" /\ astray)

\* The host says one thing at a time: a queue holds what is left of earlier
\* requests, and then the current one.
Ordered(q) == \A i, j \in 1..Len(q) : i < j /\ Current(q[i]) => After(q[j])

\* The same along the whole way of a request, out and back.
WindowInv ==
  /\ Ordered(to_device) /\ Ordered(to_host)
  /\ (\E x \in Pending : Current(x)) => \A y \in Sent : After(y)
  /\ (\E a \in Heard : Current(a)) => \A x \in Outstanding : After(x)

\* What is not current is the request before, or a HELLO out of an image.
Behind(x) ==
  \/ x.seq = host_sequence \/ (x.seq + 1) % SeqMod = host_sequence
  \/ x.command = "HELLO" /\ astray

BehindInv ==
  /\ phase \in Commands \ {"HELLO"} => \A x \in Outstanding : Behind(x)
  /\ phase = "HELLO" => \A x \in Outstanding :
        Current(x) \/ (Host!Scripted /\ x.command \in {"INFO", "BOOT"})
  /\ phase = "settle" => \A x \in Outstanding : x.command = "BOOT"

\* What belongs to an update is said of the file of this run.
FrameInv ==
  /\ \A x \in Outstanding :
       x.command = "BEGIN" =>
         x.data = upload.declared /\ x.size = Len(upload.declared)
  /\ update_active =>
       expected_sha256 = upload.declared /\ image_size = Len(upload.declared)

\* --------------------------------------------------------------- the device --
\* The request whose response is kept is the latest that moved the sequence.
LastInv ==
  /\ pc = "erase" => frame.command = "BEGIN"
  /\ pc = "write" => frame.command = "DATA"
  /\ pc \in {"otaErase", "otaWrite"} => frame.command = "END"
  /\ pc = "entry" => last = NoRequest
  /\ InSession /\ last # NoRequest =>
       /\ expected_sequence = (last.request.seq + 1) % SeqMod
       /\ last.request.command \in {"HELLO", "INFO", "BEGIN", "DATA", "ABORT"}
       /\ update_active => last.request.command \in {"INFO", "BEGIN", "DATA"}

\* ------------------------------------------------------------ host and device --
Astray == astray /\ ~update_active

\* A response OK to the current request is on its way.
OkHeard == \E a \in Heard : Current(a) /\ a.payload.status = "OK"

\* A device that has answered the current request is just past it; one that has
\* not is at it, or just past it.
StepInv ==
  /\ OkHeard /\ InSession =>
       expected_sequence = (host_sequence + 1) % SeqMod \/ Astray
  /\ OkHeard /\ phase = "ABORT" => ~update_active
  /\ InSession /\ phase \in Commands \ {"HELLO"} =>
       expected_sequence \in {host_sequence, (host_sequence + 1) % SeqMod} \/ Astray
  /\ InSession /\ phase = "HELLO" /\ ~Host!Scripted =>
       expected_sequence = (host_sequence + 1) % SeqMod

\* ----------------------------------------------------------------- scenarios --
\* What comes of a request and the next instruction n after instruction i.
Follows(i, n) ==
  /\ i.command \in Commands /\ n.command \in Commands =>
       IF n.command = "HELLO" THEN i.command = "INFO"
       ELSE \/ n.seq = i.seq /\ i.command # "HELLO"
            \/ n.seq = (i.seq + 1) % SeqMod /\ i.status = "OK"
  /\ n.command = "HELLO" => n.seq = 0
  /\ n.command = "settle" => i.command \in {"BOOT", "reset"}
  /\ i.command = "settle" => n.command = "HELLO"
  /\ i.command = "reset" => n.command \in {"HELLO", "settle"}

Linked(s) == \A k \in 1..(Len(s) - 1) : Follows(s[k], s[k + 1])

\* What a scenario has on the line is of the latest two instructions, but for the
\* BOOT before a rest.
OfScript(x) ==
  \/ x.command = "HELLO" /\ astray
  \/ \E i \in {step - 1, step} \cap (1..Len(Host!Script)) :
       Host!Script[i].command = x.command /\ Host!Script[i].seq = x.seq
  \/ /\ x.command = "BOOT" /\ step \in 1..Len(Host!Script)
     /\ Host!Script[step].command \in {"settle", "HELLO"}

ScenarioInv ==
  /\ step \in Nat
  /\ Host!Scripted =>
       /\ Host!Fits(job, upload)
       /\ phase \in Commands => host_sequence = Host!Script[step].seq
       /\ \A x \in Outstanding : OfScript(x)

\* protocol-errors has at most one block written, and none after ABORT.
Written == update_active /\ next_offset > 0
ErrorsInv ==
  job = "protocol-errors" =>
    /\ phase \in Commands \/ step >= 5 =>
         /\ pc = "write" => next_offset = 0
         /\ Written =>
              /\ step >= 4 /\ next_offset <= BlockLength
              /\ expected_sequence = 4 % SeqMod
              /\ \A x \in Outstanding : x.command \notin {"INFO", "BEGIN"}
    /\ step >= 9 => ~update_active /\ pc # "erase"

\* ----------------------------------------------------------- the boot selection --
SelectionInv ==
  /\ Host!Scripted => pc \notin {"otaErase", "otaWrite"}
  /\ ~Host!Scripted /\ (\E x \in Outstanding : x.command = "END") =>
       phase \in {"END", "done", "failed"}
  /\ BootIndex(otadata) # selected =>
       ~Host!Scripted /\ phase \in {"END", "done", "failed"}

\* ota_seq has run out: no further image can be selected.
Exhausted == \E e \in Entries : otadata[e] = SeqMax - 1

\* The update is over and nothing on the line begins another.
Selected ==
  /\ pc \in {"reset", "start", "entry", "boot", "app"}
  /\ \A x \in Sent : x.command = "END"
  /\ Exhausted \/ BootedImage = upload.declared

DoneInv ==
  job = "flash" =>
    /\ phase \notin {"BOOT", "other"} \cup Pausing
    /\ phase = "END" /\ OkHeard => Selected
    /\ phase = "done" => Selected

Inv ==
  /\ WindowInv /\ BehindInv /\ FrameInv /\ LastInv /\ StepInv /\ ScenarioInv
  /\ ErrorsInv /\ SelectionInv /\ DoneInv

\* ----------------------------------------------------------------- the queues --
\* What is left of a queue when its first element is taken.
LEMMA TailIs ==
  ASSUME NEW S, NEW q \in Seq(S), q # <<>>
  PROVE  /\ Len(q) \in Nat \ {0} /\ Head(q) = q[1] /\ Len(Tail(q)) = Len(q) - 1
         /\ \A i \in 1..Len(Tail(q)) : i + 1 \in 1..Len(q) /\ Tail(q)[i] = q[i + 1]
<1>1. Len(q) \in Nat \ {0}  BY EmptySeq
<1>2. Head(q) = q[1] /\ Len(Tail(q)) = Len(q) - 1  BY <1>1
<1>3. ASSUME NEW i \in 1..Len(Tail(q))
      PROVE  i + 1 \in 1..Len(q) /\ Tail(q)[i] = q[i + 1]
  BY <1>1, <1>2
<1> QED  BY <1>1, <1>2, <1>3

\* What is in a queue to which an element is added.
LEMMA AppendIs ==
  ASSUME NEW S, NEW q \in Seq(S), NEW y
  PROVE  /\ Len(q) \in Nat /\ Len(Append(q, y)) = Len(q) + 1
         /\ \A i \in 1..(Len(q) + 1) : Append(q, y)[i] = IF i <= Len(q) THEN q[i] ELSE y
<1>1. Len(q) \in Nat /\ Len(Append(q, y)) = Len(q) + 1  OBVIOUS
<1> QED  BY <1>1

\* What is left of a queue when its first elements are dropped.
LEMMA CutIs ==
  ASSUME NEW S, NEW q \in Seq(S), NEW k \in 1..Len(q), NEW c,
         c = SubSeq(q, k + 1, Len(q))
  PROVE  /\ Len(c) \in Nat
         /\ \A i \in 1..Len(c) : i + k \in 2..Len(q) /\ c[i] = q[i + k]
<1>1. Len(q) \in Nat /\ k \in Nat  OBVIOUS
<1>2. Len(c) = Len(q) - k
  BY <1>1, SubSeqProperties
<1>3. ASSUME NEW i \in 1..Len(c)
      PROVE  i + k \in 2..Len(q) /\ c[i] = q[i + k]
  BY <1>1, <1>2, <1>3
<1> QED  BY <1>1, <1>2, <1>3

\* A queue stays in order when its first element is taken.
LEMMA OrderedTail ==
  ASSUME NEW S, NEW q \in Seq(S), q # <<>>, Ordered(q)
  PROVE  Ordered(Tail(q))
<1> SUFFICES ASSUME NEW i \in 1..Len(Tail(q)), NEW j \in 1..Len(Tail(q)),
                    i < j, Current(Tail(q)[i])
             PROVE  After(Tail(q)[j])
  BY DEF Ordered
<1>1. /\ i + 1 \in 1..Len(q) /\ Tail(q)[i] = q[i + 1]
      /\ j + 1 \in 1..Len(q) /\ Tail(q)[j] = q[j + 1]
  BY TailIs
<1> QED  BY <1>1 DEF Ordered

\* A queue stays in order when what is added may follow.
LEMMA OrderedAppend ==
  ASSUME NEW S, NEW q \in Seq(S), Ordered(q), NEW y,
         (\E i \in 1..Len(q) : Current(q[i])) => After(y)
  PROVE  Ordered(Append(q, y))
<1> SUFFICES ASSUME NEW i \in 1..Len(Append(q, y)), NEW j \in 1..Len(Append(q, y)),
                    i < j, Current(Append(q, y)[i])
             PROVE  After(Append(q, y)[j])
  BY DEF Ordered
<1>1. /\ Len(q) \in Nat /\ Len(Append(q, y)) = Len(q) + 1
      /\ \A n \in 1..(Len(q) + 1) : Append(q, y)[n] = IF n <= Len(q) THEN q[n] ELSE y
  BY AppendIs
<1>2. i \in 1..Len(q) /\ Append(q, y)[i] = q[i]  BY <1>1
<1>3. CASE j <= Len(q)
  <2>1. j \in 1..Len(q) /\ Append(q, y)[j] = q[j]  BY <1>1, <1>3
  <2> QED  BY <1>2, <2>1 DEF Ordered
<1>4. CASE ~(j <= Len(q))
  <2>1. Append(q, y)[j] = y  BY <1>1, <1>4
  <2> QED  BY <1>2, <2>1
<1> QED  BY <1>3, <1>4

\* A queue whose elements may all follow the current one is in order.
LEMMA AllAfterOrdered ==
  ASSUME NEW q, \A i \in 1..Len(q) : After(q[i])
  PROVE  Ordered(q)
BY DEF Ordered

\* ------------------------------------------------------- what the device does --
\* It answers without moving the sequence: a refusal, or a response it has kept.
Refuses(f) ==
  /\ pc = "session" /\ pc' = "session"
  /\ UNCHANGED <<flash, update, session, frame>>
  /\ reply'.status = "OK" => last # NoRequest /\ last.request = Key(f)

\* It answers and moves the sequence.
Accepts(f) ==
  /\ pc \in {"entry", "session"}
  /\ pc' = IF f.command = "BOOT" THEN "boot" ELSE "session"
  /\ UNCHANGED <<flash, frame>>
  /\ f.command \in {"HELLO", "INFO", "ABORT", "BOOT"}
  /\ \E o \in Nat : Accept(f, o)
  /\ IF f.command = "INFO" THEN UNCHANGED update /\ f.seq = expected_sequence
     ELSE Abandon

\* It has a flash operation to do before it answers.
Starts(f) ==
  /\ pc = "session" /\ frame' = f /\ reply' = NoReply
  /\ UNCHANGED <<flash, session, target_index>>
  /\ f.seq = expected_sequence
  /\ \/ f.command = "BEGIN" /\ pc' = "erase" /\ Abandon
     \/ /\ f.command = "DATA" /\ pc' = "write"
        /\ UNCHANGED update /\ DataStatus(f) = "OK"
     \/ /\ f.command = "END" /\ pc' = "otaErase"
        /\ UNCHANGED update /\ "OK" \in EndStatuses(f)

\* It does not answer and leaves the entry window.
Ignores ==
  /\ pc = "entry" /\ pc' = "boot" /\ reply' = NoReply
  /\ UNCHANGED <<flash, update, session, frame>>

\* A request that the bootloader takes is dealt with in one of these ways.
LEMMA Taken ==
  ASSUME IInv, LastInv, NEW f \in Frame, EntryFrame(f) \/ SessionFrame(f)
  PROVE  Refuses(f) \/ Accepts(f) \/ Starts(f) \/ Ignores
<1>1. CASE pc = "entry"
  <2>1. EntryFrame(f)  BY <1>1 DEF SessionFrame
  <2>2. CASE f.version = 1 /\ f.command = "HELLO" /\ f.seq = 0 /\ ProcessFrame(f)
    <3>1. ~Matches(f)  BY <1>1 DEF Matches, LastInv
    <3>2. Hello(f)
      BY <2>2, <3>1 DEF ProcessFrame, Repeat, RefuseVersion, RefuseSequence, RefuseOther,
        Info, Abort, Boot, RefuseBegin, Begin, RefuseData, Data, RefuseEnd, End, InOrder
    <3> QED  BY <1>1, <2>2, <3>2 DEF Hello, Accepts
  <2>3. CASE pc' = "boot" /\ reply' = NoReply
             /\ UNCHANGED <<flash, target_index, update, session, frame, running>>
    BY <1>1, <2>3 DEF Ignores
  <2> QED  BY <2>1, <2>2, <2>3 DEF EntryFrame
<1>2. CASE pc = "session" /\ ProcessFrame(f)
  <2>1. CASE Repeat(f)
    BY <1>2, <2>1 DEF Repeat, Matches, Refuses
  <2>2. ASSUME NEW s \in Statuses \ {"OK"}, Refuse(s)
        PROVE  Refuses(f)
    BY <1>2, <2>2 DEF Refuse, Response, Refuses
  <2>3. CASE RefuseVersion(f) \/ RefuseSequence(f) \/ RefuseOther(f) \/ RefuseBegin(f)
             \/ RefuseData(f) \/ RefuseEnd(f)
    <3>1. EndStatuses(f) \subseteq Statuses  BY DEF EndStatuses, Statuses
    <3>2. \E s \in Statuses \ {"OK"} : Refuse(s)
      BY <2>3, <3>1 DEF RefuseVersion, RefuseSequence, RefuseOther, RefuseBegin,
        RefuseData, RefuseEnd, Statuses, BeginStatus, DataStatus
    <3> QED  BY <2>2, <3>2
  <2>4. CASE Hello(f) \/ Abort(f) \/ Boot(f)
    BY <1>2, <2>4 DEF Hello, Abort, Boot, Accepts
  <2>5. CASE Info(f)
    <3>1. next_offset \in Nat  BY DEF IInv, TypeOK
    <3> QED  BY <1>2, <2>5, <3>1 DEF Info, InOrder, Accepts
  <2>6. CASE Begin(f)  BY <1>2, <2>6 DEF Begin, InOrder, Starts
  <2>7. CASE Data(f)   BY <1>2, <2>7 DEF Data, InOrder, Starts
  <2>8. CASE End(f)    BY <1>2, <2>8 DEF End, InOrder, Starts
  <2> QED  BY <1>2, <2>1, <2>3, <2>4, <2>5, <2>6, <2>7, <2>8 DEF ProcessFrame
<1> QED  BY <1>1, <1>2 DEF EntryFrame, SessionFrame

\* A flash operation that fails leaves sequence and update as they were.
FailsAsIs ==
  /\ FlashBusy /\ pc' = "session" /\ frame' = NoFrame
  /\ UNCHANGED <<update, session>> /\ reply'.status = "ERR_FLASH"

\* What it does on its own beside flash operations.
Idles ==
  /\ UNCHANGED <<flash, session, frame>>
  /\ \/ UNCHANGED <<pc, update>>
     \/ pc \in {"entry", "session"} /\ pc' = "boot" /\ (UNCHANGED update \/ Abandon)

\* The three operations that may fail do so alike.
LEMMA FailsIs ==
  ASSUME EraseFails \/ WriteFails \/ OtaFails
  PROVE  FailsAsIs
BY DEF EraseFails, WriteFails, OtaFails, Fails, Response, FailsAsIs, FlashBusy

\* A clock that runs out ends a wait.
LEMMA IdlesIs ==
  ASSUME UNCHANGED device \/ EntryTimeout \/ IdleTick
  PROVE  Idles
BY DEF device, vars, EntryTimeout, IdleTick, Idles, flash, update, session

\* The request whose response is kept is the latest that was accepted.
LEMMA LastInvStep ==
  ASSUME IInv, LastInv, [Next]_vars
  PROVE  LastInv'
<1>1. CASE UNCHANGED vars
  BY <1>1 DEF vars, session, update, LastInv, InSession, FlashBusy
<1>2. CASE Line
  <2>1. PICK f \in Frames : EntryFrame(f) \/ SessionFrame(f)  BY <1>2 DEF Line
  <2>2. f \in Frame  BY IapAssumption
  <2>3. CASE Refuses(f)
    BY <2>3 DEF Refuses, LastInv, InSession, FlashBusy, update, session
  <2>4. CASE Accepts(f)
    <3>1. /\ last'.request.seq = f.seq /\ last'.request.command = f.command
          /\ expected_sequence' = (f.seq + 1) % SeqMod
      BY <2>2, <2>4, KeyKeeps DEF Accepts, Accept
    <3>2. pc' \in {"session", "boot"}  BY <2>4 DEF Accepts
    <3>3. pc' = "session" => f.command \in {"HELLO", "INFO", "ABORT"}
      BY <2>4 DEF Accepts
    <3>4. update_active' => f.command = "INFO"  BY <2>4 DEF Accepts, Abandon
    <3> QED  BY <3>1, <3>2, <3>3, <3>4 DEF LastInv, InSession, FlashBusy
  <2>5. CASE Starts(f)
    BY <2>5 DEF Starts, LastInv, InSession, FlashBusy, session, update, Abandon
  <2>6. CASE Ignores
    BY <2>6 DEF Ignores, LastInv, InSession, FlashBusy
  <2> QED  BY <2>1, <2>2, <2>3, <2>4, <2>5, <2>6, Taken
<1>3. CASE EraseDone \/ WriteDone \/ OtaWriteDone
  <2>1. FlashBusy /\ frame \in Frame  BY <1>3, FrameType DEF EraseDone, WriteDone, OtaWriteDone, FlashBusy
  <2>2. \E o : Accept(frame, o)  BY <1>3 DEF EraseDone, WriteDone, OtaWriteDone
  <2>3. /\ last'.request.seq = frame.seq /\ last'.request.command = frame.command
        /\ expected_sequence' = (frame.seq + 1) % SeqMod
    BY <2>1, <2>2, KeyKeeps DEF Accept
  <2>4. CASE EraseDone
    <3>1. frame.command = "BEGIN" /\ pc' = "session"  BY <2>4 DEF EraseDone, LastInv
    <3> QED  BY <2>3, <3>1 DEF LastInv, InSession, FlashBusy
  <2>5. CASE WriteDone
    <3>1. frame.command = "DATA" /\ pc' = "session"
      BY <2>5 DEF WriteDone, LastInv
    <3> QED  BY <2>3, <3>1 DEF LastInv, InSession, FlashBusy
  <2>6. CASE OtaWriteDone
    BY <2>6 DEF OtaWriteDone, LastInv, InSession, FlashBusy
  <2> QED  BY <1>3, <2>4, <2>5, <2>6
<1>4. CASE EraseFails \/ WriteFails \/ OtaFails
  <2>1. FailsAsIs  BY <1>4, FailsIs
  <2> QED  BY <2>1 DEF FailsAsIs, LastInv, InSession, FlashBusy, update, session
<1>5. CASE OtaEraseDone
  BY <1>5 DEF OtaEraseDone, LastInv, InSession, FlashBusy, update, session
<1>6. CASE EntryTimeout \/ IdleTick
  <2>1. Idles  BY <1>6, IdlesIs
  <2> QED  BY <2>1 DEF Idles, LastInv, InSession, FlashBusy, update, session, Abandon
<1>7. CASE Start \/ Restart \/ LoadApp \/ RereadFails \/ PowerLoss
  BY <1>7 DEF Start, Restart, LoadApp, RereadFails, PowerLoss, Forget, LastInv,
    InSession, FlashBusy
<1> QED
  BY <1>1, <1>2, <1>3, <1>4, <1>5, <1>6, <1>7 DEF Next, Device

\* ------------------------------------------------------------------ the window --
\* The host waits on for the same response.
Awaits ==
  /\ UNCHANGED <<phase, job, upload, host_sequence, step>>
  /\ astray => astray'

\* While it does, what is current stays so.
LEMMA WindowKept ==
  ASSUME Awaits, Ordered(to_device'), Ordered(to_host'),
         (\E x \in Pending' : Current(x)) => \A y \in Sent' : After(y),
         (\E a \in Heard' : Current(a)) => \A x \in Outstanding' : After(x)
  PROVE  WindowInv'
<1>1. \A x : Current(x)' <=> Current(x)  BY DEF Awaits, Current
<1>2. \A x : After(x) => After(x)'  BY <1>1 DEF Awaits, After
<1>3. Ordered(to_device)' /\ Ordered(to_host)'
  BY DEF Ordered, Awaits, Current, After
<1>4. (\E x \in Pending : Current(x))' => (\A y \in Sent : After(y))'
  BY <1>1, <1>2
<1>5. (\E a \in Heard : Current(a))' => (\A x \in Outstanding : After(x))'
  BY <1>1, <1>2
<1> QED  BY <1>3, <1>4, <1>5 DEF WindowInv

\* The sets of what is in the queues follow the queues.
LEMMA SentTail ==
  ASSUME to_device \in Seq(HostFrame), to_device # <<>>
  PROVE  /\ Head(to_device) \in Sent
         /\ \A i \in 1..Len(Tail(to_device)) : Tail(to_device)[i] \in Sent
<1>1. /\ Len(to_device) \in Nat \ {0} /\ Head(to_device) = to_device[1]
      /\ \A i \in 1..Len(Tail(to_device)) :
           i + 1 \in 1..Len(to_device) /\ Tail(to_device)[i] = to_device[i + 1]
  BY TailIs
<1>2. \A i \in 1..Len(to_device) : to_device[i] \in Sent  BY DEF Sent
<1>3. 1 \in 1..Len(to_device)  BY <1>1
<1> QED  BY <1>1, <1>2, <1>3

\* A response that is added to those under way.
LEMMA HeardAppend ==
  ASSUME to_host \in Seq(Answer), NEW a, to_host' = Append(to_host, a)
  PROVE  \A b \in Heard' : b \in Heard \/ b = a
<1> SUFFICES ASSUME NEW i \in 1..Len(to_host')
             PROVE  to_host'[i] \in Heard \/ to_host'[i] = a
  BY DEF Heard
<1>1. /\ Len(to_host) \in Nat /\ Len(to_host') = Len(to_host) + 1
      /\ \A n \in 1..(Len(to_host) + 1) :
           to_host'[n] = IF n <= Len(to_host) THEN to_host[n] ELSE a
  BY AppendIs
<1> QED  BY <1>1 DEF Heard

\* A response that is taken from those under way.
LEMMA HeardTail ==
  ASSUME to_host \in Seq(Answer), to_host # <<>>, to_host' = Tail(to_host)
  PROVE  Heard' \subseteq Heard
<1> SUFFICES ASSUME NEW i \in 1..Len(to_host')
             PROVE  to_host'[i] \in Heard
  BY DEF Heard
<1>1. i + 1 \in 1..Len(to_host) /\ to_host'[i] = to_host[i + 1]  BY TailIs
<1> QED  BY <1>1 DEF Heard

\* How a response is related to its request.
Answers(a, x) == a.command = x.command /\ a.seq = x.seq

\* A request leaves the line for the device, which answers it, or takes it up.
LEMMA WindowTakes ==
  ASSUME WindowInv, Awaits, HostReady, to_device # <<>>, to_device' = Tail(to_device),
         Pending = {},
         \/ Pending' = {} /\ UNCHANGED to_host
         \/ Pending' = {Head(to_device)} /\ UNCHANGED to_host
         \/ /\ Pending' = {}
            /\ \E a : Answers(a, Head(to_device)) /\ to_host' = Append(to_host, a)
  PROVE  WindowInv'
<1> DEFINE f == Head(to_device)
<1>1. to_device \in Seq(HostFrame) /\ to_host \in Seq(Answer)  BY DEF HostReady
<1>2. /\ f \in Sent /\ Sent' \subseteq Sent /\ Ordered(to_device')
      /\ Current(f) => \A y \in Sent' : After(y)
  <2>1. /\ Len(to_device) \in Nat \ {0} /\ f = to_device[1]
        /\ \A i \in 1..Len(Tail(to_device)) :
             i + 1 \in 1..Len(to_device) /\ Tail(to_device)[i] = to_device[i + 1]
    BY <1>1, TailIs
  <2>2. ASSUME Current(f), NEW i \in 1..Len(Tail(to_device))
        PROVE  After(Tail(to_device)[i])
    <3>1. 1 \in 1..Len(to_device) /\ 1 < i + 1  BY <2>1
    <3> QED  BY <2>1, <2>2, <3>1 DEF WindowInv, Ordered
  <2>3. f \in Sent /\ Sent' \subseteq Sent  BY <1>1, SentTail DEF Sent
  <2>4. Ordered(to_device')  BY <1>1, OrderedTail DEF WindowInv
  <2>5. Current(f) => \A y \in Sent' : After(y)  BY <2>2 DEF Sent
  <2> QED  BY <2>3, <2>4, <2>5
<1> HIDE DEF f
<1>3. CASE UNCHANGED to_host /\ Pending' \subseteq {f}
  <2>1. Ordered(to_host') /\ Heard' = Heard  BY <1>3 DEF WindowInv, Heard
  <2>2. Outstanding' \subseteq Outstanding  BY <1>2, <1>3 DEF Outstanding
  <2> QED  BY <1>2, <1>3, <2>1, <2>2, WindowKept DEF WindowInv
<1>4. CASE Pending' = {} /\ \E a : Answers(a, f) /\ to_host' = Append(to_host, a)
  <2>1. PICK a : Answers(a, f) /\ to_host' = Append(to_host, a)  BY <1>4
  <2>2. (Current(a) <=> Current(f)) /\ (After(a) <=> After(f))
    BY <2>1 DEF Answers, Current, After
  <2>3. (\E b \in Heard : Current(b)) => After(a)
    BY <1>2, <2>2 DEF WindowInv, Outstanding
  <2>4. (\E i \in 1..Len(to_host) : Current(to_host[i])) => After(a)
    BY <2>3 DEF Heard
  <2>5. Ordered(to_host')
    BY <1>1, <2>1, <2>4, OrderedAppend DEF WindowInv
  <2>6. \A b \in Heard' : b \in Heard \/ b = a  BY <1>1, <2>1, HeardAppend
  <2>7. Outstanding' = Sent' /\ Outstanding = Sent  BY <1>4 DEF Outstanding
  <2>8. (\E b \in Heard' : Current(b)) => \A x \in Outstanding' : After(x)
    BY <1>2, <2>2, <2>6, <2>7 DEF WindowInv
  <2> QED  BY <1>2, <1>4, <2>5, <2>8, WindowKept
<1> QED  BY <1>3, <1>4 DEF f

\* The device answers the request whose flash operation is over.
LEMMA WindowAnswers ==
  ASSUME WindowInv, Awaits, HostReady, UNCHANGED to_device,
         Pending = {frame}, Pending' = {},
         \/ UNCHANGED to_host
         \/ \E a : Answers(a, frame) /\ to_host' = Append(to_host, a)
  PROVE  WindowInv'
<1>1. to_device \in Seq(HostFrame) /\ to_host \in Seq(Answer)  BY DEF HostReady
<1>2. Sent' = Sent /\ Outstanding' \subseteq Outstanding /\ Outstanding' = Sent
  BY DEF Sent, Outstanding
<1>3. Ordered(to_device')  BY DEF WindowInv
<1>4. CASE UNCHANGED to_host
  <2>1. Ordered(to_host') /\ Heard' = Heard  BY <1>4 DEF WindowInv, Heard
  <2> QED  BY <1>2, <1>3, <2>1, WindowKept DEF WindowInv
<1>5. CASE \E a : Answers(a, frame) /\ to_host' = Append(to_host, a)
  <2>1. PICK a : Answers(a, frame) /\ to_host' = Append(to_host, a)  BY <1>5
  <2>2. (Current(a) <=> Current(frame)) /\ (After(a) <=> After(frame))
    BY <2>1 DEF Answers, Current, After
  <2>3. (\E b \in Heard : Current(b)) => After(a)
    BY <2>2 DEF WindowInv, Outstanding
  <2>4. (\E i \in 1..Len(to_host) : Current(to_host[i])) => After(a)
    BY <2>3 DEF Heard
  <2>5. Ordered(to_host')
    BY <1>1, <2>1, <2>4, OrderedAppend DEF WindowInv
  <2>6. \A b \in Heard' : b \in Heard \/ b = a  BY <1>1, <2>1, HeardAppend
  <2>7. (\E b \in Heard' : Current(b)) => \A x \in Outstanding' : After(x)
    BY <1>2, <2>2, <2>6 DEF WindowInv
  <2> QED  BY <1>2, <1>3, <2>5, <2>7, WindowKept
<1> QED  BY <1>4, <1>5

\* What is on its way is lost, or read and skipped.
LEMMA WindowLoses ==
  ASSUME WindowInv, Awaits, HostReady,
         Pending' \subseteq Pending,
         \/ to_device' \in {to_device, <<>>}
         \/ to_device # <<>> /\ to_device' = Tail(to_device),
         \/ UNCHANGED to_host
         \/ to_host # <<>> /\ to_host' = Tail(to_host)
  PROVE  WindowInv'
<1>1. to_device \in Seq(HostFrame) /\ to_host \in Seq(Answer)  BY DEF HostReady
<1>2. Sent' \subseteq Sent /\ Ordered(to_device')
  <2>1. CASE UNCHANGED to_device  BY <2>1 DEF WindowInv, Sent
  <2>2. CASE to_device' = <<>>  BY <2>2 DEF Sent, Ordered
  <2>3. CASE to_device # <<>> /\ to_device' = Tail(to_device)
    BY <1>1, <2>3, SentTail, OrderedTail DEF WindowInv, Sent
  <2> QED  BY <2>1, <2>2, <2>3
<1>3. Heard' \subseteq Heard /\ Ordered(to_host')
  <2>1. CASE UNCHANGED to_host  BY <2>1 DEF WindowInv, Heard
  <2>2. CASE to_host # <<>> /\ to_host' = Tail(to_host)
    BY <1>1, <2>2, HeardTail, OrderedTail DEF WindowInv
  <2> QED  BY <2>1, <2>2
<1>4. Outstanding' \subseteq Outstanding  BY <1>2 DEF Outstanding
<1> QED  BY <1>2, <1>3, <1>4, WindowKept DEF WindowInv

\* A repeat follows what is on the line.
LEMMA WindowRepeats ==
  ASSUME WindowInv, Awaits, HostReady, Pending' \subseteq Pending, UNCHANGED to_host,
         NEW r, Current(r), to_device' = Append(to_device, r)
  PROVE  WindowInv'
<1>1. to_device \in Seq(HostFrame) /\ After(r)  BY DEF HostReady, After
<1>2. Ordered(to_device')  BY <1>1, OrderedAppend DEF WindowInv
<1>3. \A y \in Sent' : y \in Sent \/ y = r
  <2> SUFFICES ASSUME NEW i \in 1..Len(to_device')
               PROVE  to_device'[i] \in Sent \/ to_device'[i] = r
    BY DEF Sent
  <2>1. /\ Len(to_device) \in Nat /\ Len(to_device') = Len(to_device) + 1
        /\ \A n \in 1..(Len(to_device) + 1) :
             to_device'[n] = IF n <= Len(to_device) THEN to_device[n] ELSE r
    BY <1>1, AppendIs
  <2> QED  BY <2>1 DEF Sent
<1>4. Ordered(to_host') /\ Heard' = Heard  BY DEF WindowInv, Heard
<1>5. \A x \in Outstanding' : x \in Outstanding \/ x = r  BY <1>3 DEF Outstanding
<1> QED  BY <1>1, <1>2, <1>3, <1>4, <1>5, WindowKept DEF WindowInv

\* The HELLO in a block that has lost its header takes the place of the block.
LEMMA WindowHeader ==
  ASSUME WindowInv, BehindInv, Awaits, HostReady, UNCHANGED to_host,
         Pending' = Pending, to_device # <<>>, Head(to_device).command = "DATA",
         NEW h, h.command = "HELLO", to_device' = <<h>> \o Tail(to_device), astray'
  PROVE  WindowInv' /\ \A y \in Sent' : y \in Sent \/ y = h
<1> DEFINE f == Head(to_device)
           t == Tail(to_device)
<1>1. /\ to_device \in Seq(HostFrame) /\ t \in Seq(HostFrame) /\ f \in Sent
      /\ \A i \in 1..Len(t) : t[i] \in Sent
  BY SentTail, HeadFrame DEF HostReady
<1>2. Ordered(t)  BY <1>1, OrderedTail DEF WindowInv
<1> HIDE DEF t
<1>3. /\ Len(t) \in Nat /\ Len(to_device') = Len(t) + 1 /\ to_device'[1] = h
      /\ \A i \in 2..(Len(t) + 1) : i - 1 \in 1..Len(t) /\ to_device'[i] = t[i - 1]
  <2>1. Len(t) \in Nat  BY <1>1
  <2>2. to_device' = <<h>> \o t  BY DEF t
  <2> QED  BY <1>1, <2>1, <2>2
<1>4. phase # "HELLO"
  BY <1>1 DEF BehindInv, Outstanding, Current
<1>5. /\ \A x : Current(x)' <=> Current(x)
      /\ \A x : After(x) => After(x)'
      /\ ~Current(h)
  BY <1>4 DEF Awaits, Current, After
<1>6. Ordered(to_device)'
  <2> SUFFICES ASSUME NEW i \in 1..Len(to_device'), NEW j \in 1..Len(to_device'),
                      i < j, Current(to_device'[i])
               PROVE  After(to_device'[j])
    BY DEF Ordered, Awaits, Current, After
  <2>1. i # 1  BY <1>3, <1>5
  <2>2. /\ i - 1 \in 1..Len(t) /\ to_device'[i] = t[i - 1]
        /\ j - 1 \in 1..Len(t) /\ to_device'[j] = t[j - 1]
    BY <1>3, <2>1
  <2> QED  BY <1>2, <2>2 DEF Ordered
<1>7. Ordered(to_host)'
  BY DEF WindowInv, Ordered, Awaits, Current, After
<1>8. \A y \in Sent' : y \in Sent \/ y = h
  <2> SUFFICES ASSUME NEW i \in 1..Len(to_device')
               PROVE  to_device'[i] \in Sent \/ to_device'[i] = h
    BY DEF Sent
  <2> QED  BY <1>1, <1>3
<1>9. After(f) => (After(h))'
  BY DEF After, Current, Awaits
<1>10. (\E x \in Pending : Current(x))' => (\A y \in Sent : After(y))'
  BY <1>1, <1>5, <1>8, <1>9 DEF WindowInv
<1>11. (\E a \in Heard : Current(a))' => (\A x \in Outstanding : After(x))'
  <2>1. Heard' = Heard  BY DEF Heard
  <2>2. \A x \in Outstanding' : x \in Outstanding \/ x = h  BY <1>8 DEF Outstanding
  <2>3. f \in Outstanding  BY <1>1 DEF Outstanding
  <2> QED  BY <1>5, <1>9, <2>1, <2>2, <2>3 DEF WindowInv
<1> QED  BY <1>6, <1>7, <1>8, <1>10, <1>11 DEF WindowInv

\* --------------------------------------------------- what a step does to both --
\* The sequence of the device is left alone, or goes past a request.
Quiet ==
  /\ UNCHANGED expected_sequence
  /\ update_active' => update_active
  /\ InSession' => InSession

Moves(x) ==
  /\ expected_sequence' = (x.seq + 1) % SeqMod
  /\ update_active' => x.command \in {"INFO", "BEGIN", "DATA"}

DeviceGoes == ~InSession' \/ Quiet \/ \E x \in Outstanding : Moves(x)

\* A response that is new answers a request; one that says OK, one that the device
\* has gone past.
Fresh(a) ==
  \E x \in Outstanding :
    /\ Answers(a, x)
    /\ a.payload.status = "OK" =>
         /\ InSession' => expected_sequence' = (x.seq + 1) % SeqMod
         /\ update_active' => x.command \in {"INFO", "BEGIN", "DATA"}
         /\ x.command = "END" => OtaWriteDone /\ x = frame

HostHears == \A a \in Heard' : a \in Heard \/ Fresh(a)

\* What is on its way to the device was there before, is a HELLO out of a block, or
\* a repeat.
Joins(y) ==
  \/ y \in Outstanding
  \/ y.command = "HELLO" /\ astray' /\ \E z \in Outstanding : z.command = "DATA"
  \/ phase \in Commands /\ y = Host!Request(phase, host_sequence, host_offset)

Rests ==
  Awaits /\ WindowInv' /\ DeviceGoes /\ HostHears /\ \A y \in Outstanding' : Joins(y)

\* Where no flash operation waits, or the one that does is on, nothing is pending.
LEMMA NotPending == pc \notin {"erase", "write", "otaErase", "otaWrite"} => Pending = {}
BY DEF Pending, FlashBusy

\* The same of the next state.
LEMMA NotPendingNext ==
  pc' \notin {"erase", "write", "otaErase", "otaWrite"} => Pending' = {}
BY DEF Pending, FlashBusy

\* A response that is sent.
LEMMA SendsIs ==
  ASSUME to_host \in Seq(Answer), NEW f, NEW p, NEW r, Sends(f, p, r)
  PROVE  \/ to_host' = to_host
         \/ /\ r # NoReply
            /\ \E a : /\ Answers(a, f) /\ a.payload = r /\ to_host' = Append(to_host, a)
                      /\ \A b \in Heard' : b \in Heard \/ b = a
<1> DEFINE a == [command |-> f.command, seq |-> f.seq, payload |-> r, peer |-> p]
<1>1. to_host' = to_host \/ (r # NoReply /\ to_host' = Append(to_host, a))  BY DEF Sends
<1>2. Answers(a, f) /\ a.payload = r  BY DEF Answers
<1> HIDE DEF a
<1>3. to_host' = Append(to_host, a) => \A b \in Heard' : b \in Heard \/ b = a
  BY HeardAppend
<1> QED  BY <1>1, <1>2, <1>3

\* The bootloader takes a request off the line.
LEMMA BootloaderReceivesRests ==
  ASSUME AnyFrames, UInv, WindowInv, LastInv, BootloaderReceives
  PROVE  Rests
<1> DEFINE f == Head(to_device)
<1>1. /\ to_device # <<>> /\ to_device' = Tail(to_device)
      /\ EntryFrame(f) \/ SessionFrame(f)
      /\ Sends(f, "bootloader", reply')
      /\ Awaits
  BY DEF BootloaderReceives, client, budget, Awaits
<1>2. /\ HostReady /\ to_device \in Seq(HostFrame) /\ to_host \in Seq(Answer) /\ IInv
      /\ f \in HostFrame /\ f \in Frame /\ f \in Sent
  BY <1>1, HeadFrame, SentTail DEF UInv, HostReady, HostFrame
<1>3. Refuses(f) \/ Accepts(f) \/ Starts(f) \/ Ignores
  BY <1>1, <1>2, Taken
<1> HIDE DEF f
<1>4. \/ to_host' = to_host
      \/ /\ reply' # NoReply
         /\ \E a : /\ Answers(a, f) /\ a.payload = reply' /\ to_host' = Append(to_host, a)
                   /\ \A b \in Heard' : b \in Heard \/ b = a
  BY <1>1, <1>2, SendsIs
<1>5. Pending = {} /\ Outstanding = Sent
  <2>1. pc \in {"entry", "session"}  BY <1>3 DEF Refuses, Accepts, Starts, Ignores
  <2> QED  BY <2>1, NotPending DEF Outstanding
<1>6. Sent' \subseteq Sent  BY <1>1, <1>2, SentTail DEF Sent
<1>7. CASE Starts(f)
  <2>1. to_host' = to_host  BY <1>4, <1>7 DEF Starts
  <2>2. Pending' = {f}  BY <1>7 DEF Starts, Pending, FlashBusy
  <2>3. WindowInv'
    BY <1>1, <1>2, <1>5, <2>1, <2>2, WindowTakes DEF f
  <2>4. Quiet
    BY <1>7 DEF Quiet, Starts, InSession, update, session, Abandon
  <2>5. HostHears  BY <2>1 DEF HostHears, Heard
  <2>6. Outstanding' \subseteq Outstanding
    BY <1>2, <1>5, <1>6, <2>2 DEF Outstanding
  <2> QED  BY <1>1, <2>3, <2>4, <2>5, <2>6 DEF Rests, DeviceGoes, Joins
<1>8. CASE Refuses(f) \/ Accepts(f) \/ Ignores
  <2>1. Pending' = {}
    BY <1>8, NotPendingNext DEF Refuses, Accepts, Ignores
  <2>2. WindowInv'
    BY <1>1, <1>2, <1>4, <1>5, <2>1, WindowTakes DEF f
  <2>3. Outstanding' \subseteq Outstanding
    BY <1>5, <1>6, <2>1 DEF Outstanding
  <2>4. DeviceGoes /\ (reply'.status = "OK" /\ reply' # NoReply =>
          /\ InSession' => expected_sequence' = (f.seq + 1) % SeqMod
          /\ update_active' => f.command \in {"INFO", "BEGIN", "DATA"}
          /\ f.command # "END")
    <3>1. CASE Refuses(f)
      <4>1. Quiet
        BY <3>1 DEF Quiet, Refuses, InSession, update, session, FlashBusy
      <4>2. reply'.status = "OK" =>
              /\ expected_sequence' = (f.seq + 1) % SeqMod
              /\ update_active' => f.command \in {"INFO", "BEGIN", "DATA"}
              /\ f.command # "END"
        <5> SUFFICES ASSUME reply'.status = "OK"
                     PROVE  /\ expected_sequence' = (f.seq + 1) % SeqMod
                            /\ update_active' => f.command \in {"INFO", "BEGIN", "DATA"}
                            /\ f.command # "END"
          OBVIOUS
        <5>1. /\ last # NoRequest /\ last.request = Key(f) /\ InSession
              /\ UNCHANGED <<update_active, expected_sequence>>
          BY <3>1 DEF Refuses, InSession, update, session
        <5>2. last.request.seq = f.seq /\ last.request.command = f.command
          BY <1>2, <5>1, KeyKeeps
        <5> QED  BY <5>1, <5>2 DEF LastInv
      <4> QED  BY <4>1, <4>2 DEF DeviceGoes
    <3>2. CASE Accepts(f)
      <4>1. Moves(f) /\ f.command # "END"
        BY <3>2 DEF Moves, Accepts, Accept, Abandon
      <4> QED  BY <1>2, <1>5, <4>1 DEF DeviceGoes, Moves
    <3>3. CASE Ignores
      BY <3>3 DEF Ignores, DeviceGoes, InSession, FlashBusy
    <3> QED  BY <1>8, <3>1, <3>2, <3>3
  <2>5. HostHears
    <3>1. CASE to_host' = to_host  BY <3>1 DEF HostHears, Heard
    <3>2. CASE /\ reply' # NoReply
               /\ \E a : /\ Answers(a, f) /\ a.payload = reply'
                         /\ to_host' = Append(to_host, a)
                         /\ \A b \in Heard' : b \in Heard \/ b = a
      <4>1. PICK a : /\ Answers(a, f) /\ a.payload = reply'
                     /\ \A b \in Heard' : b \in Heard \/ b = a
        BY <3>2
      <4>2. Fresh(a)  BY <1>2, <1>5, <2>4, <3>2, <4>1 DEF Fresh
      <4> QED  BY <4>1, <4>2 DEF HostHears
    <3> QED  BY <1>4, <3>1, <3>2
  <2> QED  BY <1>1, <2>2, <2>3, <2>4, <2>5 DEF Rests, Joins
<1> QED  BY <1>3, <1>7, <1>8

\* The application's service takes one.
LEMMA ApplicationReceivesRests ==
  ASSUME UInv, WindowInv, ApplicationReceives
  PROVE  Rests
<1> DEFINE f == Head(to_device)
<1>1. /\ pc = "app" /\ to_device # <<>> /\ to_device' = Tail(to_device)
      /\ \E r : Sends(f, "application", r) /\ (r.status = "OK" => f.command = "HELLO")
      /\ Awaits /\ UNCHANGED <<pc, update_active>>
  <2>1. Response("ERR_STATE", 0, 0).status # "OK"  BY DEF Response
  <2> QED
    BY <2>1 DEF ApplicationReceives, client, budget, Awaits, device, vars, update
<1>2. /\ HostReady /\ to_device \in Seq(HostFrame) /\ to_host \in Seq(Answer) /\ IInv
      /\ f \in Sent /\ Sent' \subseteq Sent
  BY <1>1, SentTail DEF UInv, HostReady, Sent
<1> HIDE DEF f
<1>3. PICK r : Sends(f, "application", r) /\ (r.status = "OK" => f.command = "HELLO")
  BY <1>1
<1>4. \/ to_host' = to_host
      \/ \E a : /\ Answers(a, f) /\ a.payload = r /\ to_host' = Append(to_host, a)
                /\ \A b \in Heard' : b \in Heard \/ b = a
  BY <1>2, <1>3, SendsIs
<1>5. /\ Pending = {} /\ Pending' = {} /\ ~InSession' /\ ~update_active'
      /\ Outstanding = Sent /\ Outstanding' = Sent'
  BY <1>1, <1>2 DEF Pending, InSession, FlashBusy, IInv, UpdateInv, Outstanding
<1>6. WindowInv'  BY <1>1, <1>2, <1>4, <1>5, WindowTakes DEF f
<1>7. HostHears
  <2>1. CASE to_host' = to_host  BY <2>1 DEF HostHears, Heard
  <2>2. ASSUME NEW a, Answers(a, f), a.payload = r,
               \A b \in Heard' : b \in Heard \/ b = a
        PROVE  HostHears
    <3>1. Fresh(a)  BY <1>2, <1>3, <1>5, <2>2 DEF Fresh
    <3> QED  BY <2>2, <3>1 DEF HostHears
  <2> QED  BY <1>4, <2>1, <2>2
<1> QED  BY <1>1, <1>2, <1>5, <1>6, <1>7 DEF Rests, DeviceGoes, Joins

\* The bootloader goes on by itself: a flash operation ends, or an application is
\* started.
LEMMA BootloaderWorksRests ==
  ASSUME AnyFrames, UInv, WindowInv, LastInv, BootloaderWorks
  PROVE  Rests
<1>1. /\ Awaits /\ UNCHANGED to_device /\ Sends(frame, "bootloader", reply')
      /\ HostReady /\ to_host \in Seq(Answer) /\ IInv
  BY DEF BootloaderWorks, client, budget, Awaits, UInv, HostReady
<1>2. \/ to_host' = to_host
      \/ /\ reply' # NoReply
         /\ \E a : /\ Answers(a, frame) /\ a.payload = reply'
                   /\ to_host' = Append(to_host, a)
                   /\ \A b \in Heard' : b \in Heard \/ b = a
  BY <1>1, SendsIs
<1>3. Sent' = Sent  BY <1>1 DEF Sent
<1>4. CASE Start \/ LoadApp \/ OtaEraseDone
  <2>1. reply' = NoReply  BY <1>4 DEF Start, LoadApp, OtaEraseDone, Forget
  <2>2. to_host' = to_host  BY <1>2, <2>1
  <2>3. Pending' = Pending
    BY <1>4 DEF Start, LoadApp, OtaEraseDone, Pending, FlashBusy
  <2>4. DeviceGoes
    BY <1>4 DEF Start, LoadApp, OtaEraseDone, DeviceGoes, Quiet, InSession, FlashBusy,
      update, session
  <2>5. WindowInv'  BY <1>1, <2>2, <2>3, WindowLoses
  <2> QED
    BY <1>1, <1>3, <2>2, <2>3, <2>4, <2>5 DEF Rests, HostHears, Heard, Joins, Outstanding
<1>5. CASE EraseDone \/ WriteDone \/ OtaWriteDone \/ FailsAsIs
  <2>1. FlashBusy /\ Pending = {frame} /\ frame \in Outstanding
    BY <1>5 DEF EraseDone, WriteDone, OtaWriteDone, FailsAsIs, FlashBusy, Pending,
      Outstanding
  <2>2. Pending' = {}
    BY <1>5, NotPendingNext DEF EraseDone, WriteDone, OtaWriteDone, FailsAsIs
  <2>3. WindowInv'  BY <1>1, <1>2, <2>1, <2>2, WindowAnswers
  <2>4. Outstanding' \subseteq Outstanding  BY <1>3, <2>2 DEF Outstanding
  <2>5. DeviceGoes /\ (reply'.status = "OK" =>
          /\ expected_sequence' = (frame.seq + 1) % SeqMod
          /\ update_active' => frame.command \in {"INFO", "BEGIN", "DATA"}
          /\ frame.command = "END" => OtaWriteDone)
    <3>1. CASE EraseDone
      <4>1. frame.command = "BEGIN"  BY <3>1 DEF EraseDone, LastInv
      <4>2. Moves(frame)  BY <3>1, <4>1 DEF EraseDone, Accept, Moves
      <4> QED  BY <2>1, <4>1, <4>2 DEF DeviceGoes, Moves
    <3>2. CASE WriteDone
      <4>1. frame.command = "DATA"  BY <3>2 DEF WriteDone, LastInv
      <4>2. Moves(frame)  BY <3>2, <4>1 DEF WriteDone, Accept, Moves
      <4> QED  BY <2>1, <4>1, <4>2 DEF DeviceGoes, Moves
    <3>3. CASE OtaWriteDone
      <4>1. Moves(frame)  BY <3>3 DEF OtaWriteDone, Accept, Moves
      <4> QED  BY <2>1, <3>3, <4>1 DEF DeviceGoes, Moves
    <3>4. CASE FailsAsIs
      BY <3>4 DEF FailsAsIs, DeviceGoes, Quiet, InSession, update, session
    <3> QED  BY <1>5, <3>1, <3>2, <3>3, <3>4
  <2>6. HostHears
    <3>1. CASE to_host' = to_host  BY <3>1 DEF HostHears, Heard
    <3>2. ASSUME NEW a, Answers(a, frame), a.payload = reply',
                 \A b \in Heard' : b \in Heard \/ b = a
          PROVE  HostHears
      <4>1. Fresh(a)  BY <2>1, <2>5, <3>2 DEF Fresh
      <4> QED  BY <3>2, <4>1 DEF HostHears
    <3> QED  BY <1>2, <3>1, <3>2
  <2> QED  BY <1>1, <2>3, <2>4, <2>5, <2>6 DEF Rests, Joins
<1> QED  BY <1>4, <1>5, FailsIs DEF BootloaderWorks

\* A reset leaves nothing pending.
LEMMA ResetsRests ==
  ASSUME UInv, WindowInv, Resets
  PROVE  Rests
<1>1. /\ Awaits /\ to_device' \in {<<>>, to_device} /\ UNCHANGED to_host /\ HostReady
      /\ pc' = "start"
  BY DEF Resets, client, budget, Awaits, UInv, Restart, RereadFails, PowerLoss
<1>2. Pending' = {} /\ ~InSession'
  BY <1>1 DEF Pending, InSession, FlashBusy
<1>3. WindowInv'  BY <1>1, <1>2, WindowLoses
<1>4. Sent' \subseteq Sent  BY <1>1 DEF Sent
<1> QED
  BY <1>1, <1>2, <1>3, <1>4 DEF Rests, DeviceGoes, HostHears, Heard, Joins, Outstanding

\* A device that is left alone, or whose clock runs out.
LEMMA IdlesGoes ==
  ASSUME Idles
  PROVE  DeviceGoes /\ Pending' = Pending
BY DEF Idles, DeviceGoes, Quiet, InSession, FlashBusy, Pending, update, session, Abandon

\* The line loses a frame.
LEMMA LoseRests ==
  ASSUME UInv, WindowInv, BehindInv, Lose \/ LoseHeader
  PROVE  Rests
<1>1. HostReady /\ UNCHANGED <<device, client>>
  BY DEF Lose, LoseHeader, UInv, client
<1>2. DeviceGoes /\ Pending' = Pending  BY <1>1, IdlesIs, IdlesGoes
<1>3. CASE Lose
  <2>1. Awaits  BY <1>3 DEF Lose, Awaits, client
  <2>2. /\ UNCHANGED to_device \/ (to_device # <<>> /\ to_device' = Tail(to_device))
        /\ UNCHANGED to_host \/ (to_host # <<>> /\ to_host' = Tail(to_host))
    BY <1>3 DEF Lose
  <2>3. WindowInv'  BY <1>1, <1>2, <2>1, <2>2, WindowLoses
  <2>4. Sent' \subseteq Sent  BY <1>1, <2>2, SentTail DEF Sent, HostReady
  <2>5. Heard' \subseteq Heard  BY <1>1, <2>2, HeardTail DEF Heard, HostReady
  <2> QED  BY <1>2, <2>1, <2>3, <2>4, <2>5 DEF Rests, HostHears, Joins, Outstanding
<1>4. CASE LoseHeader
  <2> DEFINE h == Host!Request("HELLO", 0, 0)
  <2>1. /\ Awaits /\ astray' /\ UNCHANGED to_host /\ to_device # <<>>
        /\ Head(to_device).command = "DATA" /\ to_device' = <<h>> \o Tail(to_device)
    BY <1>4 DEF LoseHeader, Awaits, client
  <2>2. h.command = "HELLO"  BY DEF Host!Request
  <2>3. Head(to_device) \in Outstanding
    BY <1>1, <2>1, SentTail DEF HostReady, Outstanding
  <2> HIDE DEF h
  <2>4. WindowInv' /\ \A y \in Sent' : y \in Sent \/ y = h
    BY <1>1, <1>2, <2>1, <2>2, WindowHeader
  <2>5. \A y \in Outstanding' : Joins(y)
    BY <1>2, <2>1, <2>2, <2>3, <2>4 DEF Outstanding, Joins
  <2> QED  BY <1>2, <2>1, <2>4, <2>5 DEF Rests, HostHears, Heard
<1> QED  BY <1>3, <1>4

\* The host skips a response, or waits, while the device does nothing of note.
LEMMA SkipRests ==
  ASSUME UInv, WindowInv, Awaits, Idles, UNCHANGED to_device,
         UNCHANGED to_host \/ (to_host # <<>> /\ to_host' = Tail(to_host))
  PROVE  Rests
<1>1. HostReady /\ to_host \in Seq(Answer)  BY DEF UInv, HostReady
<1>2. DeviceGoes /\ Pending' = Pending  BY IdlesGoes
<1>3. WindowInv'  BY <1>1, <1>2, WindowLoses
<1>4. Heard' \subseteq Heard  BY <1>1, HeardTail DEF Heard
<1> QED  BY <1>2, <1>3, <1>4 DEF Rests, HostHears, Joins, Outstanding, Sent

\* The host says it again.
LEMMA RepeatRests ==
  ASSUME UInv, WindowInv, Awaits, Idles, phase \in Commands, UNCHANGED to_host,
         to_device' = Append(to_device, Host!Request(phase, host_sequence, host_offset))
  PROVE  Rests
<1> DEFINE r == Host!Request(phase, host_sequence, host_offset)
<1>1. HostReady /\ to_device \in Seq(HostFrame)  BY DEF UInv, HostReady
<1>2. DeviceGoes /\ Pending' = Pending  BY IdlesGoes
<1>3. Current(r)  BY DEF Current, Host!Request
<1> HIDE DEF r
<1>4. WindowInv'  BY <1>1, <1>2, <1>3, WindowRepeats DEF r
<1>5. \A y \in Sent' : y \in Sent \/ y = r
  <2> SUFFICES ASSUME NEW i \in 1..Len(to_device')
               PROVE  to_device'[i] \in Sent \/ to_device'[i] = r
    BY DEF Sent
  <2>1. /\ Len(to_device) \in Nat /\ Len(to_device') = Len(to_device) + 1
        /\ \A n \in 1..(Len(to_device) + 1) :
             to_device'[n] = IF n <= Len(to_device) THEN to_device[n] ELSE r
    BY <1>1, AppendIs DEF r
  <2> QED  BY <2>1 DEF Sent
<1>6. \A y \in Outstanding' : Joins(y)  BY <1>2, <1>5 DEF Joins, Outstanding, r
<1> QED  BY <1>2, <1>4, <1>6 DEF Rests, HostHears, Heard

\* --------------------------------------------------------------- the scenarios --
\* Counting on from a number that has wrapped round.
LEMMA NextNumber ==
  ASSUME NEW n \in Nat
  PROVE  /\ n % SeqMod \in 0..(SeqMod - 1)
         /\ ((n % SeqMod) + 1) % SeqMod = (n + 1) % SeqMod
<1>1. SeqMod \in Nat /\ SeqMod > 1  BY IapAssumption
<1>2. n % SeqMod \in 0..(SeqMod - 1) /\ n = SeqMod * (n \div SeqMod) + (n % SeqMod)
  BY <1>1
<1>3. n \div SeqMod \in Nat  BY <1>1
<1> DEFINE r == n % SeqMod
           k == n \div SeqMod
<1>4. r \in 0..(SeqMod - 1) /\ k \in Nat /\ n = SeqMod * k + r  BY <1>2, <1>3
<1> HIDE DEF r, k
<1>5. (SeqMod * k + (r + 1)) % SeqMod = (r + 1) % SeqMod
  BY <1>1, <1>4
<1>6. n + 1 = SeqMod * k + (r + 1)
  <2>1. SeqMod * k \in Nat  BY <1>1, <1>4
  <2> QED  BY <1>4, <2>1
<1>7. (n + 1) % SeqMod = (r + 1) % SeqMod  BY <1>5, <1>6
<1> QED  BY <1>2, <1>7 DEF r

\* A part of a scenario, from its first instruction to its last.
Chain(s, first, last_one) ==
  /\ s \in Seq(Instruction) /\ s # <<>> /\ Linked(s)
  /\ s[1] = first /\ s[Len(s)] = last_one

\* Parts that fit make a whole.
LEMMA ChainConcat ==
  ASSUME NEW s, NEW t, NEW a, NEW b, NEW c, NEW d,
         Chain(s, a, b), Chain(t, c, d), Follows(b, c)
  PROVE  Chain(s \o t, a, d)
<1>1. /\ s \in Seq(Instruction) /\ Len(s) \in Nat \ {0}
      /\ t \in Seq(Instruction) /\ Len(t) \in Nat \ {0}
  BY EmptySeq DEF Chain
<1> DEFINE u == s \o t
<1>2. /\ u \in Seq(Instruction) /\ Len(u) = Len(s) + Len(t)
      /\ \A i \in 1..(Len(s) + Len(t)) : u[i] = IF i <= Len(s) THEN s[i] ELSE t[i - Len(s)]
  BY <1>1, ConcatProperties
<1> HIDE DEF u
<1>3. u[1] = a  BY <1>1, <1>2 DEF Chain
<1>4. u[Len(u)] = d
  <2> DEFINE n == Len(u)
  <2>1. n \in 1..(Len(s) + Len(t)) /\ ~(n <= Len(s)) /\ n - Len(s) = Len(t)
    BY <1>1, <1>2
  <2> HIDE DEF n
  <2>2. u[n] = t[Len(t)]  BY <1>2, <2>1
  <2> QED  BY <2>2 DEF n, Chain
<1>5. Linked(u)
  <2> SUFFICES ASSUME NEW k \in 1..(Len(u) - 1)
               PROVE  Follows(u[k], u[k + 1])
    BY DEF Linked
  <2>1. k \in Nat /\ k \in 1..(Len(s) + Len(t)) /\ k + 1 \in 1..(Len(s) + Len(t))
    BY <1>1, <1>2
  <2>2. CASE k < Len(s)
    <3>1. u[k] = s[k] /\ u[k + 1] = s[k + 1] /\ k \in 1..(Len(s) - 1)
      BY <1>1, <1>2, <2>1, <2>2
    <3> QED  BY <3>1 DEF Chain, Linked
  <2>3. CASE k = Len(s)
    <3>1. u[k] = s[Len(s)] /\ u[k + 1] = t[1]
      <4>1. u[k] = s[Len(s)]  BY <1>2, <2>1, <2>3
      <4>2. ~(k + 1 <= Len(s)) /\ k + 1 - Len(s) = 1  BY <1>1, <2>3
      <4> QED  BY <1>2, <2>1, <4>1, <4>2
    <3> QED  BY <3>1 DEF Chain
  <2>4. CASE k > Len(s)
    <3> DEFINE j == k - Len(s)
    <3>1. /\ ~(k <= Len(s)) /\ ~(k + 1 <= Len(s)) /\ j \in 1..(Len(t) - 1)
          /\ (k + 1) - Len(s) = j + 1
      BY <1>1, <1>2, <2>1, <2>4
    <3>2. u[k] = t[j] /\ u[k + 1] = t[j + 1]  BY <1>2, <2>1, <3>1
    <3> QED  BY <3>1, <3>2 DEF Chain, Linked
  <2> QED  BY <1>1, <2>1, <2>2, <2>3, <2>4
<1>6. u # <<>>  BY <1>1, <1>2
<1> QED  BY <1>2, <1>3, <1>4, <1>5, <1>6 DEF Chain, u

\* A single instruction is a part.
LEMMA ChainOne ==
  ASSUME NEW a \in Instruction
  PROVE  Chain(<<a>>, a, a)
<1>1. <<a>> \in Seq(Instruction) /\ Len(<<a>>) = 1 /\ <<a>>[1] = a /\ <<a>> # <<>>
  OBVIOUS
<1> QED  BY <1>1 DEF Chain, Linked

\* So are two.
LEMMA ChainTwo ==
  ASSUME NEW a \in Instruction, NEW b \in Instruction, Follows(a, b)
  PROVE  Chain(<<a, b>>, a, b)
<1>1. /\ <<a, b>> \in Seq(Instruction) /\ Len(<<a, b>>) = 2
      /\ <<a, b>>[1] = a /\ <<a, b>>[2] = b /\ <<a, b>> # <<>>
  OBVIOUS
<1>2. Linked(<<a, b>>)
  <2> SUFFICES ASSUME NEW k \in 1..(Len(<<a, b>>) - 1)
               PROVE  Follows(<<a, b>>[k], <<a, b>>[k + 1])
    BY DEF Linked
  <2>1. k = 1  BY <1>1
  <2> QED  BY <1>1, <2>1
<1> QED  BY <1>1, <1>2 DEF Chain

\* So are three.
LEMMA ChainThree ==
  ASSUME NEW a \in Instruction, NEW b \in Instruction, NEW c \in Instruction,
         Follows(a, b), Follows(b, c)
  PROVE  Chain(<<a, b, c>>, a, c)
<1> DEFINE s == <<a, b, c>>
<1>1. /\ s \in Seq(Instruction) /\ Len(s) = 3 /\ s # <<>>
      /\ s[1] = a /\ s[2] = b /\ s[3] = c
  OBVIOUS
<1> HIDE DEF s
<1>2. Linked(s)
  <2> SUFFICES ASSUME NEW k \in 1..(Len(s) - 1)
               PROVE  Follows(s[k], s[k + 1])
    BY DEF Linked
  <2>1. k = 1 \/ k = 2  BY <1>1
  <2> QED  BY <1>1, <2>1
<1> QED  BY <1>1, <1>2 DEF Chain, s

\* The next number after an answer OK.
LEMMA FollowsOn ==
  ASSUME NEW i, NEW m, NEW n \in Nat, i.command \in Commands,
         m.command \in Commands \ {"HELLO"},
         i.seq = n % SeqMod, m.seq = (n + 1) % SeqMod, i.status = "OK"
  PROVE  Follows(i, m)
BY NextNumber DEF Follows, Commands

\* The same number for another request after one that was refused.
LEMMA FollowsAgain ==
  ASSUME NEW i, NEW m, i.command \in Commands \ {"HELLO"},
         m.command \in Commands \ {"HELLO"}, m.seq = i.seq
  PROVE  Follows(i, m)
BY DEF Follows, Commands

\* A scenario begins with HELLO and INFO.
LEMMA ConnectChain ==
  Chain(Host!Connect, Host!Call("HELLO", 0, 0, Host!Offsets, {"bootloader"}),
        Host!Call("INFO", 1, 0, Host!Offsets, Host!Peers))
<1> DEFINE a == Host!Call("HELLO", 0, 0, Host!Offsets, {"bootloader"})
           b == Host!Call("INFO", 1, 0, Host!Offsets, Host!Peers)
<1>1. a \in Instruction /\ b \in Instruction
  BY CallType, IapAssumption DEF Commands, Host!Offsets, Host!Peers
<1>2. Follows(a, b)
  <2>1. /\ a.command = "HELLO" /\ a.status = "OK" /\ a.seq = 0 % SeqMod
        /\ b.command = "INFO" /\ b.seq = (0 + 1) % SeqMod
    BY DEF Host!Call
  <2> HIDE DEF a, b
  <2> QED  BY <2>1, FollowsOn DEF Commands
<1>3. Host!Connect = <<a, b>>  BY DEF Host!Connect
<1> HIDE DEF a, b
<1>4. Chain(Host!Connect, a, b)  BY <1>1, <1>2, <1>3, ChainTwo
<1> QED  BY <1>4 DEF a, b

\* The end of a scenario is a rest and a HELLO.
LEMMA VerifyChain ==
  Chain(Host!Verify, Host!Rest("settle"),
        Host!Call("HELLO", 0, 0, Host!Offsets, {"application"}))
<1> DEFINE a == Host!Rest("settle")
           b == Host!Call("HELLO", 0, 0, Host!Offsets, {"application"})
<1>1. a \in Instruction  BY DEF Host!Rest, Instruction
<1>2. b \in Instruction
  BY CallType, IapAssumption DEF Commands, Host!Offsets
<1>3. Follows(a, b)
  BY IapAssumption DEF Follows, Commands, Host!Call, Host!Rest
<1>4. Host!Verify = <<a, b>>  BY DEF Host!Verify
<1> HIDE DEF a, b
<1>5. Chain(Host!Verify, a, b)  BY <1>1, <1>2, <1>3, <1>4, ChainTwo
<1> QED  BY <1>5 DEF a, b

\* The blocks of a scenario.
LEMMA BlocksChain ==
  ASSUME UploadType, NEW n \in Nat \ {0}, NEW s \in Nat
  PROVE  \E a, b :
           /\ Chain(Host!SendBlocks(n, s), a, b)
           /\ a.command = "DATA" /\ a.seq = s % SeqMod
           /\ b.command = "DATA" /\ b.seq = (s + n - 1) % SeqMod /\ b.status = "OK"
<1> DEFINE q == Host!SendBlocks(n, s)
<1>1. q \in Seq(Instruction) /\ Len(q) = n
  <2>1. Len(q) = n  BY DEF Host!SendBlocks
  <2> HIDE DEF q
  <2>2. q \in Seq(Instruction)  BY SendBlocksType DEF q
  <2> QED  BY <2>1, <2>2
<1>2. ASSUME NEW i \in 1..n
      PROVE  q[i].command = "DATA" /\ q[i].seq = (s + i - 1) % SeqMod /\ q[i].status = "OK"
  BY DEF Host!SendBlocks, Host!Try
<1> HIDE DEF q
<1>3. q # <<>>  BY <1>1
<1>4. Linked(q)
  <2> SUFFICES ASSUME NEW k \in 1..(Len(q) - 1)
               PROVE  Follows(q[k], q[k + 1])
    BY DEF Linked
  <2>1. k \in 1..n /\ k + 1 \in 1..n /\ s + k - 1 \in Nat
        /\ s + (k + 1) - 1 = (s + k - 1) + 1
    BY <1>1
  <2>2. /\ q[k].command = "DATA" /\ q[k].status = "OK"
        /\ q[k].seq = (s + k - 1) % SeqMod
        /\ q[k + 1].command = "DATA" /\ q[k + 1].seq = ((s + k - 1) + 1) % SeqMod
    BY <1>2, <2>1
  <2> QED  BY <2>1, <2>2, FollowsOn DEF Commands
<1>5. 1 \in 1..n /\ n \in 1..n /\ s + 1 - 1 = s  OBVIOUS
<1>6. Chain(q, q[1], q[n])  BY <1>1, <1>3, <1>4 DEF Chain
<1> QED  BY <1>2, <1>5, <1>6 DEF q

\* The instructions of protocol-errors.
LEMMA ErrorsIs ==
  LET s == Host!ProtocolErrors IN
  /\ Len(s) = 12
  /\ s[1] = Host!Call("HELLO", 0, 0, Host!Offsets, {"bootloader"})
  /\ s[2] = Host!Call("INFO", 1, 0, Host!Offsets, Host!Peers)
  /\ s[3] = Host!Try("BEGIN", 2, 0, "OK", 0)
  /\ s[4] = Host!Try("DATA", 3, BlockLength, "ERR_OFFSET", 0)
  /\ s[5] = Host!Try("DATA", 3, 0, "OK", BlockLength)
  /\ s[6] = Host!Try("DATA", 3, 0, "OK", BlockLength)
  /\ s[7] = Host!Try("END", 4, 0, "ERR_LENGTH", BlockLength)
  /\ s[8] = Host!Try("ABORT", 4, 0, "OK", 0)
  /\ s[9] = Host!Try("DATA", 5, 0, "ERR_STATE", 0)
  /\ s[10] = Host!Try("BOOT", 5, 0, "OK", 0)
  /\ s[11] = Host!Rest("settle")
  /\ s[12] = Host!Call("HELLO", 0, 0, Host!Offsets, {"application"})
<1>1. ASSUME NEW a1, NEW a2, NEW a3, NEW a4, NEW a5, NEW a6, NEW a7, NEW a8, NEW a9,
             NEW a10, NEW a11, NEW a12
      PROVE  LET s == <<a1, a2>> \o <<a3, a4, a5, a6, a7, a8, a9, a10>> \o <<a11, a12>> IN
             /\ Len(s) = 12
             /\ s[1] = a1 /\ s[2] = a2 /\ s[3] = a3 /\ s[4] = a4 /\ s[5] = a5 /\ s[6] = a6
             /\ s[7] = a7 /\ s[8] = a8 /\ s[9] = a9 /\ s[10] = a10 /\ s[11] = a11
             /\ s[12] = a12
  OBVIOUS
<1> QED  BY <1>1 DEF Host!ProtocolErrors, Host!Connect, Host!Verify

\* protocol-errors goes on as its answers have it.
LEMMA ErrorsLinked == Linked(Host!ProtocolErrors)
<1> DEFINE s == Host!ProtocolErrors
<1> SUFFICES ASSUME NEW k \in 1..(Len(s) - 1)
             PROVE  Follows(s[k], s[k + 1])
  BY DEF Linked
<1>1. k \in 1..11  BY ErrorsIs
<1>2. /\ Follows(s[1], s[2]) /\ Follows(s[2], s[3]) /\ Follows(s[3], s[4])
      /\ Follows(s[6], s[7]) /\ Follows(s[8], s[9])
  BY ErrorsIs, FollowsOn DEF Host!Call, Host!Try, Commands
<1>3. /\ Follows(s[4], s[5]) /\ Follows(s[5], s[6]) /\ Follows(s[7], s[8])
      /\ Follows(s[9], s[10])
  BY ErrorsIs, FollowsAgain DEF Host!Try, Commands
<1>4. /\ Follows(s[10], s[11]) /\ Follows(s[11], s[12])
  BY ErrorsIs, IapAssumption DEF Host!Try, Host!Rest, Host!Call, Follows, Commands
<1> HIDE DEF s
<1> QED  BY <1>1, <1>2, <1>3, <1>4

\* So does bad-hash, whose image is not empty.
LEMMA HashLinked ==
  ASSUME UploadType, Len(upload.content) > 0
  PROVE  /\ Linked(Host!BadHash)
         /\ Host!BadHash[1] = Host!Call("HELLO", 0, 0, Host!Offsets, {"bootloader"})
<1> DEFINE n == (Len(upload.content) + BlockLength - 1) \div BlockLength
           first == Host!Call("HELLO", 0, 0, Host!Offsets, {"bootloader"})
           info == Host!Call("INFO", 1, 0, Host!Offsets, Host!Peers)
           hello == Host!Call("HELLO", 0, 0, Host!Offsets, Host!Peers)
           begin == Host!Call("BEGIN", 1, 0, {0}, Host!Peers)
           end == [Host!Call("END", n + 2, 0, Host!Offsets, Host!Peers) EXCEPT
                     !.status = "ERR_HASH", !.expected = 0..(SeqMod - 1)]
           abort == Host!Call("ABORT", n + 2, 0, Host!Offsets, Host!Peers)
           boot == Host!Call("BOOT", n + 3, 0, Host!Offsets, Host!Peers)
           rest == Host!Rest("settle")
           again == Host!Call("HELLO", 0, 0, Host!Offsets, {"application"})
<1>1. n \in Nat \ {0}
  <2>1. BlockLength \in Nat \ {0} /\ Len(upload.content) \in Nat \ {0}
    BY UpgradeAssumption DEF UploadType, Host!ValidationAssumption, Host!HostAssumption
  <2>2. ASSUME NEW m \in Nat \ {0}, NEW b \in Nat \ {0}
        PROVE  (m + b - 1) \div b \in Nat \ {0}
    <3> DEFINE d == m + b - 1
    <3>1. d \in Nat /\ d >= b  BY <2>2
    <3>2. d = b * (d \div b) + (d % b) /\ d % b \in 0..(b - 1) /\ d \div b \in Nat
      BY <2>2, <3>1
    <3> HIDE DEF d
    <3>3. d \div b # 0
      <4> SUFFICES ASSUME d \div b = 0 PROVE FALSE  OBVIOUS
      <4>1. d = d % b  BY <2>2, <3>1, <3>2
      <4> QED  BY <3>1, <3>2, <4>1
    <3> QED  BY <3>2, <3>3 DEF d
  <2> QED  BY <2>1, <2>2
<1> HIDE DEF n
<1>2. /\ n + 2 \in Nat /\ n + 3 \in Nat /\ 2 + n - 1 \in Nat
      /\ (2 + n - 1) + 1 = n + 2 /\ (n + 2) + 1 = n + 3
  BY <1>1
<1>3. /\ hello \in Instruction /\ begin \in Instruction /\ abort \in Instruction
      /\ boot \in Instruction
  BY <1>2, CallType, IapAssumption DEF Commands, Host!Offsets, Host!Peers
<1>4. end \in Instruction
  <2>1. 0..(SeqMod - 1) \in SUBSET Nat /\ (n + 2) % SeqMod \in 0..(SeqMod - 1)
    BY <1>2, IapAssumption
  <2>2. Host!Offsets \in SUBSET Nat /\ Host!Peers \in SUBSET {"bootloader", "application"}
    BY IapAssumption DEF Host!Offsets, Host!Peers
  <2> QED  BY <2>1, <2>2 DEF Host!Call, Instruction, Statuses, Commands
<1>5. /\ info.command = "INFO"
      /\ hello.command = "HELLO" /\ hello.seq = 0 % SeqMod /\ hello.status = "OK"
      /\ begin.command = "BEGIN" /\ begin.seq = 1 % SeqMod /\ begin.status = "OK"
      /\ end.command = "END" /\ end.seq = (n + 2) % SeqMod
      /\ abort.command = "ABORT" /\ abort.seq = (n + 2) % SeqMod /\ abort.status = "OK"
      /\ boot.command = "BOOT" /\ boot.seq = (n + 3) % SeqMod
      /\ rest.command = "settle"
  BY DEF Host!Call, Host!Rest
<1>6. Chain(Host!Connect, first, info) /\ Chain(Host!Verify, rest, again)
  BY ConnectChain, VerifyChain
<1>7. PICK a, b : /\ Chain(Host!SendBlocks(n, 2), a, b)
                  /\ a.command = "DATA" /\ a.seq = 2 % SeqMod
                  /\ b.command = "DATA" /\ b.seq = (2 + n - 1) % SeqMod
                  /\ b.status = "OK"
  BY <1>1, BlocksChain
<1>8. Host!BadHash = Host!Connect \o <<hello, begin>> \o Host!SendBlocks(n, 2)
                       \o <<end, abort, boot>> \o Host!Verify
  BY DEF Host!BadHash, n
<1> HIDE DEF first, info, hello, begin, end, abort, boot, rest, again
<1>9. /\ Follows(info, hello) /\ Follows(hello, begin) /\ Follows(begin, a)
      /\ Follows(b, end) /\ Follows(end, abort) /\ Follows(abort, boot)
      /\ Follows(boot, rest)
  <2>1. Follows(info, hello) /\ Follows(boot, rest)
    BY <1>5, IapAssumption DEF Follows, Commands
  <2>2. Follows(hello, begin) /\ Follows(begin, a)
    BY <1>5, <1>7, FollowsOn DEF Commands
  <2>3. Follows(b, end) /\ Follows(abort, boot)
    BY <1>2, <1>5, <1>7, FollowsOn DEF Commands
  <2>4. Follows(end, abort)  BY <1>5, FollowsAgain DEF Commands
  <2> QED  BY <2>1, <2>2, <2>3, <2>4
<1>10. Chain(<<hello, begin>>, hello, begin)
  BY <1>3, <1>9, ChainTwo
<1>11. Chain(<<end, abort, boot>>, end, boot)  BY <1>3, <1>4, <1>9, ChainThree
<1>12. Chain(Host!Connect \o <<hello, begin>>, first, begin)
  BY <1>6, <1>9, <1>10, ChainConcat
<1>13. Chain(Host!Connect \o <<hello, begin>> \o Host!SendBlocks(n, 2), first, b)
  BY <1>7, <1>9, <1>12, ChainConcat
<1>14. Chain(Host!Connect \o <<hello, begin>> \o Host!SendBlocks(n, 2)
               \o <<end, abort, boot>>, first, boot)
  BY <1>9, <1>11, <1>13, ChainConcat
<1>15. Chain(Host!BadHash, first, again)
  BY <1>6, <1>8, <1>9, <1>14, ChainConcat
<1> QED  BY <1>15 DEF Chain, first

\* So does interrupted-transfer.
LEMMA TransferLinked ==
  ASSUME UploadType
  PROVE  /\ Linked(Host!InterruptedTransfer)
         /\ Host!InterruptedTransfer[1] =
              Host!Call("HELLO", 0, 0, Host!Offsets, {"bootloader"})
<1> DEFINE first == Host!Call("HELLO", 0, 0, Host!Offsets, {"bootloader"})
           info == Host!Call("INFO", 1, 0, Host!Offsets, Host!Peers)
           begin == Host!Try("BEGIN", 2, 0, "OK", 0)
           boot == Host!Try("BOOT", 2, 0, "OK", 0)
           reset == Host!Rest("reset")
           rest == Host!Rest("settle")
           again == Host!Call("HELLO", 0, 0, Host!Offsets, {"application"})
<1>1. begin \in Instruction /\ boot \in Instruction
  BY TryType DEF Commands, Statuses
<1>2. reset \in Instruction  BY DEF Host!Rest, Instruction
<1>3. /\ first.command = "HELLO" /\ first.seq = 0
      /\ info.command = "INFO" /\ info.seq = 1 % SeqMod /\ info.status = "OK"
      /\ begin.command = "BEGIN" /\ begin.seq = 2 % SeqMod /\ begin.status = "OK"
      /\ boot.command = "BOOT" /\ boot.seq = 2 % SeqMod
      /\ reset.command = "reset" /\ rest.command = "settle" /\ again.command = "HELLO"
  BY IapAssumption DEF Host!Call, Host!Rest, Host!Try
<1>4. /\ Chain(Host!Connect, first, info) /\ Chain(Host!Verify, rest, again)
      /\ Chain(<<begin>>, begin, begin) /\ Chain(<<boot>>, boot, boot)
      /\ Chain(<<reset>>, reset, reset)
  BY <1>1, <1>2, ConnectChain, VerifyChain, ChainOne
<1>5. PICK a, b : /\ Chain(Host!SendBlocks(TestBlocks, 3), a, b)
                  /\ a.command = "DATA" /\ a.seq = 3 % SeqMod
                  /\ b.command = "DATA"
  <2>1. TestBlocks \in Nat \ {0}  BY UpgradeAssumption DEF Host!ValidationAssumption
  <2> QED  BY <2>1, BlocksChain
<1>6. Host!InterruptedTransfer =
        Host!Connect \o <<begin>> \o Host!SendBlocks(TestBlocks, 3) \o <<reset>>
          \o Host!Verify \o <<reset>> \o Host!Connect \o <<boot>> \o Host!Verify
  BY DEF Host!InterruptedTransfer
<1> HIDE DEF first, info, begin, boot, reset, rest, again
<1>7. /\ Follows(info, begin) /\ Follows(begin, a) /\ Follows(info, boot)
  BY <1>3, <1>5, FollowsOn DEF Commands
<1>8. /\ Follows(b, reset) /\ Follows(reset, rest) /\ Follows(again, reset)
      /\ Follows(reset, first) /\ Follows(boot, rest)
  BY <1>3, <1>5 DEF Follows, Commands
<1> DEFINE p2 == Host!Connect \o <<begin>>
           p3 == p2 \o Host!SendBlocks(TestBlocks, 3)
           p4 == p3 \o <<reset>>
           p5 == p4 \o Host!Verify
           p6 == p5 \o <<reset>>
           p7 == p6 \o Host!Connect
           p8 == p7 \o <<boot>>
           p9 == p8 \o Host!Verify
<1>9. Host!InterruptedTransfer = p9  BY <1>6
<1>10. Chain(p2, first, begin)  BY <1>4, <1>7, ChainConcat
<1> HIDE DEF p2
<1>11. Chain(p3, first, b)  BY <1>5, <1>7, <1>10, ChainConcat
<1> HIDE DEF p3
<1>12. Chain(p4, first, reset)  BY <1>4, <1>8, <1>11, ChainConcat
<1> HIDE DEF p4
<1>13. Chain(p5, first, again)  BY <1>4, <1>8, <1>12, ChainConcat
<1> HIDE DEF p5
<1>14. Chain(p6, first, reset)  BY <1>4, <1>8, <1>13, ChainConcat
<1> HIDE DEF p6
<1>15. Chain(p7, first, info)  BY <1>4, <1>8, <1>14, ChainConcat
<1> HIDE DEF p7
<1>16. Chain(p8, first, boot)  BY <1>4, <1>7, <1>15, ChainConcat
<1> HIDE DEF p8
<1>17. Chain(p9, first, again)  BY <1>4, <1>8, <1>16, ChainConcat
<1> QED  BY <1>9, <1>17 DEF Chain, first

\* Every scenario does that its image fits, and its first number is 0.
LEMMA ScriptLinked ==
  UploadType /\ Host!Scripted /\ Host!Fits(job, upload) =>
    Linked(Host!Script) /\ Host!Script[1].seq = 0
<1> SUFFICES ASSUME UploadType, Host!Scripted, Host!Fits(job, upload)
             PROVE  Linked(Host!Script) /\ Host!Script[1].seq = 0
  OBVIOUS
<1> DEFINE first == Host!Call("HELLO", 0, 0, Host!Offsets, {"bootloader"})
<1>0. first.seq = 0  BY IapAssumption DEF Host!Call
<1> HIDE DEF first
<1>1. CASE job = "protocol-errors"
  BY <1>0, <1>1, ErrorsLinked, ErrorsIs DEF Host!Script, first
<1>2. CASE job = "bad-hash"
  <2>1. /\ upload.declared # upload.content
        /\ Len(upload.declared) = Len(upload.content)
    BY <1>2 DEF Host!Fits
  <2>2. upload.content \in Seq(Byte) /\ upload.declared \in Seq(Byte)
    BY DEF UploadType
  <2>3. Len(upload.content) > 0
    BY <2>1, <2>2, EmptySeq
  <2> QED  BY <1>0, <1>2, <2>3, HashLinked DEF Host!Script, first
<1>3. CASE job = "interrupted-transfer"
  BY <1>0, <1>3, TransferLinked DEF Host!Script, first
<1> QED  BY <1>1, <1>2, <1>3 DEF Host!Scripted, Host!Scenarios

\* ------------------------------------------------------- what the device keeps --
\* An update that is on was on before, or its sectors have just been erased.
LEMMA UpdateFrom ==
  ASSUME [Next]_vars, update_active'
  PROVE  \/ EraseDone
         \/ /\ update_active /\ UNCHANGED <<image_size, expected_sha256>>
            /\ UNCHANGED next_offset \/ WriteDone
<1>1. ASSUME NEW f \in Frames, ProcessFrame(f)
      PROVE  UNCHANGED update
  BY <1>1 DEF ProcessFrame, Repeat, RefuseVersion, RefuseSequence, RefuseOther,
    Hello, Info, Abort, Boot, RefuseBegin, Begin, RefuseData, Data, RefuseEnd,
    End, Refuse, Abandon, update
<1>2. CASE Line
  BY <1>1, <1>2 DEF Line, SessionFrame, EntryFrame, update
<1>3. CASE WriteDone  BY <1>3 DEF WriteDone
<1>4. CASE \/ Start \/ EntryTimeout \/ IdleTick \/ Restart \/ LoadApp
           \/ EraseFails \/ WriteFails
           \/ OtaEraseDone \/ OtaFails \/ OtaWriteDone \/ RereadFails \/ PowerLoss
  BY <1>4 DEF Start, EntryTimeout, IdleTick, Restart, LoadApp,
    EraseFails, WriteFails, OtaEraseDone, OtaFails, OtaWriteDone,
    RereadFails, PowerLoss, Forget, Abandon, update
<1>5. CASE UNCHANGED vars  BY <1>5 DEF vars, update
<1> QED  BY <1>2, <1>3, <1>4, <1>5 DEF Next, Device

\* What the bootloader receives comes off the line.
LEMMA ReceivedIs ==
  ASSUME UInv, LastInv, BootloaderReceives
  PROVE  \E f \in Sent : Refuses(f) \/ Accepts(f) \/ Starts(f) \/ Ignores
<1>1. /\ Head(to_device) \in HostFrame /\ Head(to_device) \in Frame
      /\ Head(to_device) \in Sent
  BY HeadFrame, SentTail DEF BootloaderReceives, UInv, HostReady, HostFrame
<1> QED  BY <1>1, Taken DEF BootloaderReceives, UInv

\* A flash operation that is under way was so before, or a request on the line has
\* started it.
LEMMA BusyFrom ==
  ASSUME UInv, LastInv, [UpgradeNext]_all, FlashBusy'
  PROVE  \/ UNCHANGED <<pc, update>>
         \/ pc = "otaErase" /\ pc' = "otaWrite"
         \/ \E x \in Sent : Starts(x)
<1>1. CASE BootloaderReceives
  BY <1>1, ReceivedIs DEF Refuses, Accepts, Ignores, FlashBusy
<1>2. CASE UNCHANGED device  BY <1>2 DEF device, vars
<1>3. CASE \/ Start \/ EntryTimeout \/ IdleTick \/ Restart \/ LoadApp
           \/ EraseDone \/ EraseFails \/ WriteDone \/ WriteFails
           \/ OtaEraseDone \/ OtaFails \/ OtaWriteDone \/ RereadFails \/ PowerLoss
  BY <1>3 DEF Start, EntryTimeout, IdleTick, Restart, LoadApp, EraseDone,
    EraseFails, WriteDone, WriteFails, OtaEraseDone, OtaFails, OtaWriteDone,
    RereadFails, PowerLoss, Fails, FlashBusy, update
<1> QED
  BY <1>1, <1>2, <1>3 DEF UpgradeNext, all, DeviceSteps, ApplicationReceives,
    BootloaderWorks, Resets, HostOpens, HostReceives, HostResets, HostQuits, Lose,
    LoseHeader, Tick, HostTimesOut, DeviceTimesOut

\* The states in which there is no update and no session.
Over == {"reset", "start", "entry", "boot", "app"}

\* There is none either after a step, and flash stays as it is, when all that is on
\* the line is END.
LEMMA OverStays ==
  ASSUME UInv, LastInv, [UpgradeNext]_all, pc \in Over,
         \A x \in Sent : x.command = "END"
  PROVE  UNCHANGED flash /\ pc' \in Over
<1>1. CASE BootloaderReceives
  BY <1>1, ReceivedIs DEF Refuses, Accepts, Starts, Ignores, Over
<1>2. CASE UNCHANGED device  BY <1>2 DEF device, vars
<1>3. CASE \/ Start \/ EntryTimeout \/ IdleTick \/ Restart \/ LoadApp
           \/ EraseDone \/ EraseFails \/ WriteDone \/ WriteFails
           \/ OtaEraseDone \/ OtaFails \/ OtaWriteDone \/ RereadFails \/ PowerLoss
  BY <1>3 DEF Start, EntryTimeout, IdleTick, Restart, LoadApp, EraseDone,
    EraseFails, WriteDone, WriteFails, OtaEraseDone, OtaFails, OtaWriteDone,
    RereadFails, PowerLoss, CutOtadata, CutSlot, Over, flash
<1> QED
  BY <1>1, <1>2, <1>3 DEF UpgradeNext, all, DeviceSteps, ApplicationReceives,
    BootloaderWorks, Resets, HostOpens, HostReceives, HostResets, HostQuits, Lose,
    LoseHeader, Tick, HostTimesOut, DeviceTimesOut

\* ----------------------------------------- while the host waits for its response --
\* What comes late is not new to the host.
LEMMA BehindRests ==
  ASSUME BehindInv, Rests
  PROVE  BehindInv'
<1>1. UNCHANGED <<phase, host_sequence, job>> /\ (astray => astray')
  BY DEF Rests, Awaits
<1>2. (Host!Scripted)' <=> Host!Scripted  BY <1>1 DEF Host!Scripted
<1>3. \A x : Behind(x) => Behind(x)'  BY <1>1 DEF Behind
<1>4. \A x : Current(x)' <=> Current(x)  BY <1>1 DEF Current
<1> DEFINE r == Host!Request(phase, host_sequence, host_offset)
<1>5. \A y : y = r => Behind(y)' /\ Current(y)'
  BY <1>1 DEF Behind, Current, Host!Request
<1>6. \A y \in Outstanding' :
        \/ y \in Outstanding
        \/ y.command = "HELLO" /\ astray' /\ \E z \in Outstanding : z.command = "DATA"
        \/ phase \in Commands /\ y = r
  BY DEF Rests, Joins
<1> HIDE DEF r
<1>7. phase \in Commands \ {"HELLO"} => \A y \in Outstanding' : Behind(y)'
  <2> SUFFICES ASSUME phase \in Commands \ {"HELLO"}, NEW y \in Outstanding'
               PROVE  Behind(y)'
    OBVIOUS
  <2>1. y.command = "HELLO" /\ astray' => Behind(y)'  BY DEF Behind
  <2>2. y \in Outstanding => Behind(y)  BY DEF BehindInv
  <2>3. y \in Outstanding => Behind(y)'  BY <1>3, <2>2
  <2> QED  BY <1>5, <1>6, <2>1, <2>3
<1>8. phase = "HELLO" =>
        \A y \in Outstanding' :
          Current(y)' \/ (Host!Scripted /\ y.command \in {"INFO", "BOOT"})
  <2> SUFFICES ASSUME phase = "HELLO", NEW y \in Outstanding'
               PROVE  Current(y)' \/ (Host!Scripted /\ y.command \in {"INFO", "BOOT"})
    OBVIOUS
  <2>1. \A z \in Outstanding : z.command # "DATA"  BY DEF BehindInv, Current
  <2>2. y \in Outstanding =>
          Current(y) \/ (Host!Scripted /\ y.command \in {"INFO", "BOOT"})
    BY DEF BehindInv
  <2>3. y \in Outstanding =>
          Current(y)' \/ (Host!Scripted /\ y.command \in {"INFO", "BOOT"})
    BY <1>4, <2>2
  <2> QED  BY <1>5, <1>6, <2>1, <2>3
<1>9. phase = "settle" => \A y \in Outstanding' : y.command = "BOOT"
  <2> SUFFICES ASSUME phase = "settle", NEW y \in Outstanding'
               PROVE  y.command = "BOOT"
    OBVIOUS
  <2> QED  BY <1>6 DEF BehindInv, Commands
<1> QED  BY <1>1, <1>2, <1>7, <1>8, <1>9 DEF BehindInv

\* The device stays where the host takes it to be.
LEMMA StepRests ==
  ASSUME WindowInv, BehindInv, StepInv, Rests, UpdateInv'
  PROVE  StepInv'
<1>1. UNCHANGED <<phase, host_sequence, job>> /\ (astray => astray')
  BY DEF Rests, Awaits
<1>2. (Host!Scripted)' <=> Host!Scripted  BY <1>1 DEF Host!Scripted
<1>3. \A x : Current(x)' <=> Current(x)  BY <1>1 DEF Current
<1>4. ASSUME NEW a \in Heard', Current(a)', a.payload.status = "OK"
      PROVE  /\ InSession' =>
                  expected_sequence' = (host_sequence + 1) % SeqMod \/ Astray'
             /\ phase = "ABORT" => ~update_active'
  <2>1. CASE a \in Heard
    <3>1. OkHeard /\ \A x \in Outstanding : After(x)
      BY <1>3, <1>4, <2>1 DEF OkHeard, WindowInv
    <3>2. CASE ~InSession'
      BY <3>2 DEF UpdateInv, InSession, FlashBusy
    <3>3. CASE InSession' /\ Quiet
      BY <1>1, <3>1, <3>3 DEF StepInv, Quiet, Astray
    <3>4. ASSUME NEW x \in Outstanding, Moves(x)
          PROVE  /\ expected_sequence' = (host_sequence + 1) % SeqMod \/ Astray'
                 /\ phase = "ABORT" => ~update_active'
      BY <1>1, <3>1, <3>4 DEF After, Current, Moves, Astray
    <3> QED  BY <3>2, <3>3, <3>4 DEF Rests, DeviceGoes
  <2>2. CASE Fresh(a)
    <3>1. PICK x \in Outstanding :
            /\ Answers(a, x)
            /\ InSession' => expected_sequence' = (x.seq + 1) % SeqMod
            /\ update_active' => x.command \in {"INFO", "BEGIN", "DATA"}
      BY <1>4, <2>2 DEF Fresh
    <3> QED  BY <1>3, <1>4, <3>1 DEF Answers, Current
  <2> QED  BY <1>4, <2>1, <2>2 DEF Rests, HostHears
<1>5. ASSUME InSession', phase \in Commands \ {"HELLO"}
      PROVE  \/ expected_sequence' \in {host_sequence, (host_sequence + 1) % SeqMod}
             \/ Astray'
  <2>1. CASE Quiet
    BY <1>1, <1>5, <2>1 DEF StepInv, Quiet, Astray
  <2>2. ASSUME NEW x \in Outstanding, Moves(x)
        PROVE  \/ expected_sequence' \in {host_sequence, (host_sequence + 1) % SeqMod}
               \/ Astray'
    <3>1. Behind(x)  BY <1>5 DEF BehindInv
    <3> QED  BY <1>1, <2>2, <3>1 DEF Behind, Moves, Astray
  <2> QED  BY <1>5, <2>1, <2>2 DEF Rests, DeviceGoes
<1>6. ASSUME InSession', phase = "HELLO", ~Host!Scripted
      PROVE  expected_sequence' = (host_sequence + 1) % SeqMod
  <2>1. CASE Quiet
    BY <1>6, <2>1 DEF StepInv, Quiet
  <2>2. ASSUME NEW x \in Outstanding, Moves(x)
        PROVE  expected_sequence' = (host_sequence + 1) % SeqMod
    BY <1>6, <2>2 DEF BehindInv, Current, Moves
  <2> QED  BY <1>6, <2>1, <2>2 DEF Rests, DeviceGoes
<1> QED  BY <1>1, <1>2, <1>4, <1>5, <1>6 DEF StepInv, OkHeard

\* The update is of the file that is sent.
LEMMA FrameKept ==
  ASSUME UInv, FrameInv, LastInv, [Next]_vars, UNCHANGED upload,
         \A y \in Outstanding' :
           y \in Outstanding \/ y.command # "BEGIN"
             \/ \E s, o : y = Host!Request("BEGIN", s, o)
  PROVE  FrameInv'
<1>1. ASSUME NEW y \in Outstanding', y.command = "BEGIN"
      PROVE  y.data = upload.declared /\ y.size = Len(upload.declared)
  <2>1. CASE y \in Outstanding  BY <1>1, <2>1 DEF FrameInv
  <2>2. CASE \E s, o : y = Host!Request("BEGIN", s, o)
    BY <2>2 DEF Host!Request
  <2> QED  BY <1>1, <2>1, <2>2
<1>2. ASSUME update_active'
      PROVE  expected_sha256' = upload.declared /\ image_size' = Len(upload.declared)
  <2>1. CASE EraseDone
    <3>1. frame \in Outstanding /\ frame.command = "BEGIN"
      BY <2>1 DEF EraseDone, Outstanding, Pending, FlashBusy, LastInv
    <3> QED  BY <2>1, <3>1 DEF EraseDone, FrameInv
  <2>2. CASE update_active /\ UNCHANGED <<image_size, expected_sha256>>
    BY <2>2 DEF FrameInv
  <2> QED  BY <1>2, <2>1, <2>2, UpdateFrom
<1> QED  BY <1>1, <1>2 DEF FrameInv

\* What is on the line stays of the scenario.
LEMMA ScenarioRests ==
  ASSUME UInv, ScenarioInv, Rests
  PROVE  ScenarioInv'
<1>1. UNCHANGED <<phase, job, upload, host_sequence, step>> /\ (astray => astray')
  BY DEF Rests, Awaits
<1>2. Host!Script' = Host!Script /\ Host!Scripted' = Host!Scripted
      /\ Host!Fits(job, upload)' = Host!Fits(job, upload)
  BY <1>1, SameScript DEF Host!Fits
<1>3. ASSUME Host!Scripted, NEW y \in Outstanding'
      PROVE  OfScript(y)'
  <2>1. OfScript(y) => OfScript(y)'  BY <1>1, <1>2 DEF OfScript
  <2>2. y.command = "HELLO" /\ astray' => OfScript(y)'  BY DEF OfScript
  <2>3. ASSUME phase \in Commands, y = Host!Request(phase, host_sequence, host_offset)
        PROVE  OfScript(y)
    <3>1. step \in 1..Len(Host!Script) /\ Host!Script[step].command = phase
          /\ Host!Script[step].seq = host_sequence
      BY <1>3, <2>3 DEF UInv, HostReady, HostInv, ScriptInv, ScenarioInv
    <3>2. y.command = phase /\ y.seq = host_sequence  BY <2>3 DEF Host!Request
    <3> QED  BY <3>1, <3>2 DEF OfScript
  <2>4. y \in Outstanding => OfScript(y)  BY <1>3 DEF ScenarioInv
  <2> QED  BY <2>1, <2>2, <2>3, <2>4 DEF Rests, Joins
<1> QED  BY <1>1, <1>2, <1>3 DEF ScenarioInv

\* A command that a scenario does not use.
Without(s, c) == s \in Seq(Instruction) /\ \A i \in 1..Len(s) : s[i].command # c

\* It is not used in a whole whose parts do not use it.
LEMMA WithoutConcat ==
  ASSUME NEW s, NEW t, NEW c, Without(s, c), Without(t, c)
  PROVE  Without(s \o t, c)
<1>1. /\ s \in Seq(Instruction) /\ Len(s) \in Nat
      /\ t \in Seq(Instruction) /\ Len(t) \in Nat
  BY DEF Without
<1> DEFINE u == s \o t
<1>2. /\ u \in Seq(Instruction) /\ Len(u) = Len(s) + Len(t)
      /\ \A i \in 1..(Len(s) + Len(t)) : u[i] = IF i <= Len(s) THEN s[i] ELSE t[i - Len(s)]
  BY <1>1, ConcatProperties
<1> HIDE DEF u
<1>3. ASSUME NEW i \in 1..Len(u)
      PROVE  u[i].command # c
  <2>1. CASE i <= Len(s)
    <3>1. i \in 1..Len(s) /\ u[i] = s[i]  BY <1>1, <1>2, <2>1
    <3> QED  BY <3>1 DEF Without
  <2>2. CASE ~(i <= Len(s))
    <3>1. i - Len(s) \in 1..Len(t) /\ u[i] = t[i - Len(s)]  BY <1>1, <1>2, <2>2
    <3> QED  BY <3>1 DEF Without
  <2> QED  BY <2>1, <2>2
<1> QED  BY <1>2, <1>3 DEF Without, u

\* Nor in a single instruction with another command.
LEMMA WithoutOne ==
  ASSUME NEW a \in Instruction, NEW c, a.command # c
  PROVE  Without(<<a>>, c)
<1>1. <<a>> \in Seq(Instruction) /\ Len(<<a>>) = 1 /\ <<a>>[1] = a  OBVIOUS
<1> QED  BY <1>1 DEF Without

\* interrupted-transfer ends no update.
LEMMA TransferWithoutEnd ==
  ASSUME UploadType
  PROVE  Without(Host!InterruptedTransfer, "END")
<1> DEFINE begin == Host!Try("BEGIN", 2, 0, "OK", 0)
           boot == Host!Try("BOOT", 2, 0, "OK", 0)
           reset == Host!Rest("reset")
<1>1. begin \in Instruction /\ boot \in Instruction
  BY TryType DEF Commands, Statuses
<1>2. reset \in Instruction  BY DEF Host!Rest, Instruction
<1>3. /\ Without(<<begin>>, "END") /\ Without(<<boot>>, "END") /\ Without(<<reset>>, "END")
  BY <1>1, <1>2, WithoutOne DEF Host!Try, Host!Rest
<1>4. Without(Host!Connect, "END") /\ Without(Host!Verify, "END")
  BY ConnectType, VerifyType
  DEF Without, Host!Connect, Host!Verify, Host!Call, Host!Rest
<1>5. Without(Host!SendBlocks(TestBlocks, 3), "END")
  <2>1. TestBlocks \in Nat  BY UpgradeAssumption DEF Host!ValidationAssumption
  <2>2. Len(Host!SendBlocks(TestBlocks, 3)) = TestBlocks
    BY <2>1 DEF Host!SendBlocks
  <2>3. \A i \in 1..TestBlocks : Host!SendBlocks(TestBlocks, 3)[i].command = "DATA"
    BY DEF Host!SendBlocks, Host!Try
  <2> QED  BY <2>1, <2>2, <2>3, SendBlocksType DEF Without
<1>6. Host!InterruptedTransfer =
        Host!Connect \o <<begin>> \o Host!SendBlocks(TestBlocks, 3) \o <<reset>>
          \o Host!Verify \o <<reset>> \o Host!Connect \o <<boot>> \o Host!Verify
  BY DEF Host!InterruptedTransfer
<1> HIDE DEF begin, boot, reset
<1>7. Without(Host!Connect \o <<begin>> \o Host!SendBlocks(TestBlocks, 3) \o <<reset>>, "END")
  BY <1>3, <1>4, <1>5, WithoutConcat
<1> DEFINE p == Host!Connect \o <<begin>> \o Host!SendBlocks(TestBlocks, 3) \o <<reset>>
<1> HIDE DEF p
<1>8. Without(p \o Host!Verify \o <<reset>> \o Host!Connect, "END")
  BY <1>3, <1>4, <1>7, WithoutConcat DEF p
<1> DEFINE q == p \o Host!Verify \o <<reset>> \o Host!Connect
<1> HIDE DEF q
<1>9. Without(q \o <<boot>> \o Host!Verify, "END")
  BY <1>3, <1>4, <1>8, WithoutConcat DEF q
<1> QED  BY <1>6, <1>9 DEF p, q

\* Where in protocol-errors a request on the line is from.
LEMMA OnErrors ==
  ASSUME ScenarioInv, job = "protocol-errors", NEW x \in Outstanding
  PROVE  /\ x.command = "INFO" => step \in 2..3
         /\ x.command = "BEGIN" => step \in 3..4
         /\ x.command = "DATA" =>
              \/ step \in 4..7 /\ x.seq = 3 % SeqMod
              \/ step \in 9..10 /\ x.seq = 5 % SeqMod
         /\ x.command = "END" => step \in 7..8
<1>1. step \in Nat /\ OfScript(x) /\ Host!Script = Host!ProtocolErrors
  BY DEF ScenarioInv, Host!Scripted, Host!Scenarios, Host!Script
<1>2. SUFFICES ASSUME NEW i \in {step - 1, step}, i \in 1..12,
                      Host!ProtocolErrors[i].command = x.command,
                      Host!ProtocolErrors[i].seq = x.seq
               PROVE  /\ x.command = "INFO" => i = 2
                      /\ x.command = "BEGIN" => i = 3
                      /\ x.command = "DATA" =>
                           \/ i \in 4..6 /\ x.seq = 3 % SeqMod
                           \/ i = 9 /\ x.seq = 5 % SeqMod
                      /\ x.command = "END" => i = 7
  BY <1>1, ErrorsIs DEF OfScript
<1>3. i \in {1, 2, 3, 4, 5, 6, 7, 8, 9, 10, 11, 12}  BY <1>2
<1>4. CASE i \in {1, 2, 3, 4, 5, 6}
  BY <1>2, <1>4, ErrorsIs DEF Host!Call, Host!Try
<1>5. CASE i \in {7, 8, 9, 10, 11, 12}
  BY <1>2, <1>5, ErrorsIs DEF Host!Call, Host!Try, Host!Rest
<1> QED  BY <1>3, <1>4, <1>5

\* No END of a scenario gets as far as the boot selection.
LEMMA ScenarioEndRefused ==
  ASSUME UInv, FrameInv, ScenarioInv, ErrorsInv, Host!Scripted, pc = "session",
         NEW x \in Outstanding, x.command = "END"
  PROVE  "OK" \notin EndStatuses(x)
<1> SUFFICES ASSUME "OK" \in EndStatuses(x)
             PROVE  FALSE
  OBVIOUS
<1>1. update_active /\ next_offset = image_size /\ DigestMatches
  BY DEF EndStatuses
<1>2. /\ upload.content \in Seq(Byte) /\ Len(upload.content) \in Nat
      /\ upload.declared \in Seq(Byte) /\ Len(upload.declared) \in Nat
      /\ expected_sha256 = upload.declared /\ image_size = Len(upload.declared)
  BY <1>1 DEF UInv, HostReady, HostInv, UploadType, FrameInv
<1>3. CASE job = "protocol-errors"
  <2>1. step \in 7..8  BY <1>3, OnErrors
  <2>2. /\ Len(upload.content) > BlockLength /\ upload.declared = upload.content
    BY <1>3 DEF ScenarioInv, Host!Fits
  <2>3. BlockLength \in Nat
    BY UpgradeAssumption DEF Host!ValidationAssumption, Host!HostAssumption
  <2>4. next_offset > 0 => next_offset <= BlockLength
    BY <1>1, <1>3, <2>1 DEF ErrorsInv, Written
  <2> QED  BY <1>1, <1>2, <2>2, <2>3, <2>4
<1>4. CASE job = "bad-hash"
  <2>1. /\ upload.declared # upload.content
        /\ Len(upload.declared) = Len(upload.content)
    BY <1>4 DEF ScenarioInv, Host!Fits
  <2>2. SubSeq(slot[target_index], 1, next_offset) = upload.declared
    BY <1>1, <1>2 DEF DigestMatches
  <2>3. SubSeq(upload.content, 1, Len(upload.content)) = upload.content
    <3>1. ASSUME NEW q \in Seq(Byte)  PROVE SubSeq(q, 1, Len(q)) = q
      <4> DEFINE t == SubSeq(q, 1, Len(q))
      <4>1. Len(q) \in Nat /\ \A i \in 1..Len(q) : q[i] \in Byte  OBVIOUS
      <4>2. t \in Seq(Byte) /\ Len(t) = Len(q) /\ \A i \in 1..Len(q) : t[i] = q[i]
        BY <4>1, SubSeqProperties
      <4> HIDE DEF t
      <4>3. t = q  BY <4>2, SeqEqual
      <4> QED  BY <4>3 DEF t
    <3> QED  BY <1>2, <3>1
  <2>4. SubSeq(slot[target_index], 1, Len(upload.content)) = upload.content
    BY <1>1, <1>2, <2>1, <2>3, ReceivedInSlot DEF ReceivedIsSent, IsPrefixOf
  <2> QED  BY <1>1, <1>2, <2>1, <2>2, <2>4
<1>5. CASE job = "interrupted-transfer"
  <2>1. Host!Script = Host!InterruptedTransfer  BY <1>5 DEF Host!Script
  <2>2. Without(Host!Script, "END")
    BY <2>1, TransferWithoutEnd DEF UInv, HostReady, HostInv
  <2>3. OfScript(x)  BY DEF ScenarioInv
  <2> QED  BY <2>2, <2>3 DEF OfScript, Without
<1> QED  BY <1>3, <1>4, <1>5 DEF Host!Scripted, Host!Scenarios

\* So a scenario does not commit anything.
LEMMA NoCommit ==
  ASSUME UInv, FrameInv, LastInv, ScenarioInv, ErrorsInv, SelectionInv, Host!Scripted,
         [UpgradeNext]_all
  PROVE  pc' \notin {"otaErase", "otaWrite"}
<1> SUFFICES ASSUME pc' \in {"otaErase", "otaWrite"}
             PROVE  FALSE
  OBVIOUS
<1>1. pc \notin {"otaErase", "otaWrite"}  BY DEF SelectionInv
<1>2. PICK x \in Sent : Starts(x)  BY <1>1, BusyFrom DEF FlashBusy
<1>3. pc = "session" /\ x.command = "END" /\ "OK" \in EndStatuses(x)
  BY <1>2 DEF Starts
<1>4. x \in Outstanding  BY DEF Outstanding
<1> QED  BY <1>3, <1>4, ScenarioEndRefused

\* The boot selection moves only where the host has said END.
LEMMA SelectionStays ==
  ASSUME UInv, LastInv, SelectionInv, [Next]_vars,
         Host!Scripted \/ phase \notin {"END", "done", "failed"}
  PROVE  BootIndex(otadata') = BootIndex(otadata)
<1> SUFFICES ASSUME pc = "otaWrite"
             PROVE  FALSE
  BY SelectionChange DEF UInv
<1>1. frame.command = "END" /\ frame \in Outstanding
  BY DEF LastInv, Outstanding, Pending, FlashBusy
<1> QED  BY <1>1 DEF SelectionInv

\* While the host waits, that stays so.
LEMMA SelectionRests ==
  ASSUME AnyFrames, UInv, FrameInv, LastInv, ScenarioInv, ErrorsInv, SelectionInv,
         [UpgradeNext]_all, Rests, UNCHANGED selected
  PROVE  SelectionInv'
<1>1. UNCHANGED <<phase, job>> /\ (Host!Scripted' <=> Host!Scripted)
  BY DEF Rests, Awaits, Host!Scripted
<1>2. [Next]_vars  BY DeviceStep DEF UInv
<1>3. Host!Scripted => pc' \notin {"otaErase", "otaWrite"}  BY NoCommit
<1>4. ASSUME ~Host!Scripted, NEW y \in Outstanding', y.command = "END"
      PROVE  phase \in {"END", "done", "failed"}
  <2>1. y = Host!Request(phase, host_sequence, host_offset) => y.command = phase
    BY DEF Host!Request
  <2> QED  BY <1>4, <2>1 DEF Rests, Joins, SelectionInv
<1>5. BootIndex(otadata') # selected =>
        ~Host!Scripted /\ phase \in {"END", "done", "failed"}
  BY <1>2, SelectionStays DEF SelectionInv
<1> QED  BY <1>1, <1>3, <1>4, <1>5 DEF SelectionInv

\* A block is no longer than it may be.
LEMMA BlockFits ==
  ASSUME UploadType, NEW o \in Nat
  PROVE  Len(Host!Block(o)) <= BlockLength
<1> DEFINE size == Len(upload.declared)
           last_byte == Host!Shorter(Len(upload.content), Host!Shorter(o + BlockLength, size))
<1>1. /\ upload.content \in Seq(Byte) /\ Len(upload.content) \in Nat
      /\ size \in Nat /\ BlockLength \in Nat
  BY UpgradeAssumption DEF UploadType, Host!ValidationAssumption, Host!HostAssumption
<1>2. last_byte \in Nat /\ last_byte <= Len(upload.content) /\ last_byte <= o + BlockLength
  BY <1>1 DEF Host!Shorter
<1>3. Host!Block(o) = SubSeq(upload.content, o + 1, last_byte)  BY DEF Host!Block
<1> HIDE DEF last_byte
<1>4. \A i \in (o + 1)..last_byte : upload.content[i] \in Byte  BY <1>1, <1>2
<1>5. Len(Host!Block(o)) = IF o + 1 <= last_byte THEN last_byte - (o + 1) + 1 ELSE 0
  BY <1>1, <1>2, <1>3, <1>4, SubSeqProperties
<1> QED  BY <1>1, <1>2, <1>5

\* Numbers that differ by less than the modulus stay different.
LEMMA NextDiffers ==
  ASSUME NEW n \in Nat
  PROVE  n % SeqMod # (n + 1) % SeqMod
<1>1. SeqMod \in Nat /\ SeqMod > 1  BY IapAssumption
<1>2. n % SeqMod \in 0..(SeqMod - 1) /\ (n + 1) % SeqMod = ((n % SeqMod) + 1) % SeqMod
  BY NextNumber
<1> DEFINE r == n % SeqMod
<1> HIDE DEF r
<1>3. r \in 0..(SeqMod - 1) => r # (r + 1) % SeqMod
  <2> SUFFICES ASSUME r \in 0..(SeqMod - 1)
               PROVE  r # (r + 1) % SeqMod
    OBVIOUS
  <2>1. CASE r + 1 < SeqMod
    <3>1. (r + 1) % SeqMod = r + 1  BY <1>1, <2>1
    <3> QED  BY <3>1
  <2>2. CASE r + 1 = SeqMod
    <3>1. (r + 1) % SeqMod = 0  BY <1>1, <2>2
    <3> QED  BY <1>1, <2>2, <3>1
  <2> QED  BY <1>1, <2>1, <2>2
<1> QED  BY <1>2, <1>3 DEF r

\* While the host waits, protocol-errors has one block written at most.
LEMMA ErrorsRests ==
  ASSUME AnyFrames, UInv, WindowInv, LastInv, ScenarioInv, ErrorsInv, UInv',
         [UpgradeNext]_all, Rests
  PROVE  ErrorsInv'
<1> step' \in Nat  BY DEF Rests, Awaits, ScenarioInv
<1> SUFFICES ASSUME job' = "protocol-errors", phase' \in Commands \/ step' >= 5
             PROVE  /\ pc' = "write" => next_offset' = 0
                    /\ Written' =>
                         /\ step' >= 4 /\ next_offset' <= BlockLength
                         /\ expected_sequence' = 4 % SeqMod
                         /\ \A x \in Outstanding' : x.command \notin {"INFO", "BEGIN"}
                    /\ step' >= 9 => ~update_active' /\ pc' # "erase"
  BY DEF ErrorsInv
<1>0. /\ UNCHANGED <<phase, job, step>>
      /\ job = "protocol-errors" /\ (phase \in Commands \/ step >= 5)
  BY DEF Rests, Awaits
<1>1. /\ pc = "write" => next_offset = 0
      /\ Written =>
           /\ step >= 4 /\ next_offset <= BlockLength
           /\ expected_sequence = 4 % SeqMod
           /\ \A x \in Outstanding : x.command \notin {"INFO", "BEGIN"}
      /\ step >= 9 => ~update_active /\ pc # "erase"
  BY <1>0 DEF ErrorsInv
<1>2. [Next]_vars /\ step \in Nat /\ next_offset \in Nat
  BY DeviceStep DEF UInv, ScenarioInv, IInv, TypeOK
<1>3. UNCHANGED <<phase, job, upload, host_sequence, step>>
  BY DEF Rests, Awaits
<1>4. (3 + 1) % SeqMod = ((3 % SeqMod) + 1) % SeqMod /\ 3 % SeqMod # (3 + 1) % SeqMod
      /\ 4 % SeqMod # (4 + 1) % SeqMod
  BY NextNumber, NextDiffers
<1>5. pc' = "write" => next_offset' = 0
  <2> SUFFICES ASSUME pc' = "write"
               PROVE  next_offset' = 0
    OBVIOUS
  <2>1. CASE UNCHANGED <<pc, update>>  BY <1>1, <2>1 DEF update
  <2>2. ASSUME NEW x \in Sent, Starts(x)
        PROVE  next_offset' = 0
    <3>1. /\ x.command = "DATA" /\ x.seq = expected_sequence /\ UNCHANGED next_offset
          /\ update_active
      BY <2>2 DEF Starts, update, DataStatus
    <3>2. x.seq \in {3 % SeqMod, 5 % SeqMod}
      BY <3>1, <1>0, OnErrors DEF Outstanding
    <3>3. next_offset = 0  BY <1>1, <1>2, <1>4, <3>1, <3>2 DEF Written
    <3> QED  BY <3>1, <3>3
  <2> QED  BY <2>1, <2>2, BusyFrom DEF FlashBusy
<1>6. ASSUME Written'
      PROVE  /\ step >= 4 /\ next_offset' <= BlockLength
             /\ expected_sequence' = 4 % SeqMod
             /\ \A x \in Outstanding' : x.command \notin {"INFO", "BEGIN"}
  <2>1. CASE update_active /\ UNCHANGED next_offset
    <3>1. Written /\ step < 9 /\ InSession'
      BY <1>1, <1>2, <1>6, <2>1 DEF Written, UInv, IInv, UpdateInv, InSession, FlashBusy
    <3>2. expected_sequence' = 4 % SeqMod
      <4>1. CASE Quiet  BY <1>1, <3>1, <4>1 DEF Quiet
      <4>2. ASSUME NEW x \in Outstanding, Moves(x)
            PROVE  expected_sequence' = 4 % SeqMod
        <5>1. x.command = "DATA"
          BY <1>1, <1>6, <3>1, <4>2 DEF Moves, Written
        <5>2. x.seq = 3 % SeqMod  BY <3>1, <5>1, <1>0, OnErrors
        <5> QED  BY <1>4, <4>2, <5>2 DEF Moves
      <4> QED  BY <3>1, <4>1, <4>2 DEF Rests, DeviceGoes
    <3>3. ASSUME NEW y \in Outstanding', y.command \in {"INFO", "BEGIN"}
          PROVE  FALSE
      <4>1. phase \in Commands /\ y = Host!Request(phase, host_sequence, host_offset)
        BY <1>1, <3>1, <3>3 DEF Rests, Joins
      <4>2. phase \in {"INFO", "BEGIN"}  BY <3>3, <4>1 DEF Host!Request
      <4>3. step \in 1..12 /\ Host!ProtocolErrors[step].command = phase
        BY <1>0, <4>1, ErrorsIs DEF UInv, HostReady, HostInv, ScriptInv, Host!Scripted,
          Host!Scenarios, Host!Script
      <4>4. step \in {4, 5, 6, 7, 8}  BY <1>1, <1>2, <3>1, <4>3
      <4>5. Host!ProtocolErrors[step].command \in {"DATA", "END", "ABORT"}
        BY <4>4, ErrorsIs DEF Host!Try
      <4> QED  BY <4>2, <4>3, <4>5
    <3> QED  BY <1>1, <2>1, <3>1, <3>2, <3>3
  <2>2. CASE WriteDone
    <3>1. /\ pc = "write" /\ frame.command = "DATA" /\ frame \in Pending
          /\ frame \in Outstanding
          /\ update_active /\ Pending' = {} /\ next_offset' = Len(frame.data)
          /\ expected_sequence' = (frame.seq + 1) % SeqMod
      <4>1. /\ pc = "write" /\ next_offset' = next_offset + Len(frame.data)
            /\ expected_sequence' = (frame.seq + 1) % SeqMod /\ pc' = "session"
        BY <2>2 DEF WriteDone, Accept
      <4>2. /\ frame.command = "DATA" /\ frame \in Pending /\ frame \in Outstanding
            /\ FlashBusy
        BY <4>1 DEF LastInv, Pending, Outstanding, FlashBusy
      <4>3. update_active  BY <4>1 DEF UInv, IInv, RequestInv
      <4>4. Len(frame.data) \in Nat  BY <4>2, FrameType DEF UInv
      <4> QED  BY <1>1, <4>1, <4>2, <4>3, <4>4 DEF Pending, FlashBusy
    <3>2. step \in 4..7 /\ frame.seq = 3 % SeqMod
      BY <1>1, <1>2, <3>1, <1>0, OnErrors
    <3>3. expected_sequence' = 4 % SeqMod  BY <1>4, <3>1, <3>2
    <3>4. next_offset' <= BlockLength
      <4>1. frame \in HostFrame  BY <3>1 DEF UInv, DeviceInv, NoFrame
      <4>2. frame.data = Host!Block(frame.offset) /\ frame.offset \in Nat
        BY <3>1, <4>1 DEF HostFrame, Frame
      <4> QED  BY <3>1, <4>2, BlockFits DEF UInv, HostReady, HostInv
    <3>5. ASSUME NEW y \in Outstanding', y.command \in {"INFO", "BEGIN"}
          PROVE  FALSE
      <4>0. phase \in Commands => phase \notin {"INFO", "BEGIN"}
        <5> SUFFICES ASSUME phase \in Commands PROVE phase \notin {"INFO", "BEGIN"}
          OBVIOUS
        <5>1. Host!ProtocolErrors[step].command = phase
          BY <1>0 DEF UInv, HostReady, HostInv, ScriptInv, Host!Scripted, Host!Scenarios,
            Host!Script
        <5>2. step \in {4, 5, 6, 7}  BY <3>2
        <5> QED  BY <5>1, <5>2, ErrorsIs DEF Host!Try
      <4>1. y \in Sent
        <5>1. y = Host!Request(phase, host_sequence, host_offset) => y.command = phase
          BY DEF Host!Request
        <5> QED  BY <3>1, <3>5, <4>0, <5>1 DEF Rests, Joins, Outstanding, Pending
      <4>2. y.command = "BEGIN" /\ step = 4
        BY <1>0, <3>2, <3>5, <4>1, OnErrors DEF Outstanding
      <4>3. /\ phase \in Commands /\ phase = Host!ProtocolErrors[4].command
            /\ host_sequence = Host!ProtocolErrors[4].seq
        BY <1>0, <4>2 DEF UInv, HostReady, HostInv, ScriptInv, ScenarioInv, Host!Scripted,
          Host!Scenarios, Host!Script
      <4>4. phase = "DATA" /\ host_sequence = 3 % SeqMod
        BY <4>3, ErrorsIs DEF Host!Try
      <4>5. Current(frame)  BY <3>1, <3>2, <4>4 DEF Current
      <4>6. After(y)  BY <3>1, <4>1, <4>5 DEF WindowInv
      <4> QED  BY <4>2, <4>4, <4>6 DEF After, Current
    <3> QED  BY <3>2, <3>3, <3>4, <3>5
  <2>3. CASE EraseDone  BY <1>6, <2>3 DEF EraseDone, Written
  <2> QED  BY <1>2, <1>6, <2>1, <2>2, <2>3, UpdateFrom DEF Written
<1>7. ASSUME step >= 9
      PROVE  ~update_active' /\ pc' # "erase"
  <2>1. ~update_active'
    BY <1>1, <1>2, <1>7, UpdateFrom DEF EraseDone
  <2>2. ASSUME pc' = "erase"  PROVE FALSE
    <3>1. PICK x \in Sent : Starts(x)
      BY <1>1, <1>7, <2>2, BusyFrom DEF FlashBusy
    <3>2. x.command = "BEGIN"  BY <2>2, <3>1 DEF Starts
    <3> QED  BY <1>2, <1>7, <3>2, <1>0, OnErrors DEF Outstanding
  <2> QED  BY <2>1, <2>2
<1> QED  BY <1>0, <1>5, <1>6, <1>7

\* What a commit selects is the file, as long as ota_seq has not run out.
LEMMA CommitIsUpload ==
  ASSUME IInv, FrameInv, OtaWriteDone
  PROVE  Exhausted' \/ BootedImage' = upload.declared
<1>1. /\ pc = "otaWrite" /\ UNCHANGED <<slot, target_index>>
      /\ otadata' = Committed(otadata, target_index)
  BY DEF OtaWriteDone
<1>2. /\ update_active /\ FlashBusy /\ otadata \in Otadata
      /\ expected_sha256 = upload.declared
  BY <1>1 DEF IInv, TypeOK, CommitInv, FlashBusy, FrameInv
<1>3. CASE NextSeq(otadata, target_index) # Blank
  <2>1. BootIndex(otadata') = target_index /\ target_index \in Slots
    BY <1>1, <1>2, <1>3, EntryWritten, TargetNotSelected
  <2>2. BootedImage' = expected_sha256
    BY <1>1, <2>1, CommitsImage DEF BootedImage, ImageIn
  <2> QED  BY <1>2, <2>2
<1>4. CASE NextSeq(otadata, target_index) = Blank
  <2>1. PICK e \in Entries : e # NextEntry(otadata) /\ otadata[e] = SeqMax - 1
    BY <1>2, <1>4, TargetNotSelected, SequenceRunsOut
  <2>2. otadata'[e] = otadata[e]
    BY <1>1, <1>2, <2>1 DEF Committed, Otadata
  <2> QED  BY <2>1, <2>2 DEF Exhausted
<1> QED  BY <1>3, <1>4

\* What is selected stays so while flash does.
LEMMA SelectedStays ==
  ASSUME Selected, UNCHANGED <<flash, upload>>, pc' \in Over,
         \A y \in Sent' : y.command = "END"
  PROVE  Selected'
<1>1. UNCHANGED <<otadata, slot, upload>>  BY DEF flash
<1>2. BootedImage' = BootedImage  BY <1>1 DEF BootedImage
<1>3. Exhausted' <=> Exhausted  BY <1>1 DEF Exhausted
<1> QED  BY <1>1, <1>2, <1>3 DEF Selected, Over

\* A program that is told OK to its END has its image selected, until it ends.
LEMMA DoneRests ==
  ASSUME AnyFrames, UInv, WindowInv, FrameInv, LastInv, DoneInv, [UpgradeNext]_all, Rests
  PROVE  DoneInv'
<1>1. UNCHANGED <<phase, job, upload, host_sequence>>  BY DEF Rests, Awaits
<1>2. ASSUME job = "flash", phase \in {"END", "done"}, Selected
      PROVE  Selected'
  <2>1. pc \in Over /\ (\A x \in Sent : x.command = "END") /\ Outstanding = Sent
    BY <1>2 DEF Selected, Over, Outstanding, Pending, FlashBusy
  <2>2. UNCHANGED flash /\ pc' \in Over  BY <2>1, OverStays
  <2>3. ASSUME NEW y \in Sent'  PROVE y.command = "END"
    <3>1. Joins(y)  BY <2>3 DEF Rests, Outstanding
    <3>2. y = Host!Request(phase, host_sequence, host_offset) => y.command = phase
      BY DEF Host!Request
    <3> QED  BY <1>2, <2>1, <3>1, <3>2 DEF Joins, Commands
  <2> QED  BY <1>1, <1>2, <2>2, <2>3, SelectedStays
<1>3. ASSUME job = "flash", phase = "END", OkHeard'
      PROVE  Selected'
  <2>1. PICK a \in Heard' : Current(a)' /\ a.payload.status = "OK"
    BY <1>3 DEF OkHeard
  <2>2. Current(a)  BY <1>1, <2>1 DEF Current
  <2>3. CASE a \in Heard
    <3>1. Selected  BY <1>3, <2>1, <2>2, <2>3 DEF DoneInv, OkHeard
    <3> QED  BY <1>2, <1>3, <3>1
  <2>4. CASE Fresh(a)
    <3>1. PICK x \in Outstanding :
            Answers(a, x) /\ (x.command = "END" => OtaWriteDone /\ x = frame)
      BY <2>1, <2>4 DEF Fresh
    <3>2. OtaWriteDone /\ Current(frame) /\ a.command = "END"
      BY <1>3, <2>2, <3>1 DEF Answers, Current
    <3>3. pc = "otaWrite" /\ pc' = "reset" /\ frame \in Pending
      BY <3>2 DEF OtaWriteDone, Pending, FlashBusy
    <3>4. \A z \in Outstanding : z.command = "END"
      BY <1>3, <3>2, <3>3 DEF WindowInv, After, Current, Outstanding, Pending
    <3>5. ASSUME NEW y \in Sent'  PROVE y.command = "END"
      <4>1. Joins(y)  BY <3>5 DEF Rests, Outstanding
      <4>2. y = Host!Request(phase, host_sequence, host_offset) => y.command = phase
        BY DEF Host!Request
      <4> QED  BY <1>3, <3>4, <4>1, <4>2 DEF Joins
    <3>6. Exhausted' \/ BootedImage' = upload.declared
      BY <3>2, CommitIsUpload DEF UInv
    <3> QED  BY <1>1, <3>3, <3>5, <3>6 DEF Selected
  <2> QED  BY <2>1, <2>3, <2>4 DEF Rests, HostHears
<1>4. ASSUME job = "flash"
      PROVE  phase \notin {"BOOT", "other"} \cup Pausing
  BY <1>4 DEF DoneInv
<1>5. ASSUME job = "flash", phase = "done"
      PROVE  Selected'
  BY <1>2, <1>5 DEF DoneInv
<1> QED  BY <1>1, <1>3, <1>4, <1>5 DEF DoneInv

\* All of it together.
LEMMA RestsStep ==
  ASSUME AnyFrames, UInv, Inv, UInv', [UpgradeNext]_all, Rests, UNCHANGED selected
  PROVE  Inv'
<1>1. [Next]_vars  BY DeviceStep DEF UInv
<1>2. WindowInv' /\ UNCHANGED upload  BY DEF Rests, Awaits
<1>3. BehindInv'  BY BehindRests DEF Inv
<1>4. FrameInv'
  <2>1. \A y \in Outstanding' :
           y \in Outstanding \/ y.command # "BEGIN"
             \/ \E s, o : y = Host!Request("BEGIN", s, o)
    <3> SUFFICES ASSUME NEW y \in Outstanding', y.command = "BEGIN"
                 PROVE  y \in Outstanding \/ \E s, o : y = Host!Request("BEGIN", s, o)
      OBVIOUS
    <3>1. y = Host!Request(phase, host_sequence, host_offset) => phase = "BEGIN"
      BY DEF Host!Request
    <3> QED  BY <3>1 DEF Rests, Joins
  <2> QED  BY <1>1, <1>2, <2>1, FrameKept DEF Inv
<1>5. LastInv'  BY <1>1, LastInvStep DEF Inv, UInv
<1>6. StepInv'  BY StepRests DEF Inv, UInv, IInv
<1>7. ScenarioInv'  BY ScenarioRests DEF Inv
<1>8. ErrorsInv'  BY ErrorsRests DEF Inv
<1>9. SelectionInv'  BY SelectionRests DEF Inv
<1>10. DoneInv'  BY DoneRests DEF Inv
<1> QED
  BY <1>2, <1>3, <1>4, <1>5, <1>6, <1>7, <1>8, <1>9, <1>10 DEF Inv

\* --------------------------------------------------------- when the host goes on --
\* The host reads the response that it waits for.
Reads ==
  /\ phase \in Commands /\ to_host # <<>> /\ Current(Head(to_host))
  /\ Host!Returns

\* Then it has nothing to expect but repeats, and a HELLO out of a block.
LEMMA ReadsLeaves ==
  ASSUME UInv, WindowInv, Reads
  PROVE  /\ Head(to_host) \in Heard
         /\ \A x \in Outstanding : After(x)
         /\ \A a \in Heard' : a \in Heard /\ After(a)
<1>1. to_host \in Seq(Answer) /\ to_host # <<>> /\ Current(Head(to_host))
  BY DEF UInv, HostReady, Reads
<1>2. Len(to_host) \in Nat \ {0} /\ Head(to_host) = to_host[1]
  BY <1>1, TailIs
<1>3. 1 \in 1..Len(to_host) /\ Current(to_host[1])  BY <1>1, <1>2
<1>4. Head(to_host) \in Heard  BY <1>2, <1>3 DEF Heard
<1>5. \A x \in Outstanding : After(x)  BY <1>1, <1>4 DEF WindowInv
<1>6. PICK k \in 1..Len(to_host) : to_host' = SubSeq(to_host, k + 1, Len(to_host))
  BY DEF Reads, Host!Returns
<1>7. ASSUME NEW i \in 1..Len(to_host')
      PROVE  to_host'[i] \in Heard /\ After(to_host'[i])
  <2>1. /\ \A j \in 1..Len(to_host') : j + k \in 2..Len(to_host) /\ to_host'[j] = to_host[j + k]
    BY <1>1, <1>6, CutIs
  <2>2. i + k \in 1..Len(to_host) /\ 1 < i + k /\ to_host'[i] = to_host[i + k]
    BY <1>2, <2>1
  <2> QED  BY <1>3, <2>2 DEF WindowInv, Ordered, Heard
<1> QED  BY <1>4, <1>5, <1>7 DEF Heard

\* It goes on with request c: the same again in a scenario, the next, or HELLO.
Advances(c, s, o) ==
  /\ Reads /\ Host!Issue(c, s, o) /\ c \in Commands
  /\ UNCHANGED <<device, job, upload, selected, astray>>
  /\ IF c = "HELLO" THEN Host!Scripted /\ phase = "INFO" /\ s = 0
     ELSE \/ s = host_sequence /\ phase # "HELLO"
          \/ s = (host_sequence + 1) % SeqMod /\ Head(to_host).payload.status = "OK"
  /\ IF Host!Scripted
       THEN /\ step' = step + 1 /\ step' \in 1..Len(Host!Script)
            /\ Host!Script[step'].command = c /\ Host!Script[step'].seq = s
       ELSE /\ UNCHANGED step /\ phase # "END"
            /\ job = "flash" => c \notin {"BOOT", "other"}

\* What is on the line then.
LEMMA AdvancesLine ==
  ASSUME UInv, WindowInv, NEW c, NEW s, NEW o, Advances(c, s, o)
  PROVE  /\ Pending' = Pending
         /\ \A y \in Outstanding' : y \in Outstanding \/ y = Host!Request(c, s, o)
         /\ \A y \in Sent' : y \in Sent \/ y = Host!Request(c, s, o)
<1> DEFINE r == Host!Request(c, s, o)
<1>1. UNCHANGED <<pc, frame>>  BY DEF Advances, device, vars
<1>2. Pending' = Pending  BY <1>1 DEF Pending, FlashBusy
<1>3. to_device \in Seq(HostFrame) /\ to_device' = Append(to_device, r)
  BY DEF UInv, HostReady, Advances, Host!Issue
<1> HIDE DEF r
<1>4. ASSUME NEW i \in 1..Len(to_device')
      PROVE  to_device'[i] \in Sent \/ to_device'[i] = r
  <2>1. /\ Len(to_device) \in Nat /\ Len(to_device') = Len(to_device) + 1
        /\ \A n \in 1..(Len(to_device) + 1) :
             to_device'[n] = IF n <= Len(to_device) THEN to_device[n] ELSE r
    BY <1>3, AppendIs
  <2> QED  BY <2>1 DEF Sent
<1>5. \A y \in Sent' : y \in Sent \/ y = r  BY <1>4 DEF Sent
<1> QED  BY <1>2, <1>5 DEF Outstanding, r

\* Either the request is the same again, or nothing that is on its way is current.
LEMMA AdvancesCurrent ==
  ASSUME UInv, WindowInv, NEW c, NEW s, NEW o, Advances(c, s, o)
  PROVE  /\ \A x : x = Host!Request(c, s, o) => Current(x)'
         /\ \/ c = phase /\ s = host_sequence /\ \A x : Current(x)' <=> Current(x)
            \/ \A x : After(x) => ~Current(x)'
<1>1. phase' = c /\ host_sequence' = s /\ UNCHANGED astray
  BY DEF Advances, Host!Issue
<1>2. \A x : x = Host!Request(c, s, o) => Current(x)'
  BY <1>1 DEF Current, Host!Request
<1>3. CASE c = phase /\ s = host_sequence
  BY <1>1, <1>2, <1>3 DEF Current
<1>4. CASE ~(c = phase /\ s = host_sequence)
  <2>1. c = "HELLO" => phase # "DATA"  BY DEF Advances
  <2> QED  BY <1>1, <1>2, <1>4, <2>1 DEF Current, After
<1> QED  BY <1>3, <1>4

\* The window moves on with the request.
LEMMA AdvancesWindow ==
  ASSUME UInv, WindowInv, NEW c, NEW s, NEW o, Advances(c, s, o)
  PROVE  WindowInv'
<1> DEFINE r == Host!Request(c, s, o)
<1>1. /\ Pending' = Pending
      /\ \A y \in Outstanding' : y \in Outstanding \/ y = r
      /\ \A y \in Sent' : y \in Sent \/ y = r
  BY AdvancesLine
<1>2. /\ \A x : x = r => Current(x)'
      /\ \/ c = phase /\ s = host_sequence /\ \A x : Current(x)' <=> Current(x)
         \/ \A x : After(x) => ~Current(x)'
  BY AdvancesCurrent
<1>3. /\ \A x \in Outstanding : After(x)
      /\ \A a \in Heard' : After(a)
  BY ReadsLeaves DEF Advances
<1>4. /\ phase' = c /\ host_sequence' = s /\ UNCHANGED astray
      /\ to_device \in Seq(HostFrame) /\ to_device' = Append(to_device, r)
  BY DEF UInv, HostReady, Advances, Host!Issue
<1> HIDE DEF r
<1>5. CASE c = phase /\ s = host_sequence /\ \A x : Current(x)' <=> Current(x)
  <2>1. \A x : After(x) => After(x)'  BY <1>4, <1>5 DEF After
  <2>2. \A x : x = r => After(x)'  BY <1>2 DEF After
  <2>3. \A y \in Outstanding' : After(y)'  BY <1>1, <1>3, <2>1, <2>2
  <2>4. ASSUME NEW i \in 1..Len(to_device')  PROVE After(to_device[i])'
    <3> DEFINE y == to_device'[i]
    <3>1. y \in Outstanding'  BY DEF Outstanding, Sent
    <3> QED  BY <2>3, <3>1 DEF After, Current
  <2>5. ASSUME NEW i \in 1..Len(to_host')  PROVE After(to_host[i])'
    <3> DEFINE y == to_host'[i]
    <3>1. y \in Heard'  BY DEF Heard
    <3> QED  BY <1>3, <2>1, <3>1 DEF After, Current
  <2>6. Ordered(to_device)' /\ Ordered(to_host)'
    BY <2>4, <2>5 DEF Ordered, After, Current
  <2>7. \A y \in Sent' : After(y)'  BY <2>3 DEF Outstanding
  <2> QED  BY <2>3, <2>6, <2>7 DEF WindowInv
<1>6. CASE \A x : After(x) => ~Current(x)'
  <2>1. ASSUME NEW i \in 1..Len(to_device'), NEW j \in 1..Len(to_device'), i < j
        PROVE  ~Current(to_device[i])'
    <3>1. /\ Len(to_device) \in Nat /\ Len(to_device') = Len(to_device) + 1
          /\ \A n \in 1..(Len(to_device) + 1) :
               to_device'[n] = IF n <= Len(to_device) THEN to_device[n] ELSE r
      BY <1>4, AppendIs
    <3>2. i \in 1..Len(to_device) /\ to_device'[i] = to_device[i]  BY <2>1, <3>1
    <3>3. to_device[i] \in Outstanding  BY <3>2 DEF Outstanding, Sent
    <3>4. After(to_device[i])  BY <1>3, <3>3
    <3> QED  BY <1>6, <3>2, <3>4 DEF Current
  <2>2. Ordered(to_device)'  BY <2>1 DEF Ordered, Current, After
  <2>3. \A a \in Heard' : ~Current(a)'  BY <1>3, <1>6
  <2>4. Ordered(to_host)'  BY <2>3 DEF Ordered, Heard, Current, After
  <2>5. \A x \in Pending' : ~Current(x)'  BY <1>1, <1>3, <1>6 DEF Outstanding
  <2> QED  BY <2>2, <2>3, <2>4, <2>5 DEF WindowInv
<1> QED  BY <1>2, <1>5, <1>6

\* What the host waits for next has not been answered, unless it asks the same again.
LEMMA AdvancesHeard ==
  ASSUME UInv, WindowInv, NEW c, NEW s, NEW o, Advances(c, s, o), OkHeard'
  PROVE  OkHeard /\ c = phase /\ s = host_sequence
<1>1. PICK a \in Heard' : Current(a)' /\ a.payload.status = "OK"  BY DEF OkHeard
<1>2. a \in Heard /\ After(a)  BY ReadsLeaves DEF Advances
<1>3. \/ c = phase /\ s = host_sequence /\ \A x : Current(x)' <=> Current(x)
      \/ \A x : After(x) => ~Current(x)'
  BY AdvancesCurrent
<1>4. CASE c = phase /\ s = host_sequence /\ \A x : Current(x)' <=> Current(x)
  BY <1>1, <1>2, <1>4 DEF OkHeard
<1>5. CASE \A x : After(x) => ~Current(x)'  BY <1>1, <1>2, <1>5
<1> QED  BY <1>3, <1>4, <1>5

\* The request before falls behind.
LEMMA AdvancesBehind ==
  ASSUME UInv, WindowInv, NEW c, NEW s, NEW o, Advances(c, s, o)
  PROVE  BehindInv'
<1> DEFINE r == Host!Request(c, s, o)
<1>1. \A y \in Outstanding' : y \in Outstanding \/ y = r  BY AdvancesLine
<1>2. \A x : x = r => Current(x)'  BY AdvancesCurrent
<1>3. \A x \in Outstanding : After(x)  BY ReadsLeaves DEF Advances
<1>4. phase' = c /\ host_sequence' = s /\ UNCHANGED <<astray, job>> /\ c \in Commands
  BY DEF Advances, Host!Issue
<1> HIDE DEF r
<1>5. ASSUME c # "HELLO", NEW y \in Outstanding'
      PROVE  Behind(y)'
  <2>1. s = host_sequence \/ s = (host_sequence + 1) % SeqMod  BY <1>5 DEF Advances
  <2>2. CASE y = r  BY <1>2, <2>2 DEF Current, Behind
  <2>3. CASE y \in Outstanding
    <3>1. After(y)  BY <1>3, <2>3
    <3> QED  BY <1>4, <2>1, <3>1 DEF After, Current, Behind
  <2> QED  BY <1>1, <1>5, <2>2, <2>3
<1>6. ASSUME c = "HELLO", NEW y \in Outstanding'
      PROVE  Current(y)' \/ ((Host!Scripted)' /\ y.command \in {"INFO", "BOOT"})
  <2>1. Host!Scripted /\ phase = "INFO"  BY <1>6 DEF Advances
  <2>2. (Host!Scripted)'  BY <1>4, <2>1 DEF Host!Scripted
  <2>3. CASE y = r  BY <1>2, <2>3
  <2>4. CASE y \in Outstanding
    <3>1. After(y)  BY <1>3, <2>4
    <3> QED  BY <2>1, <2>2, <3>1 DEF After, Current
  <2> QED  BY <1>1, <1>6, <2>3, <2>4
<1>7. phase' # "settle"  BY <1>4 DEF Commands
<1> QED  BY <1>4, <1>5, <1>6, <1>7 DEF BehindInv

\* The device is just past the request before, which is at the new one.
LEMMA AdvancesStep ==
  ASSUME UInv, WindowInv, StepInv, NEW c, NEW s, NEW o, Advances(c, s, o)
  PROVE  StepInv'
<1>1. /\ phase' = c /\ host_sequence' = s /\ UNCHANGED <<astray, job>> /\ c \in Commands
      /\ UNCHANGED <<pc, expected_sequence, update_active>>
      /\ phase \in Commands
  BY DEF Advances, Reads, Host!Issue, device, vars, update, session
<1>2. /\ InSession' <=> InSession
      /\ Astray' <=> Astray
      /\ (Host!Scripted)' <=> Host!Scripted
  BY <1>1 DEF InSession, FlashBusy, Astray, Host!Scripted
<1>3. OkHeard' => OkHeard /\ c = phase /\ s = host_sequence  BY AdvancesHeard
<1>4. ASSUME InSession, c # "HELLO"
      PROVE  expected_sequence \in {s, (s + 1) % SeqMod} \/ Astray
  <2>1. CASE s = host_sequence /\ phase # "HELLO"
    BY <1>1, <1>4, <2>1 DEF StepInv
  <2>2. CASE s = (host_sequence + 1) % SeqMod /\ Head(to_host).payload.status = "OK"
    <3>1. Head(to_host) \in Heard  BY ReadsLeaves DEF Advances
    <3>2. OkHeard  BY <2>2, <3>1 DEF OkHeard, Advances, Reads
    <3> QED  BY <1>4, <2>2, <3>2 DEF StepInv
  <2> QED  BY <1>4, <2>1, <2>2 DEF Advances
<1>5. c = "HELLO" => Host!Scripted  BY DEF Advances
<1>6. OkHeard' /\ InSession' => expected_sequence' = (host_sequence' + 1) % SeqMod \/ Astray'
  BY <1>1, <1>2, <1>3 DEF StepInv
<1>7. OkHeard' /\ phase' = "ABORT" => ~update_active'
  BY <1>1, <1>3 DEF StepInv
<1> QED  BY <1>1, <1>2, <1>4, <1>5, <1>6, <1>7 DEF StepInv

\* What is on the line is of the instruction before and of this one.
LEMMA AdvancesScenario ==
  ASSUME UInv, WindowInv, ScenarioInv, NEW c, NEW s, NEW o, Advances(c, s, o)
  PROVE  ScenarioInv'
<1> DEFINE r == Host!Request(c, s, o)
<1>1. /\ phase' = c /\ host_sequence' = s /\ UNCHANGED <<astray, job, upload>>
      /\ phase \in Commands /\ c \in Commands
  BY DEF Advances, Reads, Host!Issue
<1>2. /\ Host!Script' = Host!Script /\ Host!Scripted' = Host!Scripted
      /\ Host!Fits(job, upload)' = Host!Fits(job, upload)
  BY <1>1, SameScript DEF Host!Fits
<1>3. step \in Nat /\ step' \in Nat  BY DEF ScenarioInv, Advances
<1>4. \A y \in Outstanding' : y \in Outstanding \/ y = r  BY AdvancesLine
<1>5. r.command = c /\ r.seq = s  BY DEF Host!Request
<1> HIDE DEF r
<1>6. ASSUME Host!Scripted
      PROVE  /\ Host!Fits(job, upload)
             /\ host_sequence' = Host!Script[step'].seq
             /\ \A y \in Outstanding' : OfScript(y)'
  <2>1. /\ step' = step + 1 /\ step' \in 1..Len(Host!Script)
        /\ Host!Script[step'].command = c /\ Host!Script[step'].seq = s
    BY <1>6 DEF Advances
  <2>2. /\ step \in 1..Len(Host!Script) /\ Host!Script[step].command = phase
        /\ Host!Script[step].seq = host_sequence
    BY <1>1, <1>6 DEF UInv, HostReady, HostInv, ScriptInv, ScenarioInv
  <2>3. ASSUME NEW y \in Outstanding'
        PROVE  OfScript(y)'
    <3>1. CASE y = r
      BY <1>2, <1>5, <2>1, <3>1 DEF OfScript
    <3>2. CASE y \in Outstanding
      <4>1. After(y)  BY <3>2, ReadsLeaves DEF Advances
      <4>2. step = step' - 1  BY <1>3, <2>1
      <4>3. Current(y) => OfScript(y)'
        BY <1>2, <2>2, <4>2 DEF Current, OfScript
      <4> QED  BY <1>1, <4>1, <4>3 DEF After, OfScript
    <3> QED  BY <1>4, <3>1, <3>2
  <2> QED  BY <1>1, <1>6, <2>1, <2>3 DEF ScenarioInv
<1> QED  BY <1>1, <1>2, <1>3, <1>6 DEF ScenarioInv

\* protocol-errors has its update given up when ABORT has been answered.
LEMMA AdvancesErrors ==
  ASSUME UInv, WindowInv, LastInv, StepInv, ScenarioInv, ErrorsInv,
         NEW c, NEW s, NEW o, Advances(c, s, o)
  PROVE  ErrorsInv'
<1> SUFFICES ASSUME job' = "protocol-errors"
             PROVE  /\ pc' = "write" => next_offset' = 0
                    /\ Written' =>
                         /\ step' >= 4 /\ next_offset' <= BlockLength
                         /\ expected_sequence' = 4 % SeqMod
                         /\ \A x \in Outstanding' : x.command \notin {"INFO", "BEGIN"}
                    /\ step' >= 9 => ~update_active' /\ pc' # "erase"
  BY DEF ErrorsInv
<1> DEFINE r == Host!Request(c, s, o)
<1>1. /\ UNCHANGED <<pc, frame, update_active, next_offset, expected_sequence>>
      /\ phase \in Commands /\ c \in Commands /\ job = "protocol-errors"
  BY DEF Advances, Reads, device, vars, update, session
<1>2. Host!Scripted /\ Host!Script = Host!ProtocolErrors
  BY <1>1 DEF Host!Scripted, Host!Scenarios, Host!Script
<1>3. /\ step \in Nat /\ step' = step + 1 /\ step' \in 1..12
      /\ Host!ProtocolErrors[step'].command = c /\ Host!ProtocolErrors[step'].seq = s
  BY <1>2, ErrorsIs DEF Advances, ScenarioInv
<1>4. /\ step \in 1..12 /\ Host!ProtocolErrors[step].command = phase
      /\ Host!ProtocolErrors[step].seq = host_sequence
  BY <1>1, <1>2, ErrorsIs DEF UInv, HostReady, HostInv, ScriptInv, ScenarioInv
<1>5. /\ pc = "write" => next_offset = 0
      /\ Written =>
           /\ step >= 4 /\ next_offset <= BlockLength
           /\ expected_sequence = 4 % SeqMod
           /\ \A x \in Outstanding : x.command \notin {"INFO", "BEGIN"}
      /\ step >= 9 => ~update_active /\ pc # "erase"
  BY <1>1 DEF ErrorsInv
<1>6. \A y \in Outstanding' : y \in Outstanding \/ y = r  BY AdvancesLine
<1>7. r.command = c  BY DEF Host!Request
<1> HIDE DEF r
<1>8. Written' <=> Written  BY <1>1 DEF Written
<1>9. ASSUME Written
      PROVE  c \notin {"INFO", "BEGIN"}
  <2>1. step' \in {5, 6, 7, 8, 9, 10, 11, 12}  BY <1>3, <1>5, <1>9
  <2>2. Host!ProtocolErrors[step'].command \notin {"INFO", "BEGIN"}
    <3>1. CASE step' \in {5, 6, 7, 8}  BY <3>1, ErrorsIs DEF Host!Try
    <3>2. CASE step' \in {9, 10, 11, 12}
      BY <3>2, ErrorsIs DEF Host!Try, Host!Call, Host!Rest
    <3> QED  BY <2>1, <3>1, <3>2
  <2> QED  BY <1>3, <2>2
<1>10. ASSUME step = 8
       PROVE  ~update_active /\ pc # "erase"
  <2>1. phase = "ABORT" /\ host_sequence = 4 % SeqMod
    BY <1>4, <1>10, ErrorsIs DEF Host!Try
  <2>2. c = "DATA" /\ s = 5 % SeqMod
    BY <1>3, <1>10, ErrorsIs DEF Host!Try
  <2>3. 4 % SeqMod # (4 + 1) % SeqMod  BY NextDiffers
  <2>4. s # host_sequence  BY <2>1, <2>2, <2>3
  <2>5. Head(to_host).payload.status = "OK"  BY <2>2, <2>4 DEF Advances
  <2>6. Head(to_host) \in Heard /\ Current(Head(to_host))
    BY ReadsLeaves DEF Advances, Reads
  <2>7. ~update_active  BY <2>1, <2>5, <2>6 DEF StepInv, OkHeard
  <2>8. ASSUME pc = "erase"  PROVE FALSE
    <3>1. frame \in Outstanding /\ frame.command = "BEGIN"
      BY <2>8 DEF LastInv, Outstanding, Pending, FlashBusy
    <3>2. After(frame)  BY <3>1, ReadsLeaves DEF Advances
    <3> QED  BY <2>1, <3>1, <3>2 DEF After, Current
  <2> QED  BY <2>7, <2>8
<1>11. step' >= 9 => step >= 9 \/ step = 8  BY <1>3
<1>12. Written => step' >= 4  BY <1>3, <1>5
<1> QED  BY <1>1, <1>5, <1>6, <1>7, <1>8, <1>9, <1>10, <1>11, <1>12

\* No END is left, and none has been answered but by the program's last.
LEMMA AdvancesSelection ==
  ASSUME UInv, WindowInv, SelectionInv, NEW c, NEW s, NEW o, Advances(c, s, o)
  PROVE  SelectionInv'
<1> DEFINE r == Host!Request(c, s, o)
<1>1. /\ phase' = c /\ UNCHANGED <<pc, otadata, selected, job>>
      /\ phase \in Commands
  BY DEF Advances, Reads, Host!Issue, device, vars, flash
<1>2. (Host!Scripted)' <=> Host!Scripted  BY <1>1 DEF Host!Scripted
<1>3. ~Host!Scripted => phase # "END"  BY DEF Advances
<1>4. \A y \in Outstanding' : y \in Outstanding \/ y = r  BY AdvancesLine
<1>5. r.command = c  BY DEF Host!Request
<1> HIDE DEF r
<1>6. ASSUME ~Host!Scripted, NEW y \in Outstanding', y.command = "END"
      PROVE  c = "END"
  <2>1. ASSUME y \in Outstanding  PROVE FALSE
    <3>1. After(y)  BY <2>1, ReadsLeaves DEF Advances
    <3> QED  BY <1>3, <1>6, <3>1 DEF After, Current
  <2> QED  BY <1>4, <1>5, <1>6, <2>1
<1>7. BootIndex(otadata) = selected
  BY <1>1, <1>3 DEF SelectionInv, Commands
<1> QED  BY <1>1, <1>2, <1>6, <1>7 DEF SelectionInv

\* A flash job goes on to END and has not been told OK to it yet.
LEMMA AdvancesDone ==
  ASSUME UInv, WindowInv, DoneInv, NEW c, NEW s, NEW o, Advances(c, s, o)
  PROVE  DoneInv'
<1> SUFFICES ASSUME job' = "flash"
             PROVE  /\ phase' \notin {"BOOT", "other"} \cup Pausing
                    /\ ~(phase' = "END" /\ OkHeard')
                    /\ phase' # "done"
  BY DEF DoneInv
<1>1. phase' = c /\ c \in Commands /\ job = "flash"
  BY DEF Advances, Host!Issue
<1>2. ~Host!Scripted  BY <1>1 DEF Host!Scripted, Host!Scenarios
<1>3. phase # "END" /\ c \notin {"BOOT", "other"}  BY <1>1, <1>2 DEF Advances
<1>4. OkHeard' => c = phase  BY AdvancesHeard
<1> QED  BY <1>1, <1>3, <1>4 DEF Commands, Pausing

\* All of it together.
LEMMA AdvancesInv ==
  ASSUME UInv, Inv, NEW c, NEW s, NEW o, Advances(c, s, o)
  PROVE  Inv'
<1>1. UNCHANGED vars /\ UNCHANGED upload  BY DEF Advances, device
<1>2. WindowInv'  BY AdvancesWindow DEF Inv
<1>3. BehindInv'  BY AdvancesBehind DEF Inv
<1>4. LastInv'  BY <1>1, LastInvStep DEF Inv, UInv
<1>5. FrameInv'
  <2>1. \A y \in Outstanding' :
           y \in Outstanding \/ y.command # "BEGIN"
             \/ \E t, p : y = Host!Request("BEGIN", t, p)
    <3> SUFFICES ASSUME NEW y \in Outstanding', y.command = "BEGIN", y \notin Outstanding
                 PROVE  \E t, p : y = Host!Request("BEGIN", t, p)
      OBVIOUS
    <3>1. y = Host!Request(c, s, o)  BY AdvancesLine DEF Inv
    <3>2. c = "BEGIN"  BY <3>1 DEF Host!Request
    <3> QED  BY <3>1, <3>2
  <2> QED  BY <1>1, <2>1, FrameKept DEF Inv
<1>6. StepInv'  BY AdvancesStep DEF Inv
<1>7. ScenarioInv'  BY AdvancesScenario DEF Inv
<1>8. ErrorsInv'  BY AdvancesErrors DEF Inv
<1>9. SelectionInv'  BY AdvancesSelection DEF Inv
<1>10. DoneInv'  BY AdvancesDone DEF Inv
<1> QED
  BY <1>2, <1>3, <1>4, <1>5, <1>6, <1>7, <1>8, <1>9, <1>10 DEF Inv

\* -------------------------------------------------- when the host rests or ends --
\* A host that waits for no response has none that is current.
LEMMA NoWindow == UInv /\ phase \notin Commands => WindowInv /\ StepInv
<1> SUFFICES ASSUME UInv, phase \notin Commands
             PROVE  WindowInv /\ StepInv
  OBVIOUS
<1>1. \A i \in 1..Len(to_device) : ~Current(to_device[i])
  <2> SUFFICES ASSUME NEW i \in 1..Len(to_device)
               PROVE  to_device[i].command \in Commands
    BY DEF Current
  <2>1. to_device \in Seq(HostFrame)  BY DEF UInv, HostReady
  <2>2. to_device[i] \in HostFrame  BY <2>1
  <2> QED  BY <2>2 DEF HostFrame, Frame
<1>2. \A i \in 1..Len(to_host) : ~Current(to_host[i])
  <2> SUFFICES ASSUME NEW i \in 1..Len(to_host)
               PROVE  to_host[i].command \in Commands
    BY DEF Current
  <2>1. to_host \in Seq(Answer)  BY DEF UInv, HostReady
  <2>2. to_host[i] \in Answer  BY <2>1
  <2> QED  BY <2>2 DEF Answer
<1>3. \A x \in Pending : ~Current(x)
  BY FrameType DEF UInv, Pending, Frame, Current
<1>4. \A a \in Heard : ~Current(a)  BY <1>2 DEF Heard
<1>5. ~OkHeard  BY <1>4 DEF OkHeard
<1> QED  BY <1>1, <1>2, <1>3, <1>4, <1>5 DEF WindowInv, Ordered, StepInv, Commands

\* Where a scenario is, and what its next instruction has to do with this one.
LEMMA ScriptNext ==
  ASSUME UInv, ScenarioInv, Host!Scripted, phase \in Commands \cup Pausing
  PROVE  /\ step \in 1..Len(Host!Script) /\ Len(Host!Script) \in Nat
         /\ Host!Script[step].command = phase
         /\ phase \in Commands => Host!Script[step].seq = host_sequence
         /\ phase \in Pausing => step # Len(Host!Script)
         /\ step # Len(Host!Script) =>
              /\ step + 1 \in 1..Len(Host!Script)
              /\ Host!Script[step + 1] \in Instruction
              /\ Follows(Host!Script[step], Host!Script[step + 1])
<1>1. Host!Script \in Seq(Instruction) /\ Host!Script[Len(Host!Script)].command = "HELLO"
  BY ScriptSound DEF UInv, HostReady, HostInv, Sound, Opens
<1>2. step \in 1..Len(Host!Script) /\ Host!Script[step].command = phase
  BY DEF UInv, HostReady, HostInv, ScriptInv
<1>3. phase \in Commands => Host!Script[step].seq = host_sequence  BY DEF ScenarioInv
<1>4. Linked(Host!Script)
  BY ScriptLinked DEF UInv, HostReady, HostInv, ScenarioInv
<1>5. Len(Host!Script) \in Nat  BY <1>1
<1>6. ASSUME step # Len(Host!Script)
      PROVE  /\ step + 1 \in 1..Len(Host!Script)
             /\ Host!Script[step + 1] \in Instruction
             /\ Follows(Host!Script[step], Host!Script[step + 1])
  <2>1. step \in 1..(Len(Host!Script) - 1) /\ step + 1 \in 1..Len(Host!Script)
    BY <1>2, <1>5, <1>6
  <2> QED  BY <1>1, <1>4, <2>1 DEF Linked
<1>7. phase \in Pausing => step # Len(Host!Script)  BY <1>1, <1>2 DEF Pausing
<1> QED  BY <1>2, <1>3, <1>5, <1>6, <1>7

\* What a device that idles does not do.
LEMMA IdlesKeeps ==
  ASSUME Idles
  PROVE  /\ Pending' = Pending /\ UNCHANGED <<otadata, slot, expected_sequence, frame>>
         /\ pc' \in {"erase", "write", "otaErase", "otaWrite"} => pc' = pc
         /\ update_active' => UNCHANGED update
         /\ next_offset' \in {0, next_offset}
BY DEF Idles, flash, session, update, Abandon, Pending, FlashBusy

\* A scenario goes from a request to a rest.
Pauses ==
  /\ Reads /\ Host!Scripted /\ phase' \in Pausing
  /\ UNCHANGED <<device, job, upload, host_sequence, to_device, selected, astray>>
  /\ step # Len(Host!Script)
  /\ step' = step + 1 /\ phase' = Host!Script[step + 1].command

\* All of it together.
LEMMA PausesInv ==
  ASSUME UInv, Inv, UInv', Pauses
  PROVE  Inv'
<1> USE DEF Inv
<1>1. /\ UNCHANGED vars /\ UNCHANGED <<pc, frame, otadata, update_active, next_offset,
                                       expected_sequence>>
      /\ Outstanding' = Outstanding
  BY DEF Pauses, device, vars, flash, update, session, Outstanding, Sent, Pending, FlashBusy
<1>2. phase \in Commands /\ phase' \in Pausing /\ phase' \notin Commands
  BY DEF Pauses, Reads, Pausing, Commands
<1>3. /\ step \in 1..Len(Host!Script) /\ step' \in 1..Len(Host!Script)
      /\ step \in Nat /\ step' \in Nat /\ step' = step + 1
      /\ Host!Script[step].command = phase /\ Host!Script[step].seq = host_sequence
      /\ Host!Script[step'].command = phase'
      /\ Follows(Host!Script[step], Host!Script[step'])
  BY <1>2, ScriptNext DEF Pauses, ScenarioInv
<1>4. \A x \in Outstanding : After(x)  BY ReadsLeaves DEF Pauses
<1>5. /\ Host!Script' = Host!Script /\ Host!Scripted' = Host!Scripted
      /\ Host!Fits(job, upload)' = Host!Fits(job, upload)
  BY SameScript DEF Pauses, Host!Fits
<1>6. phase' = "settle" => phase = "BOOT"
  BY <1>2, <1>3 DEF Follows, Commands
<1>7. WindowInv' /\ StepInv'
  <2>1. (phase \notin Commands)'  BY <1>2
  <2> QED  BY <2>1, NoWindow, PTL
<1>8. BehindInv'
  <2>1. phase' = "settle" => \A x \in Outstanding' : x.command = "BOOT"
    BY <1>1, <1>4, <1>6 DEF After, Current
  <2> QED  BY <1>2, <2>1 DEF BehindInv, Commands
<1>9. LastInv'  BY <1>1, LastInvStep DEF UInv
<1>10. FrameInv'  BY <1>1, FrameKept DEF Pauses
<1>11. ScenarioInv'
  <2>1. step = step' - 1  BY <1>3
  <2>2. ASSUME NEW x \in Outstanding'
        PROVE  OfScript(x)'
    <3>1. After(x)  BY <1>1, <1>4
    <3>2. Current(x) => OfScript(x)'
      BY <1>3, <1>5, <2>1 DEF Current, OfScript
    <3>3. x.command = "HELLO" /\ astray => OfScript(x)'  BY DEF OfScript, Pauses
    <3> QED  BY <3>1, <3>2, <3>3 DEF After
  <2> QED  BY <1>2, <1>3, <1>5, <2>2 DEF ScenarioInv
<1>12. ErrorsInv'
  <2>1. ASSUME job' = "protocol-errors"
        PROVE  step = 10
    <3>1. job = "protocol-errors" /\ Host!Script = Host!ProtocolErrors
      BY <2>1 DEF Pauses, Host!Script
    <3>2. step' \in {1, 2, 3, 4, 5, 6, 7, 8, 9, 10, 11, 12}
          /\ Host!ProtocolErrors[step'].command \in Pausing
      BY <1>2, <1>3, <3>1, ErrorsIs
    <3>3. CASE step' \in {1, 2, 3, 4, 5, 6}
      BY <3>2, <3>3, ErrorsIs DEF Host!Try, Host!Call, Pausing
    <3>4. CASE step' \in {7, 8, 9, 10, 12}
      BY <3>2, <3>4, ErrorsIs DEF Host!Try, Host!Call, Pausing
    <3> QED  BY <1>3, <3>2, <3>3, <3>4
  <2>2. Written' <=> Written  BY <1>1 DEF Written
  <2> QED  BY <1>1, <1>2, <1>3, <2>1, <2>2 DEF ErrorsInv, Pauses
<1>13. SelectionInv'
  <2>1. Host!Scripted /\ Host!Scripted'  BY <1>5 DEF Pauses
  <2> QED  BY <1>1, <2>1 DEF SelectionInv, Pauses
<1>14. DoneInv'
  <2>1. job' # "flash"  BY DEF Pauses, Host!Scripted, Host!Scenarios
  <2> QED  BY <2>1 DEF DoneInv
<1> QED
  BY <1>7, <1>8, <1>9, <1>10, <1>11, <1>12, <1>13, <1>14

\* A program ends: its scenario has passed, it has had its last response, or it
\* gives up.
Ends ==
  /\ phase \in Commands \cup Pausing
  /\ phase' \in {"done", "failed", "cancelled"}
  /\ UNCHANGED <<job, upload, host_sequence, to_device, selected, astray>>
  /\ Idles
  /\ \/ UNCHANGED step
     \/ Reads /\ Host!Scripted /\ step = Len(Host!Script) /\ step' = step + 1
  /\ phase = "END" /\ ~Host!Scripted => phase' # "cancelled"
  /\ phase' = "done" /\ job = "flash" =>
       OkHeard /\ phase \in {"END", "BOOT", "other"} /\ UNCHANGED pc

\* All of it together.
LEMMA EndsInv ==
  ASSUME UInv, Inv, UInv', [Next]_vars, Ends
  PROVE  Inv'
<1> USE DEF Inv
<1>1. /\ Pending' = Pending /\ UNCHANGED <<otadata, slot, expected_sequence, frame>>
      /\ pc' \in {"erase", "write", "otaErase", "otaWrite"} => pc' = pc
      /\ update_active' => UNCHANGED update
      /\ next_offset' \in {0, next_offset}
  BY IdlesKeeps DEF Ends
<1>2. Outstanding' = Outstanding /\ Sent' = Sent
  BY <1>1 DEF Ends, Outstanding, Sent
<1>3. phase' \notin Commands \cup Pausing /\ phase' \in {"done", "failed", "cancelled"}
  BY DEF Ends, Commands, Pausing
<1>4. /\ Host!Script' = Host!Script /\ Host!Scripted' = Host!Scripted
      /\ Host!Fits(job, upload)' = Host!Fits(job, upload)
  BY SameScript DEF Ends, Host!Fits
<1>5. step \in Nat /\ step' \in Nat  BY DEF Ends, ScenarioInv
<1>6. WindowInv' /\ StepInv'
  <2>1. (phase \notin Commands)'  BY <1>3
  <2> QED  BY <2>1, NoWindow, PTL
<1>7. BehindInv'  BY <1>3 DEF BehindInv, Commands
<1>8. LastInv'  BY LastInvStep DEF UInv
<1>9. FrameInv'  BY <1>2, FrameKept DEF Ends
<1>10. ScenarioInv'
  <2>1. ASSUME Host!Scripted, NEW x \in Outstanding'
        PROVE  OfScript(x)'
    <3>1. x \in Outstanding /\ OfScript(x)  BY <1>2, <2>1 DEF ScenarioInv
    <3>2. CASE UNCHANGED step
      BY <1>4, <3>1, <3>2 DEF OfScript, Ends
    <3>3. CASE Reads /\ step = Len(Host!Script) /\ step' = step + 1
      <4>1. After(x)  BY <3>1, <3>3, ReadsLeaves
      <4>2. /\ step \in 1..Len(Host!Script) /\ Host!Script[step].command = phase
            /\ Host!Script[step].seq = host_sequence
        BY <2>1, <3>3, ScriptNext DEF Reads
      <4>3. step = step' - 1  BY <1>5, <3>3
      <4>4. Current(x) => OfScript(x)'
        BY <1>4, <4>2, <4>3 DEF Current, OfScript
      <4>5. x.command = "HELLO" /\ astray => OfScript(x)'  BY DEF OfScript, Ends
      <4> QED  BY <4>1, <4>4, <4>5 DEF After
    <3> QED  BY <3>2, <3>3 DEF Ends
  <2> QED  BY <1>3, <1>4, <1>5, <2>1 DEF ScenarioInv
<1>11. ErrorsInv'
  <2> SUFFICES ASSUME job' = "protocol-errors", step' >= 5
               PROVE  /\ pc' = "write" => next_offset' = 0
                      /\ Written' =>
                           /\ step' >= 4 /\ next_offset' <= BlockLength
                           /\ expected_sequence' = 4 % SeqMod
                           /\ \A x \in Outstanding' : x.command \notin {"INFO", "BEGIN"}
                      /\ step' >= 9 => ~update_active' /\ pc' # "erase"
    BY <1>3, <1>5 DEF ErrorsInv
  <2>1. job = "protocol-errors"  BY DEF Ends
  <2>2. \/ UNCHANGED step
        \/ step = 12 /\ phase \in Commands
    <3>1. Host!Scripted => Host!Script = Host!ProtocolErrors  BY <2>1 DEF Host!Script
    <3> QED  BY <3>1, ErrorsIs DEF Ends, Reads
  <2>3. phase \in Commands \/ step >= 5  BY <2>2
  <2>4. step' >= 9 => step >= 9  BY <1>5, <2>2
  <2>5. /\ pc = "write" => next_offset = 0
        /\ Written =>
             /\ step >= 4 /\ next_offset <= BlockLength
             /\ expected_sequence = 4 % SeqMod
             /\ \A x \in Outstanding : x.command \notin {"INFO", "BEGIN"}
        /\ step >= 9 => ~update_active /\ pc # "erase"
    BY <2>1, <2>3 DEF ErrorsInv
  <2>6. /\ Written' => Written /\ UNCHANGED next_offset
        /\ update_active' => update_active
    BY <1>1 DEF Written, update
  <2>7. step' >= 4  BY <1>5
  <2> QED  BY <1>1, <1>2, <2>4, <2>5, <2>6, <2>7
<1>12. SelectionInv'
  <2>1. ~Host!Scripted /\ phase \in {"END", "done", "failed"} => phase' \in {"done", "failed"}
    BY <1>3 DEF Ends, Commands, Pausing
  <2>2. UNCHANGED selected  BY DEF Ends
  <2> QED  BY <1>1, <1>2, <1>4, <2>1, <2>2 DEF SelectionInv
<1>13. DoneInv'
  <2>1. ASSUME job' = "flash", phase' = "done"
        PROVE  Selected'
    <3>1. OkHeard /\ phase \in {"END", "BOOT", "other"} /\ UNCHANGED pc /\ job = "flash"
      BY <2>1 DEF Ends
    <3>2. Selected  BY <3>1 DEF DoneInv
    <3>3. pc' \in Over /\ UNCHANGED <<flash, upload>>
      BY <1>1, <3>1, <3>2 DEF Selected, Over, flash, Ends
    <3>4. \A y \in Sent' : y.command = "END"  BY <1>2, <3>2 DEF Selected
    <3> QED  BY <3>2, <3>3, <3>4, SelectedStays
  <2>2. phase' \notin {"BOOT", "other"} \cup Pausing /\ phase' # "END"
    BY <1>3 DEF Commands
  <2> QED  BY <2>1, <2>2 DEF DoneInv
<1> QED
  BY <1>6, <1>7, <1>8, <1>9, <1>10, <1>11, <1>12, <1>13

\* ------------------------------------------------- when the host starts afresh --
\* A device that has been reset has nothing under way.
LEMMA PowerLossIs ==
  ASSUME PowerLoss
  PROVE  /\ pc' = "start" /\ ~update_active' /\ ~Written' /\ Pending' = {} /\ ~InSession'
BY DEF PowerLoss, Forget, Abandon, Written, Pending, InSession, FlashBusy

\* A HELLO is the only request on the line.
Greets ==
  /\ PowerLoss /\ phase' = "HELLO" /\ host_sequence' = 0
  /\ to_device' = <<Host!Request("HELLO", 0, 0)>>
  /\ to_host' = <<>> \/ to_host' = <<to_host[Len(to_host)]>>

\* It is current, and all that is on its way.
LEMMA GreetsLine ==
  ASSUME Greets
  PROVE  /\ \A x \in Outstanding' : x.command = "HELLO" /\ x.seq = 0 /\ Current(x)'
         /\ WindowInv' /\ BehindInv' /\ StepInv'
<1> DEFINE r == Host!Request("HELLO", 0, 0)
<1>1. r.command = "HELLO" /\ r.seq = 0  BY DEF Host!Request
<1>2. \A x : x = r => Current(x)'  BY <1>1 DEF Greets, Current
<1>3. to_device' = <<r>>  BY DEF Greets
<1> HIDE DEF r
<1>4. Sent' = {r}  BY <1>3 DEF Sent
<1>5. Pending' = {} /\ ~InSession'  BY PowerLossIs DEF Greets
<1>6. Outstanding' = {r}  BY <1>4, <1>5 DEF Outstanding
<1>7. Ordered(to_device)'  BY <1>3 DEF Ordered
<1>8. Ordered(to_host)'
  <2>1. CASE to_host' = <<>>  BY <2>1 DEF Ordered
  <2>2. CASE to_host' = <<to_host[Len(to_host)]>>
    <3>1. Len(to_host') = 1  BY <2>2
    <3> QED  BY <3>1 DEF Ordered
  <2> QED  BY <2>1, <2>2 DEF Greets
<1>9. \A x \in Outstanding' : Current(x)'  BY <1>2, <1>6
<1>10. WindowInv'  BY <1>5, <1>7, <1>8, <1>9 DEF WindowInv, After
<1>11. BehindInv'  BY <1>9 DEF BehindInv, Greets
<1>12. StepInv'  BY <1>5 DEF StepInv, Greets
<1> QED  BY <1>1, <1>6, <1>9, <1>10, <1>11, <1>12

\* The program starts.
LEMMA HostOpensInv ==
  ASSUME UInv, Inv, UInv', [Next]_vars, HostOpens
  PROVE  Inv'
<1> USE DEF Inv
<1>1. PICK j \in Jobs, u \in Uploads : Host!Launch(j, u)  BY DEF HostOpens
<1>2. /\ PowerLoss /\ selected' = BootIndex(otadata')
      /\ job' = j /\ upload' = u /\ Host!Fits(j, u)
      /\ step' = IF j \in Host!Scenarios THEN 1 ELSE 0
      /\ Greets
  <2>1. Host!Request("HELLO", 0, 0)' = Host!Request("HELLO", 0, 0)
    BY DEF Host!Request
  <2> QED  BY <1>1, <2>1 DEF HostOpens, Host!Launch, Host!Open, Greets
<1>3. /\ \A x \in Outstanding' : x.command = "HELLO" /\ x.seq = 0
      /\ WindowInv' /\ BehindInv' /\ StepInv'
  BY <1>2, GreetsLine
<1>4. /\ pc' = "start" /\ ~update_active' /\ ~Written'
  BY <1>2, PowerLossIs
<1>5. phase' = "HELLO" /\ host_sequence' = 0  BY <1>2 DEF Greets
<1>6. LastInv'  BY LastInvStep DEF UInv
<1>7. FrameInv'  BY <1>3, <1>4 DEF FrameInv
<1>8. ScenarioInv'
  <2>1. step' \in Nat  BY <1>2
  <2>2. Host!Fits(job, upload)'  BY <1>2 DEF Host!Fits
  <2>3. ASSUME Host!Scripted'
        PROVE  /\ step' = 1 /\ step' \in 1..Len(Host!Script')
               /\ Host!Script'[step'].command = "HELLO" /\ Host!Script'[step'].seq = 0
    <3>1. step' = 1  BY <1>2, <2>3 DEF Host!Scripted
    <3>2. step' \in 1..Len(Host!Script') /\ Host!Script'[step'].command = "HELLO"
      <4>1. (Host!Scripted /\ phase \in Commands \cup Pausing =>
               step \in 1..Len(Host!Script) /\ Host!Script[step].command = phase)'
        BY DEF UInv, HostReady, HostInv, ScriptInv
      <4> QED  BY <1>5, <2>3, <4>1 DEF Commands
    <3>3. (UploadType /\ Host!Scripted /\ Host!Fits(job, upload))'
      BY <2>2, <2>3 DEF UInv, HostReady, HostInv
    <3>4. (Linked(Host!Script) /\ Host!Script[1].seq = 0)'
      BY <3>3, ScriptLinked, PTL
    <3> QED  BY <3>1, <3>2, <3>4
  <2>4. ASSUME Host!Scripted', NEW x \in Outstanding'
        PROVE  OfScript(x)'
    BY <1>3, <2>3, <2>4 DEF OfScript
  <2> QED  BY <1>5, <2>1, <2>2, <2>3, <2>4 DEF ScenarioInv
<1>9. ErrorsInv'  BY <1>4 DEF ErrorsInv
<1>10. SelectionInv'
  BY <1>2, <1>3, <1>4 DEF SelectionInv
<1>11. DoneInv'  BY <1>5 DEF DoneInv, Pausing
<1> QED
  BY <1>3, <1>6, <1>7, <1>8, <1>9, <1>10, <1>11

\* A scenario pulses the reset line.
LEMMA HostResetsInv ==
  ASSUME UInv, Inv, UInv', [Next]_vars, HostResets
  PROVE  Inv'
<1> USE DEF Inv
<1>1. /\ PowerLoss /\ phase = "reset" /\ to_host' = <<>>
      /\ UNCHANGED <<job, upload, selected, astray>> /\ step' = step + 1
      /\ phase' = Host!Script[step + 1].command
  BY DEF HostResets, Host!Pulse, budget
<1>2. Host!Scripted /\ phase \in Pausing
  BY <1>1 DEF UInv, HostReady, HostInv, ScriptInv, Pausing
<1>3. /\ step \in Nat /\ step' \in Nat /\ step' \in 1..Len(Host!Script)
      /\ Host!Script[step].command = "reset"
      /\ Host!Script[step'].command = phase'
      /\ Follows(Host!Script[step], Host!Script[step'])
  BY <1>1, <1>2, ScriptNext DEF ScenarioInv
<1>4. phase' \in {"HELLO", "settle"}  BY <1>3 DEF Follows
<1>5. /\ Host!Script' = Host!Script /\ Host!Scripted' = Host!Scripted
      /\ Host!Fits(job, upload)' = Host!Fits(job, upload)
  BY <1>1, SameScript DEF Host!Fits
<1>6. pc' = "start" /\ ~update_active' /\ ~Written' /\ Pending' = {} /\ ~InSession'
  BY <1>1, PowerLossIs
<1>7. phase' = "HELLO" => Greets
  BY <1>1 DEF HostResets, Host!Pulse, Greets
<1>8. phase' # "HELLO" => Outstanding' = {}
  BY <1>1, <1>6 DEF HostResets, Host!Pulse, Outstanding, Sent
<1>9. /\ \A x \in Outstanding' : x.command = "HELLO" /\ x.seq = 0
      /\ WindowInv' /\ BehindInv' /\ StepInv'
  <2>1. CASE phase' = "HELLO"  BY <1>7, <2>1, GreetsLine
  <2>2. CASE phase' = "settle"
    <3>1. (phase \notin Commands)'  BY <2>2 DEF Commands
    <3>2. WindowInv' /\ StepInv'  BY <3>1, NoWindow, PTL
    <3>3. BehindInv'  BY <1>8, <2>2 DEF BehindInv, Commands
    <3> QED  BY <1>8, <2>2, <3>2, <3>3
  <2> QED  BY <1>4, <2>1, <2>2
<1>10. LastInv'  BY LastInvStep DEF UInv
<1>11. FrameInv'  BY <1>6, <1>9 DEF FrameInv
<1>12. ScenarioInv'
  <2>1. phase' \in Commands => host_sequence' = 0 /\ Host!Script[step'].seq = 0
    <3>1. phase' = "HELLO" => Host!Script[step'].seq = 0  BY <1>3 DEF Follows
    <3> QED  BY <1>4, <1>7, <3>1 DEF Greets, Commands
  <2>2. ASSUME NEW x \in Outstanding'
        PROVE  OfScript(x)'
    <3>1. phase' = "HELLO"  BY <1>8
    <3>2. x.command = "HELLO" /\ x.seq = 0  BY <1>9
    <3>3. Host!Script[step'].seq = 0  BY <2>1, <3>1 DEF Commands
    <3> QED  BY <1>3, <1>5, <3>1, <3>2, <3>3 DEF OfScript
  <2> QED  BY <1>2, <1>3, <1>5, <2>1, <2>2 DEF ScenarioInv
<1>13. ErrorsInv'  BY <1>6 DEF ErrorsInv
<1>14. SelectionInv'
  <2>1. BootIndex(otadata') = BootIndex(otadata)  BY <1>2, SelectionStays
  <2> QED  BY <1>1, <1>2, <1>5, <1>6, <2>1 DEF SelectionInv
<1>15. DoneInv'
  <2>1. job' # "flash"  BY <1>1, <1>2 DEF Host!Scripted, Host!Scenarios
  <2> QED  BY <2>1 DEF DoneInv
<1> QED
  BY <1>9, <1>10, <1>11, <1>12, <1>13, <1>14, <1>15

\* A scenario has rested, and says HELLO on a line that it has not emptied.
LEMMA WakesInv ==
  ASSUME UInv, Inv, UInv', [Next]_vars, Host!Wake, Idles, UNCHANGED <<selected, astray>>
  PROVE  Inv'
<1> USE DEF Inv
<1>1. Host!Scripted /\ phase \in Pausing /\ phase = "settle"
  BY DEF Host!Wake, UInv, HostReady, HostInv, ScriptInv, Pausing
<1>2. /\ step \in 1..Len(Host!Script) /\ step # Len(Host!Script) /\ step \in Nat
      /\ step + 1 \in 1..Len(Host!Script)
      /\ Host!Script[step].command = "settle"
      /\ Follows(Host!Script[step], Host!Script[step + 1])
  BY <1>1, ScriptNext DEF ScenarioInv
<1> DEFINE i == Host!Script[step + 1]
<1>3. i.command = "HELLO" /\ i.seq = 0  BY <1>2 DEF Follows
<1>4. /\ Host!Issue("HELLO", 0, i.at) /\ step' = step + 1 /\ to_host' = <<>>
      /\ UNCHANGED <<job, upload>>
  BY <1>2, <1>3 DEF Host!Wake, Host!NextStep, Host!Commands
<1> DEFINE r == Host!Request("HELLO", 0, i.at)
<1>5. /\ phase' = "HELLO" /\ host_sequence' = 0 /\ to_device' = Append(to_device, r)
      /\ r.command = "HELLO" /\ r.seq = 0
  BY <1>4 DEF Host!Issue, Host!Request
<1> HIDE DEF r
<1>6. /\ Host!Script' = Host!Script /\ Host!Scripted' = Host!Scripted
      /\ Host!Fits(job, upload)' = Host!Fits(job, upload)
  BY <1>4, SameScript DEF Host!Fits
<1>7. /\ Pending' = Pending /\ UNCHANGED <<otadata, slot, expected_sequence, frame>>
      /\ pc' \in {"erase", "write", "otaErase", "otaWrite"} => pc' = pc
      /\ update_active' => UNCHANGED update
      /\ next_offset' \in {0, next_offset}
  BY IdlesKeeps
<1>8. /\ Len(to_device) \in Nat /\ Len(to_device') = Len(to_device) + 1
      /\ \A n \in 1..(Len(to_device) + 1) :
           to_device'[n] = IF n <= Len(to_device) THEN to_device[n] ELSE r
  <2>1. to_device \in Seq(HostFrame)  BY DEF UInv, HostReady
  <2> QED  BY <1>5, <2>1, AppendIs
<1>9. \A y \in Sent' : y \in Sent \/ y = r
  BY <1>8 DEF Sent
<1>10. \A y \in Outstanding' : y \in Outstanding \/ y = r
  BY <1>7, <1>9 DEF Outstanding
<1>11. \A x \in Outstanding : x.command = "BOOT"  BY <1>1 DEF BehindInv
<1>12. Heard' = {}  BY <1>4 DEF Heard
<1>13. \A x \in Outstanding : ~Current(x)'  BY <1>5, <1>11 DEF Current
<1>14. \A x : x = r => Current(x)'  BY <1>5 DEF Current
<1>15. WindowInv'
  <2>1. ASSUME NEW m \in 1..Len(to_device'), NEW n \in 1..Len(to_device'), m < n
        PROVE  ~Current(to_device[m])'
    <3>1. m \in 1..Len(to_device) /\ to_device'[m] = to_device[m]  BY <1>8, <2>1
    <3>2. to_device[m] \in Outstanding  BY <3>1 DEF Outstanding, Sent
    <3> QED  BY <1>13, <3>1, <3>2 DEF Current
  <2>2. Ordered(to_device)'  BY <2>1 DEF Ordered, Current, After
  <2>3. Ordered(to_host)'  BY <1>4 DEF Ordered
  <2>4. \A x \in Pending' : ~Current(x)'  BY <1>7, <1>13 DEF Outstanding
  <2> QED  BY <1>12, <2>2, <2>3, <2>4 DEF WindowInv
<1>16. BehindInv'
  <2>1. \A y \in Outstanding' : Current(y)' \/ ((Host!Scripted)' /\ y.command \in {"INFO", "BOOT"})
    BY <1>1, <1>6, <1>10, <1>11, <1>14
  <2> QED  BY <1>5, <2>1 DEF BehindInv
<1>17. LastInv'  BY LastInvStep DEF UInv
<1>18. FrameInv'
  <2>1. \A y \in Outstanding' : y \in Outstanding \/ y.command # "BEGIN"
    BY <1>5, <1>10
  <2> QED  BY <1>4, <2>1, FrameKept
<1>19. StepInv'
  <2>1. ~OkHeard'  BY <1>12 DEF OkHeard
  <2> QED  BY <1>1, <1>5, <1>6, <2>1 DEF StepInv
<1>20. ScenarioInv'
  <2>1. ASSUME NEW y \in Outstanding'
        PROVE  OfScript(y)'
    <3>1. CASE y = r
      BY <1>2, <1>3, <1>4, <1>5, <1>6, <3>1 DEF OfScript
    <3>2. CASE y \in Outstanding
      <4>1. step' \in 1..Len(Host!Script') /\ Host!Script'[step'].command = "HELLO"
        BY <1>2, <1>3, <1>4, <1>6
      <4> QED  BY <1>11, <3>2, <4>1 DEF OfScript
    <3> QED  BY <1>10, <3>1, <3>2
  <2>2. host_sequence' = Host!Script'[step'].seq  BY <1>3, <1>4, <1>5, <1>6
  <2> QED  BY <1>1, <1>2, <1>4, <1>6, <2>1, <2>2 DEF ScenarioInv
<1>21. ErrorsInv'
  <2>1. ASSUME job' = "protocol-errors"
        PROVE  step = 11
    <3>1. Host!Script = Host!ProtocolErrors  BY <1>4, <2>1 DEF Host!Script
    <3>2. step \in {1, 2, 3, 4, 5, 6, 7, 8, 9, 10, 11, 12}
          /\ Host!ProtocolErrors[step].command = "settle"
      BY <1>2, <3>1, ErrorsIs
    <3>3. CASE step \in {1, 2, 3, 4, 5, 6}
      BY <3>2, <3>3, ErrorsIs DEF Host!Try, Host!Call
    <3>4. CASE step \in {7, 8, 9, 10, 12}
      BY <3>2, <3>4, ErrorsIs DEF Host!Try, Host!Call
    <3> QED  BY <3>2, <3>3, <3>4
  <2>2. ASSUME job' = "protocol-errors"
        PROVE  /\ pc' = "write" => next_offset' = 0
               /\ ~update_active' /\ ~Written' /\ pc' # "erase"
    <3>1. step = 11 /\ job = "protocol-errors"  BY <1>4, <2>1, <2>2
    <3>2. ~update_active /\ pc # "erase" /\ (pc = "write" => next_offset = 0)
      BY <3>1 DEF ErrorsInv
    <3> QED  BY <1>7, <3>2 DEF Written, update
  <2> QED  BY <2>2 DEF ErrorsInv
<1>22. SelectionInv'
  BY <1>1, <1>6, <1>7 DEF SelectionInv
<1>23. DoneInv'
  <2>1. job' # "flash"  BY <1>1, <1>4 DEF Host!Scripted, Host!Scenarios
  <2> QED  BY <2>1 DEF DoneInv
<1> QED
  BY <1>15, <1>16, <1>17, <1>18, <1>19, <1>20, <1>21, <1>22, <1>23

\* ------------------------------------------------------- the steps of the host --
\* A response that a scenario has expected is followed by the next instruction.
LEMMA PassInv ==
  ASSUME UInv, Inv, UInv', [Next]_vars, Host!Pass, UNCHANGED <<device, selected, astray>>
  PROVE  Inv'
<1> USE DEF Inv
<1>1. /\ Reads /\ Host!Scripted /\ phase \in Commands
      /\ Host!Expected(Head(to_host)) /\ Host!NextStep /\ UNCHANGED <<job, upload>>
  BY DEF Host!Pass, Reads, Host!Waiting, Host!Commands, Commands, Host!Matching, Current,
    Host!NextStep
<1>2. /\ step \in 1..Len(Host!Script) /\ step' = step + 1
      /\ Host!Script[step].command = phase /\ Host!Script[step].seq = host_sequence
      /\ step # Len(Host!Script) =>
           /\ step + 1 \in 1..Len(Host!Script)
           /\ Host!Script[step + 1] \in Instruction
           /\ Follows(Host!Script[step], Host!Script[step + 1])
  BY <1>1, ScriptNext DEF Host!NextStep
<1>3. CASE step = Len(Host!Script)
  <2>1. Host!Finish("done")  BY <1>3 DEF Host!Pass, Host!NextStep
  <2>2. job # "flash"  BY <1>1 DEF Host!Scripted, Host!Scenarios
  <2>3. Idles  BY IdlesIs
  <2>4. Ends
    BY <1>1, <1>2, <1>3, <2>1, <2>2, <2>3 DEF Ends, Host!Finish
  <2> QED  BY <2>4, EndsInv
<1>4. CASE step # Len(Host!Script) /\ Host!Script[step + 1].command \in Commands
  <2> DEFINE i == Host!Script[step + 1]
  <2>1. Host!Issue(i.command, i.seq, i.at)
    BY <1>4 DEF Host!Pass, Host!NextStep, Host!Commands, Commands
  <2>2. Follows(Host!Script[step], i)  BY <1>2, <1>4
  <2>3. Host!Script[step].status = Head(to_host).payload.status
    BY <1>1 DEF Host!Expected
  <2>4. IF i.command = "HELLO" THEN phase = "INFO" /\ i.seq = 0
        ELSE \/ i.seq = host_sequence /\ phase # "HELLO"
             \/ i.seq = (host_sequence + 1) % SeqMod /\ Head(to_host).payload.status = "OK"
    BY <1>1, <1>2, <1>4, <2>2, <2>3 DEF Follows
  <2>5. Advances(i.command, i.seq, i.at)
    BY <1>1, <1>2, <1>4, <2>1, <2>4 DEF Advances
  <2> HIDE DEF i
  <2> QED  BY <2>5, AdvancesInv
<1>5. CASE step # Len(Host!Script) /\ Host!Script[step + 1].command \notin Commands
  <2>1. Host!Script[step + 1].command \in Pausing
    BY <1>2, <1>5 DEF Instruction, Pausing
  <2>2. /\ phase' = Host!Script[step + 1].command
        /\ UNCHANGED <<host_sequence, to_device>>
    BY <1>5 DEF Host!Pass, Host!NextStep, Host!Commands, Commands
  <2>3. Pauses  BY <1>1, <1>2, <1>5, <2>1, <2>2 DEF Pauses
  <2> QED  BY <2>3, PausesInv
<1> QED  BY <1>3, <1>4, <1>5

\* A response that the program accepts is followed by its next request, or is its last.
LEMMA ProceedInv ==
  ASSUME UInv, Inv, UInv', [Next]_vars, ~Host!Scripted, Host!Proceed \/ Host!Cancel,
         UNCHANGED <<device, step, selected, astray>>
  PROVE  Inv'
<1> USE DEF Inv
<1>1. /\ Reads /\ phase \in Commands /\ UNCHANGED <<job, upload>>
      /\ Head(to_host).payload.status = "OK"
  BY DEF Host!Proceed, Host!Cancel, Reads, Host!Waiting, Host!Commands, Commands,
    Host!Matching, Current, Host!Accepted
<1>2. Head(to_host) \in Heard /\ Current(Head(to_host)) /\ OkHeard
  BY <1>1, ReadsLeaves DEF Reads, OkHeard
<1> DEFINE o == Head(to_host).payload.offset
           c == Host!CommandAfter(o)
           n == (host_sequence + 1) % SeqMod
<1>3. CASE Host!Cancel
  <2>1. Host!Issue("ABORT", n, o) /\ phase \in {"BEGIN", "DATA"}
    BY <1>3 DEF Host!Cancel, Host!CancelPoints
  <2>2. Advances("ABORT", n, o)
    BY <1>1, <2>1 DEF Advances, Commands
  <2> HIDE DEF n, o
  <2> QED  BY <2>2, AdvancesInv
<1>4. CASE Host!Proceed
  <2>1. /\ c \in {"BOOT", "INFO", "BEGIN", "DATA", "END", "done", "cancelled"}
        /\ c = "BOOT" => job = "boot"
        /\ c = "done" /\ job = "flash" => phase \in {"END", "BOOT", "other"}
        /\ phase = "END" => c = "done"
    BY <1>1 DEF Host!CommandAfter, Commands
  <2> HIDE DEF c
  <2>2. \/ c \in {"done", "cancelled"} /\ Host!Finish(c)
        \/ Host!Finish("failed")
        \/ c \in Commands /\ Host!Issue(c, n, o)
    BY <1>4, <2>1 DEF Host!Proceed, Host!Outcomes, Commands, o, c, n
  <2>3. CASE c \in {"done", "cancelled"} /\ Host!Finish(c)
    <3>1. Idles  BY IdlesIs
    <3>2. UNCHANGED pc  BY DEF device, vars
    <3>3. Ends
      BY <1>1, <1>2, <2>1, <2>3, <3>1, <3>2 DEF Ends, Host!Finish
    <3> QED  BY <3>3, EndsInv
  <2>4. CASE Host!Finish("failed")
    <3>1. Idles  BY IdlesIs
    <3>2. Ends  BY <1>1, <2>4, <3>1 DEF Ends, Host!Finish
    <3> QED  BY <3>2, EndsInv
  <2>5. CASE c \in Commands /\ Host!Issue(c, n, o)
    <3>1. c \notin {"HELLO", "other"} /\ phase # "END" /\ (job = "flash" => c # "BOOT")
      BY <2>1, <2>5 DEF Commands
    <3>2. Advances(c, n, o)
      BY <1>1, <2>5, <3>1 DEF Advances
    <3> HIDE DEF n, o
    <3> QED  BY <3>2, AdvancesInv
  <2> QED  BY <2>2, <2>3, <2>4, <2>5
<1> QED  BY <1>3, <1>4

\* A program that does not get what it waits for ends.
LEMMA FinishInv ==
  ASSUME UInv, Inv, UInv', [Next]_vars, phase \in Commands \cup Pausing,
         NEW e \in {Host!Failure, "failed"}, Host!Finish(e), Idles,
         UNCHANGED <<job, upload, step, selected, astray>>
  PROVE  Inv'
<1>1. e \in {"failed", "cancelled"} /\ (phase = "END" => e # "cancelled")
  BY DEF Host!Failure
<1>2. Ends  BY <1>1 DEF Ends, Host!Finish
<1> QED  BY <1>2, EndsInv

\* A request times out, or its deadline comes nearer.
LEMMA WaitInv ==
  ASSUME AnyFrames, UInv, Inv, UInv', [UpgradeNext]_all, Idles,
         Host!TimeOut \/ Host!Wait, UNCHANGED <<step, selected, astray>>
  PROVE  Inv'
<1>1. phase \in Commands /\ [Next]_vars
  BY DeviceStep DEF UInv, Host!TimeOut, Host!Wait, Host!Waiting, Host!Commands, Commands
<1>2. CASE Host!TimeOut
  <2>1. CASE Host!Repeat
    <3>1. Awaits  BY <1>2, <2>1 DEF Awaits, Host!TimeOut, Host!Repeat
    <3>2. Rests
      BY <1>1, <1>2, <2>1, <3>1, RepeatRests DEF Inv, Host!TimeOut, Host!Repeat
    <3> QED  BY <3>2, RestsStep
  <2>2. CASE Host!GiveUp
    BY <1>1, <1>2, <2>2, FinishInv DEF Host!TimeOut, Host!GiveUp
  <2> QED  BY <1>2, <2>1, <2>2 DEF Host!TimeOut
<1>3. CASE UNCHANGED <<phase, job, upload, host_sequence, to_device, to_host>>
  <2>1. Awaits  BY <1>3 DEF Awaits
  <2>2. Rests  BY <1>3, <2>1, SkipRests DEF Inv
  <2> QED  BY <2>2, RestsStep
<1> QED  BY <1>2, <1>3 DEF Host!Wait

\* A scenario sleeps, or has slept.
LEMMA SettleInv ==
  ASSUME AnyFrames, UInv, Inv, UInv', [UpgradeNext]_all, Idles,
         Host!Settle \/ Host!Wake, UNCHANGED <<selected, astray>>
  PROVE  Inv'
<1>1. CASE Host!Wake
  <2>1. [Next]_vars  BY DeviceStep DEF UInv
  <2> QED  BY <1>1, <2>1, WakesInv
<1>2. CASE UNCHANGED <<phase, job, upload, host_sequence, step, to_device, to_host>>
  <2>1. Awaits  BY <1>2 DEF Awaits
  <2>2. Rests  BY <1>2, <2>1, SkipRests DEF Inv
  <2> QED  BY <2>2, RestsStep
<1> QED  BY <1>1, <1>2 DEF Host!Settle

\* ------------------------------------------------------------------- induction --
\* Before the program has run there is nothing to say.
LEMMA StepInit == UpgradeInit => Inv
<1> SUFFICES ASSUME UpgradeInit PROVE Inv  OBVIOUS
<1>1. /\ to_device = <<>> /\ to_host = <<>> /\ phase = "idle" /\ job = "info"
      /\ step = 0 /\ selected = BootIndex(otadata)
      /\ pc = "start" /\ update_active = FALSE
  BY DEF UpgradeInit, Init, Host!Init
<1>2. Outstanding = {} /\ Heard = {} /\ Pending = {} /\ ~InSession /\ ~Host!Scripted
  BY <1>1 DEF Outstanding, Sent, Heard, Pending, InSession, FlashBusy, Host!Scripted,
    Host!Scenarios
<1>3. WindowInv  BY <1>1, <1>2 DEF WindowInv, Ordered
<1>4. BehindInv  BY <1>1, <1>2 DEF BehindInv
<1>5. FrameInv   BY <1>1, <1>2 DEF FrameInv
<1>6. LastInv    BY <1>1, <1>2 DEF LastInv
<1>7. StepInv    BY <1>1, <1>2 DEF StepInv, OkHeard
<1>8. ScenarioInv /\ ErrorsInv /\ DoneInv
  BY <1>1, <1>2 DEF ScenarioInv, ErrorsInv, DoneInv
<1>9. SelectionInv  BY <1>1, <1>2 DEF SelectionInv
<1> QED  BY <1>3, <1>4, <1>5, <1>6, <1>7, <1>8, <1>9 DEF Inv

\* Every step of the whole keeps host and device in step.
LEMMA StepNext == AnyFrames /\ UInv /\ Inv /\ [UpgradeNext]_all => Inv'
<1> SUFFICES ASSUME AnyFrames, UInv, Inv, [UpgradeNext]_all
             PROVE  Inv'
  OBVIOUS
<1>1. UInv' /\ [Next]_vars  BY UpgradeNextInv, DeviceStep DEF UInv
<1>2. CASE DeviceSteps
  <2>1. Rests
    BY <1>2, BootloaderReceivesRests, ApplicationReceivesRests, BootloaderWorksRests,
      ResetsRests DEF DeviceSteps, Inv
  <2>2. UNCHANGED selected
    BY <1>2 DEF DeviceSteps, BootloaderReceives, ApplicationReceives, BootloaderWorks,
      Resets, budget
  <2> QED  BY <1>1, <2>1, <2>2, RestsStep
<1>3. CASE Lose \/ LoseHeader
  <2>1. Rests /\ UNCHANGED selected
    BY <1>3, LoseRests DEF Inv, Lose, LoseHeader
  <2> QED  BY <1>1, <2>1, RestsStep
<1>4. CASE HostOpens   BY <1>1, <1>4, HostOpensInv
<1>5. CASE HostResets  BY <1>1, <1>5, HostResetsInv
<1>6. CASE HostReceives
  <2>1. UNCHANGED <<device, selected, astray>> /\ Idles
    BY <1>6, IdlesIs DEF HostReceives, budget
  <2>2. CASE Host!Skip /\ UNCHANGED step
    <3>1. Awaits /\ to_host # <<>> /\ to_host' = Tail(to_host) /\ UNCHANGED to_device
      BY <2>1, <2>2 DEF Host!Skip, Host!client, Awaits
    <3>2. Rests  BY <2>1, <3>1, SkipRests DEF Inv
    <3> QED  BY <1>1, <2>1, <3>2, RestsStep
  <2>3. CASE ~Host!Scripted /\ (Host!Proceed \/ Host!Cancel) /\ UNCHANGED step
    BY <1>1, <2>1, <2>3, ProceedInv
  <2>4. CASE (Host!Reject /\ UNCHANGED step) \/ Host!Fail
    <3>1. /\ phase \in Commands /\ UNCHANGED <<job, upload, step>>
          /\ \E e \in {Host!Failure, "failed"} : Host!Finish(e)
      BY <2>4 DEF Host!Reject, Host!Fail, Host!Waiting, Host!Commands, Commands
    <3> QED  BY <1>1, <2>1, <3>1, FinishInv
  <2>5. CASE Host!Pass  BY <1>1, <2>1, <2>5, PassInv
  <2> QED  BY <1>6, <2>2, <2>3, <2>4, <2>5 DEF HostReceives
<1>7. CASE HostQuits
  <2>1. /\ UNCHANGED <<device, selected, astray, job, upload, step>> /\ Idles
        /\ Host!Finish(Host!Failure)
        /\ phase \notin {"done", "failed", "cancelled", "idle"}
    BY <1>7, IdlesIs DEF HostQuits, Host!Quit, Host!Running, Host!Outcomes, budget
  <2>2. phase \in Commands \cup Pausing  BY <2>1 DEF UInv, HostReady, HostInv
  <2> QED  BY <1>1, <2>1, <2>2, FinishInv
<1>8. CASE Tick
  <2>1. UNCHANGED <<selected, astray>> /\ Idles
    BY <1>8, IdlesIs DEF Tick, budget
  <2> QED  BY <1>1, <1>8, <2>1, WaitInv, SettleInv DEF Tick
<1>9. CASE HostTimesOut
  <2>1. UNCHANGED <<selected, astray>> /\ Idles
    BY <1>9, IdlesIs DEF HostTimesOut, budget
  <2> QED  BY <1>1, <1>9, <2>1, WaitInv, SettleInv DEF HostTimesOut
<1>10. CASE DeviceTimesOut \/ UNCHANGED all
  <2>1. UNCHANGED <<client, line, selected, astray>> /\ Idles
    BY <1>10, IdlesIs DEF DeviceTimesOut, all, budget
  <2>2. Awaits  BY <2>1 DEF Awaits, client
  <2>3. Rests  BY <2>1, <2>2, SkipRests DEF Inv, line
  <2> QED  BY <1>1, <2>1, <2>3, RestsStep
<1> QED
  BY <1>2, <1>3, <1>4, <1>5, <1>6, <1>7, <1>8, <1>9, <1>10 DEF UpgradeNext

\* -------------------------------------------------------------------- theorems --
\* The invariant holds throughout.
THEOREM WindowInvariance == ASSUME AnyFrames PROVE Upgrade => [](UInv /\ Inv)
BY UpgradeInitInv, UpgradeNextInv, StepInit, StepNext, PTL DEF Upgrade

\* The device is at the request that the host is waiting for, or has just answered
\* it (process_frame against request): however late, lost or repeated, a frame takes
\* neither of them on or back alone.
THEOREM StaysInStep == ASSUME AnyFrames PROVE Upgrade => []InStep
<1>1. Inv => InStep
  BY DEF Inv, StepInv, InStep, Astray, InSession, Host!Waiting, Host!Commands, Commands
<1> QED  BY <1>1, WindowInvariance, PTL

\* A cancelled upload and a fault scenario leave the boot selection as they found
\* it, wherever they were stopped (gui.py cancel, hardware_validation.py).
THEOREM OthersDoNotSelect == ASSUME AnyFrames PROVE Upgrade => []OthersKeepSelection
<1>1. Inv => OthersKeepSelection
  BY DEF Inv, SelectionInv, OthersKeepSelection
<1> QED  BY <1>1, WindowInvariance, PTL

\* A program that says the image is accepted has it selected (flash_stream against
\* commit_target), unless ota_seq has run out: then no entry can be written that
\* readers would prefer.
THEOREM AcceptedIsSelected ==
  ASSUME AnyFrames PROVE Upgrade => [](DoneMeansSelected \/ Exhausted)
<1>1. Inv => DoneMeansSelected \/ Exhausted
  BY DEF Inv, DoneInv, Selected, DoneMeansSelected
<1> QED  BY <1>1, WindowInvariance, PTL
=============================================================================

----------------------------- MODULE HostClient -----------------------------
(***************************************************************************)
(* The host's command line (iap_tool.py) and the worker of its window      *)
(* (gui.py), both on transport.py, against the bootloader: open the port,  *)
(* reset the device, say HELLO, do the job, one request at a time, each    *)
(* sent again until it is answered.                                        *)
(*                                                                         *)
(* The two directions of the line are queues of whole frames; what becomes *)
(* of a frame on the way is the business of the module that composes.      *)
(***************************************************************************)
EXTENDS SerialIap

CONSTANTS
  Uploads,       \* [declared, content]: the file when it is hashed, and when sent
  Jobs,          \* the subcommands that are run
  MayCancel,     \* may the user of the window cancel?
  BlockLength,   \* DEFAULT_DATA_LENGTH
  MaxAttempts,   \* --attempts
  ShortTimeout,  \* DEFAULT_RESPONSE_TIMEOUT_S in ticks
  LongTimeout    \* BEGIN_RESPONSE_TIMEOUT_S, END_RESPONSE_TIMEOUT_S in ticks

\* Assumed where the constants get their values.
HostAssumption ==
  /\ Uploads \subseteq [declared: Seq(Byte), content: Seq(Byte)]
  /\ MayCancel \in BOOLEAN
  /\ {BlockLength, MaxAttempts, ShortTimeout, LongTimeout} \subseteq Nat \ {0}

VARIABLES
  phase,          \* the command that awaits its response, or what came of the run
  job, upload,    \* what this run of the program is for
  next_sequence, next_offset,
  attempts,       \* how often the request has been sent
  waited,         \* ticks since it was sent last
  to_device, to_host

client == <<phase, job, upload, next_sequence, next_offset, attempts, waited>>
vars   == <<client, to_device, to_host>>

Waiting  == phase \in Commands
Outcomes == {"done", "failed", "cancelled"}
Running  == phase \notin Outcomes \cup {"idle"}

\* What a run remembers of a file before it has one.
NoUpload == [declared |-> <<>>, content |-> <<>>]

\* --------------------------------------------------------------- requests ----
Shorter(m, n) == IF m < n THEN m ELSE n

\* Variant: a block is taken from the start of the file.
FirstBlock(offset) ==
  SubSeq(upload.content, 1, Shorter(BlockLength, Len(upload.declared) - offset))

\* image.read: as many of the remaining bytes as a block holds, and less if the
\* file has become shorter since it was hashed.
Block(offset) ==
  SubSeq(upload.content, offset + 1,
         Shorter(Len(upload.content),
                 Shorter(offset + BlockLength, Len(upload.declared))))

Request(command, sequence, offset) ==
  [version |-> 1, command |-> command, seq |-> sequence,
   size    |-> IF command = "BEGIN" THEN Len(upload.declared) ELSE 0,
   offset  |-> IF command = "DATA" THEN offset ELSE 0,
   data    |-> CASE command = "BEGIN" -> upload.declared
                 [] command = "DATA"  -> Block(offset)
                 [] OTHER             -> <<>>,
   sound   |-> TRUE]

Issue(command, sequence, offset) ==
  /\ phase' = command
  /\ next_sequence' = sequence /\ next_offset' = offset
  /\ attempts' = 1 /\ waited' = 0
  /\ to_device' = Append(to_device, Request(command, sequence, offset))

Finish(outcome) ==
  /\ phase' = outcome
  /\ attempts' = 0 /\ waited' = 0
  /\ UNCHANGED <<next_sequence, next_offset, to_device>>

\* open_serial: the input is discarded before the reset line is pulsed, so the
\* latest response may still be under way and be read later.  The HELLO is the
\* first frame to reach the device after the reset.
Open(j, u) ==
  /\ ~Running
  /\ job' = j /\ upload' = u
  /\ \/ to_host' = <<>>
     \/ to_host # <<>> /\ to_host' = <<to_host[Len(to_host)]>>
  /\ phase' = "HELLO"
  /\ next_sequence' = 0 /\ next_offset' = 0
  /\ attempts' = 1 /\ waited' = 0
  /\ to_device' = <<Request("HELLO", 0, 0)>>

\* -------------------------------------------------------------- responses ----
\* A response that request() does not skip.
Matching(r) == r.command = phase /\ r.seq = next_sequence

\* The offset that the device must have reached: BEGIN, DATA and END check it,
\* the other commands take it over.
OffsetAfter(r) ==
  CASE phase = "BEGIN" -> 0
    [] phase = "DATA"  -> next_offset + Len(Block(next_offset))
    [] phase = "END"   -> Len(upload.declared)
    [] OTHER           -> r.payload.offset

\* Variant: the status is not looked at.
AcceptedUnseen(r) == r.payload.offset = OffsetAfter(r)

\* _successful_request, the checks of flash_stream, and validate_peer.
Accepted(r) ==
  /\ r.payload.status = "OK"
  /\ r.payload.expected = (next_sequence + 1) % SeqMod
  /\ r.payload.offset = OffsetAfter(r)
  /\ phase = "HELLO" => r.peer = "bootloader"

\* request() returns at the response it waits for: what the same read of the port
\* has brought after it is lost.
Returns == \E k \in 1..Len(to_host) : to_host' = SubSeq(to_host, k + 1, Len(to_host))

\* The command after the one that has been answered, or the outcome after the last.
CommandAfter(offset) ==
  CASE phase = "HELLO" -> IF job = "boot" THEN "BOOT" ELSE "INFO"
    [] phase = "INFO"  -> IF job = "flash" THEN "BEGIN" ELSE "done"
    [] phase \in {"BEGIN", "DATA"} ->
         IF offset < Len(upload.declared) THEN "DATA" ELSE "END"
    [] phase = "ABORT" -> "cancelled"
    [] OTHER -> "done"

\* _abort catches what ABORT raises.
Failure == IF phase = "ABORT" /\ job = "flash" THEN "cancelled" ELSE "failed"

\* Variant: the cancel flag is looked at once more after END.
CancelPointsAndEnd == {"BEGIN", "DATA", "END"}

\* The responses after which flash_stream calls progress.
CancelPoints == {"BEGIN", "DATA"}

Skip ==
  /\ Waiting /\ to_host # <<>>
  /\ ~Matching(Head(to_host))
  /\ to_host' = Tail(to_host)
  /\ UNCHANGED <<client, to_device>>

Reject ==
  /\ Waiting /\ to_host # <<>>
  /\ Matching(Head(to_host)) /\ ~Accepted(Head(to_host))
  /\ Returns
  /\ Finish(Failure)
  /\ UNCHANGED <<job, upload>>

\* On with the next request.  An empty file, or one that has nothing left to
\* read, ends the run.
Proceed ==
  /\ Waiting /\ to_host # <<>>
  /\ Matching(Head(to_host)) /\ Accepted(Head(to_host))
  /\ Returns
  /\ UNCHANGED <<job, upload>>
  /\ LET offset  == Head(to_host).payload.offset
         command == CommandAfter(offset)
     IN  IF command \in Outcomes THEN Finish(command)
         ELSE IF \/ command = "BEGIN" /\ upload.declared = <<>>
                 \/ command = "DATA" /\ Block(offset) = <<>>
           THEN Finish("failed")
         ELSE Issue(command, (next_sequence + 1) % SeqMod, offset)

\* progress finds the cancel flag set: the worker gives the update up.
Cancel ==
  /\ MayCancel /\ Waiting /\ to_host # <<>>
  /\ Matching(Head(to_host)) /\ Accepted(Head(to_host))
  /\ phase \in CancelPoints
  /\ Returns
  /\ Issue("ABORT", (next_sequence + 1) % SeqMod, Head(to_host).payload.offset)
  /\ UNCHANGED <<job, upload>>

\* ---------------------------------------------------------------- timeouts ----
ResponseTimeout ==
  IF phase = "BEGIN" \/ (phase = "END" /\ job # "protocol-errors")
    THEN LongTimeout ELSE ShortTimeout

Repeat ==
  /\ attempts < MaxAttempts
  /\ attempts' = attempts + 1 /\ waited' = 0
  /\ to_device' = Append(to_device, Request(phase, next_sequence, next_offset))
  /\ UNCHANGED <<phase, next_sequence, next_offset>>

GiveUp ==
  /\ attempts = MaxAttempts
  /\ Finish(Failure)

TimeOut ==
  /\ Waiting
  /\ Repeat \/ GiveUp
  /\ UNCHANGED <<job, upload, to_host>>

\* The program ends in the middle of a request: the port writes less than it is
\* given, a response is malformed, the user interrupts it.
Quit ==
  /\ Running
  /\ Finish(Failure)
  /\ UNCHANGED <<job, upload, to_host>>

\* A tick of the clock while a request is waiting.
Wait ==
  /\ Waiting
  /\ IF waited + 1 = ResponseTimeout THEN TimeOut
     ELSE /\ waited' = waited + 1
          /\ UNCHANGED <<phase, job, upload, next_sequence, next_offset, attempts,
                         to_device, to_host>>

\* ----------------------------------------------------------- specification ----
Init ==
  /\ phase = "idle" /\ job = "info" /\ upload = NoUpload
  /\ next_sequence = 0 /\ next_offset = 0 /\ attempts = 0 /\ waited = 0
  /\ to_device = <<>> /\ to_host = <<>>
=============================================================================

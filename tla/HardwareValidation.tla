------------------------- MODULE HardwareValidation -------------------------
(***************************************************************************)
(* The fault scenarios that are run against a board                        *)
(* (hardware_validation.py): sequences of requests, each with the response *)
(* that makes it pass, of resets, and of checks that the application runs. *)
(* They go over the transport of HostClient.                               *)
(***************************************************************************)
EXTENDS HostClient

CONSTANTS
  TestBlocks,   \* RESET_TEST_TRANSFER_SIZE in blocks
  SettleTicks   \* APP_START_TIMEOUT_S in ticks

ValidationAssumption ==
  HostAssumption /\ {TestBlocks, SettleTicks} \subseteq Nat \ {0}

VARIABLES step  \* how far the scenario has got

Scenarios == {"protocol-errors", "bad-hash", "interrupted-transfer"}
Scripted  == job \in Scenarios

\* The images a scenario can be run with; the one of bad-hash is declared with
\* the digest of something else.
Fits(j, u) ==
  CASE j = "protocol-errors" ->
         u.declared = u.content /\ Len(u.content) > BlockLength
    [] j = "bad-hash" ->
         u.declared # u.content /\ Len(u.declared) = Len(u.content)
    [] j = "interrupted-transfer" ->
         u.declared = u.content /\ Len(u.content) > TestBlocks * BlockLength
    [] OTHER -> TRUE

\* --------------------------------------------------------------- scenarios ----
Offsets == 0..SlotSize
Peers   == {"bootloader", "application"}

\* A request of the client, which insists on OK and on the next sequence number.
Call(command, n, at, offsets, peers) ==
  [command |-> command, seq |-> n % SeqMod, at |-> at, status |-> "OK",
   expected |-> {(n + 1) % SeqMod}, offsets |-> offsets, peers |-> peers]

\* request and require_response.
Try(command, n, at, status, offset) ==
  [command |-> command, seq |-> n % SeqMod, at |-> at, status |-> status,
   expected |-> {(IF status = "OK" THEN n + 1 ELSE n) % SeqMod},
   offsets |-> {offset}, peers |-> Peers]

\* A step that is no request.
Rest(name) == [command |-> name]

Connect ==
  <<Call("HELLO", 0, 0, Offsets, {"bootloader"}), Call("INFO", 1, 0, Offsets, Peers)>>

\* verify_application_running: sleep, and open the port without a reset.
Verify == <<Rest("settle"), Call("HELLO", 0, 0, Offsets, {"application"})>>

\* The end of the i-th block.
BlockEnd(i) == Shorter(i * BlockLength, Len(upload.content))

\* Blocks 1 to n, the first of them with sequence number s.
SendBlocks(n, s) ==
  [i \in 1..n |-> Try("DATA", s + i - 1, (i - 1) * BlockLength, "OK", BlockEnd(i))]

\* The device refuses a wrong offset before it looks at the bytes, so they may be
\* those that are at that offset.
ProtocolErrors ==
  Connect \o
  <<Try("BEGIN", 2, 0, "OK", 0),
    Try("DATA", 3, BlockLength, "ERR_OFFSET", 0),
    Try("DATA", 3, 0, "OK", BlockLength),
    Try("DATA", 3, 0, "OK", BlockLength),
    Try("END", 4, 0, "ERR_LENGTH", BlockLength),
    Try("ABORT", 4, 0, "OK", 0),
    Try("DATA", 5, 0, "ERR_STATE", 0),
    Try("BOOT", 5, 0, "OK", 0)>>
  \o Verify

\* Of the response to END only the status is looked at.
BadHash ==
  LET n == (Len(upload.content) + BlockLength - 1) \div BlockLength IN
  Connect \o
  <<Call("HELLO", 0, 0, Offsets, Peers), Call("BEGIN", 1, 0, {0}, Peers)>>
  \o SendBlocks(n, 2) \o
  <<[Call("END", n + 2, 0, Offsets, Peers) EXCEPT
       !.status = "ERR_HASH", !.expected = 0..(SeqMod - 1)],
    Call("ABORT", n + 2, 0, Offsets, Peers),
    Call("BOOT", n + 3, 0, Offsets, Peers)>>
  \o Verify

InterruptedTransfer ==
  Connect \o <<Try("BEGIN", 2, 0, "OK", 0)>> \o SendBlocks(TestBlocks, 3)
  \o <<Rest("reset")>> \o Verify
  \o <<Rest("reset")>> \o Connect \o <<Try("BOOT", 2, 0, "OK", 0)>> \o Verify

Script ==
  CASE job = "protocol-errors" -> ProtocolErrors
    [] job = "bad-hash" -> BadHash
    [] OTHER -> InterruptedTransfer

\* ------------------------------------------------------------------- steps ----
Launch(j, u) ==
  /\ Fits(j, u)
  /\ Open(j, u)
  /\ step' = IF j \in Scenarios THEN 1 ELSE 0

\* On with the next step, after the last of which the scenario has passed.
NextStep ==
  /\ step' = step + 1
  /\ IF step = Len(Script) THEN Finish("done")
     ELSE LET i == Script[step + 1] IN
       IF i.command \in Commands THEN Issue(i.command, i.seq, i.at)
       ELSE /\ phase' = i.command /\ attempts' = 0 /\ waited' = 0
            /\ UNCHANGED <<next_sequence, next_offset, to_device>>
  /\ UNCHANGED <<job, upload>>

Expected(r) ==
  LET i == Script[step] IN
  /\ r.payload.status = i.status
  /\ r.payload.expected \in i.expected
  /\ r.payload.offset \in i.offsets
  /\ phase = "HELLO" => r.peer \in i.peers

Pass ==
  /\ Scripted /\ Waiting /\ to_host # <<>>
  /\ Matching(Head(to_host)) /\ Expected(Head(to_host))
  /\ Returns
  /\ NextStep

Fail ==
  /\ Scripted /\ Waiting /\ to_host # <<>>
  /\ Matching(Head(to_host)) /\ ~Expected(Head(to_host))
  /\ Returns
  /\ Finish("failed")
  /\ UNCHANGED <<job, upload, step>>

\* The reset line is pulsed, at the end of a transfer or to connect again.  What
\* was on its way to the device is lost, what came from it was discarded before.
Pulse ==
  /\ phase = "reset"
  /\ to_host' = <<>>
  /\ LET i == Script[step + 1] IN
     /\ step' = step + 1
     /\ phase' = i.command
     /\ IF i.command = "HELLO"
          THEN /\ next_sequence' = 0 /\ next_offset' = 0 /\ attempts' = 1
               /\ to_device' = <<Request("HELLO", 0, 0)>>
          ELSE /\ UNCHANGED <<next_sequence, next_offset, attempts>>
               /\ to_device' = <<>>
  /\ UNCHANGED <<job, upload, waited>>

\* The application has had its time to start; the port is opened and emptied.
Wake ==
  /\ phase = "settle"
  /\ to_host' = <<>>
  /\ NextStep

\* A tick of the clock while the script sleeps.
Settle ==
  /\ phase = "settle"
  /\ IF waited + 1 = SettleTicks THEN Wake
     ELSE /\ waited' = waited + 1
          /\ UNCHANGED <<phase, job, upload, next_sequence, next_offset, attempts,
                         to_device, to_host, step>>
=============================================================================

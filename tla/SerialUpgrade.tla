---------------------------- MODULE SerialUpgrade ----------------------------
(***************************************************************************)
(* The whole upgrade: the host's programs, the line that may lose frames,  *)
(* and the device with its bootloader.  A frame that is damaged is lost,   *)
(* as its CRC gives it away.                                               *)
(***************************************************************************)
EXTENDS IapBootloader

CONSTANTS
  Uploads, Jobs, MayCancel, BlockLength, MaxAttempts, ShortTimeout, LongTimeout,
  TestBlocks, SettleTicks,
  Prompt,      \* is an answer there before its timeout, or may it be late?
  MayFail,     \* may flash report errors, the power fail, the program be stopped?
  Losable,     \* the commands whose requests and responses may be lost
  Embeds,      \* do the images hold the bytes of a HELLO?
  MaxLosses,   \* how many frames get lost
  MaxRuns,     \* how often the host's program is started
  MaxInFlight  \* frames on the line

VARIABLES
  phase, job, upload, host_sequence, host_offset, attempts, waited,
  step, to_device, to_host,
  serving,     \* the application's service has answered a HELLO
  losses, runs,
  selected,    \* history: the boot selection when the program was started
  astray       \* history: the device has been sent a HELLO that is part of an image

Host == INSTANCE HardwareValidation WITH
  next_sequence <- host_sequence, next_offset <- host_offset

ASSUME UpgradeAssumption ==
  /\ Host!ValidationAssumption
  /\ {Prompt, MayFail, Embeds} \subseteq BOOLEAN
  /\ Losable \subseteq Commands
  /\ {MaxLosses, MaxRuns, MaxInFlight} \subseteq Nat

device == vars
client == <<phase, job, upload, host_sequence, host_offset, attempts, waited,
            step>>
line   == <<to_device, to_host>>
budget == <<losses, runs, selected, astray>>
all    == <<device, serving, client, line, budget>>

\* ------------------------------------------------------------- the device ----
\* A response on its way, if the step has sent one and the port is open.
Sends(f, peer, payload) ==
  to_host' =
    IF payload # NoReply /\ Host!Waiting
      THEN Append(to_host, [command |-> f.command, seq |-> f.seq,
                            payload |-> payload, peer |-> peer])
      ELSE to_host

BootloaderReceives ==
  /\ to_device # <<>>
  /\ EntryFrame(Head(to_device)) \/ SessionFrame(Head(to_device))
  /\ MayFail \/ reply' = NoReply \/ reply'.status # "ERR_FLASH"
  /\ to_device' = Tail(to_device)
  /\ Sends(Head(to_device), "bootloader", reply')
  /\ UNCHANGED <<serving, client, budget>>

\* The service of the application takes a HELLO and, before that, refuses the
\* rest.  The program that gets this HELLO answered stops; a session that it opens
\* all the same is IapService's and is not followed here.
ApplicationReceives ==
  /\ pc = "app" /\ to_device # <<>>
  /\ to_device' = Tail(to_device)
  /\ LET f == Head(to_device) IN
     \/ /\ f.command = "HELLO" /\ serving' = TRUE
        /\ Sends(f, "application", Response("OK", 1, 0))
     \/ /\ f.command # "HELLO" /\ ~serving /\ UNCHANGED serving
        /\ Sends(f, "application", Response("ERR_STATE", 0, 0))
  /\ UNCHANGED <<device, client, budget>>

BootloaderWorks ==
  /\ \/ Start \/ LoadApp \/ EraseDone \/ WriteDone \/ OtaEraseDone \/ OtaWriteDone
     \/ MayFail /\ (EraseFails \/ WriteFails \/ OtaFails)
  /\ Sends(frame, "bootloader", reply')
  /\ UNCHANGED <<serving, client, to_device, budget>>

\* A reset; what the receiver holds may be gone with it.
Resets ==
  /\ Restart \/ (MayFail /\ (RereadFails \/ PowerLoss))
  /\ to_device' \in {<<>>, to_device}
  /\ serving' = FALSE
  /\ UNCHANGED <<client, to_host, budget>>

\* ---------------------------------------------------------------- the line ----
Lose ==
  /\ losses < MaxLosses
  /\ losses' = losses + 1
  /\ \/ /\ to_device # <<>> /\ Head(to_device).command \in Losable
        /\ to_device' = Tail(to_device) /\ UNCHANGED to_host
     \/ /\ to_host # <<>> /\ Head(to_host).command \in Losable
        /\ to_host' = Tail(to_host) /\ UNCHANGED to_device
  /\ UNCHANGED <<device, serving, client, runs, selected, astray>>

\* A block that has lost its header, and holds a whole HELLO: the device's parser
\* finds that one.  Every image of this firmware does (golden_hello).
LoseHeader ==
  /\ Embeds /\ losses < MaxLosses
  /\ losses' = losses + 1
  /\ to_device # <<>> /\ Head(to_device).command = "DATA"
  /\ to_device' = <<Host!Request("HELLO", 0, 0)>> \o Tail(to_device)
  /\ astray' = TRUE
  /\ UNCHANGED <<device, serving, client, to_host, runs, selected>>

\* ---------------------------------------------------------------- the host ----
\* The program starts: it pulses the reset line, whatever the device is doing.
HostOpens ==
  /\ runs < MaxRuns /\ runs' = runs + 1
  /\ \E j \in Jobs, u \in Uploads : Host!Launch(j, u)
  /\ PowerLoss /\ serving' = FALSE
  /\ selected' = BootIndex(otadata')
  /\ astray' = FALSE
  /\ UNCHANGED losses

HostReceives ==
  /\ \/ /\ \/ Host!Skip
           \/ ~Host!Scripted /\ (Host!Reject \/ Host!Proceed \/ Host!Cancel)
        /\ UNCHANGED step
     \/ Host!Pass \/ Host!Fail
  /\ UNCHANGED <<device, serving, budget>>

\* A scenario pulses the reset line.
HostResets ==
  /\ Host!Pulse
  /\ PowerLoss /\ serving' = FALSE
  /\ UNCHANGED budget

HostQuits ==
  /\ MayFail /\ Host!Quit
  /\ UNCHANGED <<device, serving, step, budget>>

\* -------------------------------------------------------------------- time ----
\* Nothing is under way: the device waits for a frame, or erases, which takes
\* less than the timeout of BEGIN, or runs the application.
Still ==
  /\ to_device = <<>> /\ to_host = <<>>
  /\ pc \in {"entry", "session", "app"} \/ (pc = "erase" /\ waited + 1 < LongTimeout)

\* Host and device share the clock.  A tick is as long as the shortest timeout
\* of the host, which is longer than the entry window.
Tick ==
  /\ Prompt /\ Still
  /\ (Host!Wait /\ UNCHANGED step) \/ Host!Settle
  /\ IF pc = "entry" THEN EntryTimeout
     ELSE IF pc = "session" THEN IdleTick
     ELSE UNCHANGED device
  /\ UNCHANGED <<serving, budget>>

\* Answers may be late: each side's clock runs out when it likes.
HostTimesOut ==
  /\ ~Prompt /\ Len(to_device) + Len(to_host) < MaxInFlight
  /\ (Host!TimeOut /\ UNCHANGED step) \/ Host!Wake
  /\ UNCHANGED <<device, serving, budget>>

DeviceTimesOut ==
  /\ ~Prompt
  /\ EntryTimeout \/ IdleTick
  /\ UNCHANGED <<serving, client, line, budget>>

\* ----------------------------------------------------------- specification ----
UpgradeInit ==
  /\ Init /\ Host!Init
  /\ step = 0 /\ serving = FALSE /\ losses = 0 /\ runs = 0
  /\ selected = BootIndex(otadata) /\ astray = FALSE

DeviceSteps == BootloaderReceives \/ ApplicationReceives \/ BootloaderWorks \/ Resets

UpgradeNext ==
  DeviceSteps \/ HostOpens \/ HostReceives \/ HostResets \/ HostQuits \/ Lose \/ LoseHeader
    \/ Tick \/ HostTimesOut \/ DeviceTimesOut

Upgrade == UpgradeInit /\ [][UpgradeNext]_all

\* Processors and clocks go on; the line need not lose anything, and nobody has
\* to start the program.
FairUpgrade ==
  /\ Upgrade
  /\ WF_all(DeviceSteps) /\ WF_all(HostReceives \/ HostResets) /\ WF_all(Tick)

\* -------------------------------------------------------------- properties ----
\* iap_tool.py:179: when the program says that the image is accepted, that image
\* is what boots, whatever was lost, late or sent twice, and through power
\* failures and failing flash.
DoneMeansSelected ==
  phase = "done" /\ job = "flash" => BootedImage = upload.declared

\* The bytes the device counts as received are the first bytes of the file, in
\* the target slot: repeats, late frames, failed writes and resets put nothing
\* else there (flash_stream against write_update).
ReceivedIsSent ==
  update_active =>
    /\ next_offset <= Len(upload.content)
    /\ IsPrefixOf(SubSeq(upload.content, 1, next_offset), slot[target_index])

\* Stop-and-wait: a device in a session with the host is at the request that is
\* waiting or has just answered it, never ahead and never behind; only the HELLO
\* in the middle of bad-hash takes the device back.  A HELLO that comes out of an
\* image may do so as well, but then there is no update that could be gone on with.
InStep ==
  pc = "session" /\ Host!Waiting /\ ~(Host!Scripted /\ phase = "HELLO") =>
    \/ expected_sequence \in {host_sequence, (host_sequence + 1) % SeqMod}
    \/ astray /\ ~update_active

\* gui.py:398 and hardware_validation.py:39: an upload that was cancelled and a
\* fault scenario leave the boot selection as they found it, whatever was late
\* or lost and wherever they were stopped.
OthersKeepSelection ==
  phase \in {"ABORT", "cancelled"} \/ Host!Scripted => BootIndex(otadata) = selected

\* protocol.md:53: a request without a response is sent again, the device knows
\* it and answers, and the upgrade goes on as if nothing had been lost.  A fault
\* scenario passes: the device answers each of its requests as the script has it.
LossesRepaired ==
  phase = "HELLO" /\ (job = "flash" => upload.declared = upload.content)
    ~> phase \in {"done", "cancelled"}
=============================================================================

# Serial IAP: verification project

TLA+ models of the ESP32-S3 serial firmware upgrade (`src/`), their model
checking with TLC and proofs with TLAPS. All paths below are relative to the
repository. The models are written from the code; where a document or a comment
says something else, a run shows the difference (see *Disagreements*).

## 1. The system

A host sends a firmware image over a UART, one request at a time
(stop-and-wait, 16-bit sequence numbers). Two programs on the device answer the
same protocol: the second-stage **bootloader**, for 800 ms after every reset, and
a **service** task in the running application. Both write the image into the OTA
slot that is not in use, verify it, and switch the boot selection, a two-entry
record (`otadata`) that every boot reads. The whole point of the design is that
nothing that goes wrong on the way changes what boots.

### Components

| Component | State | Operations | Hard behaviour | What makes it correct |
|---|---|---|---|---|
| **Bootloader session** `bootloader_components/main/iap_bootloader.c` | `iap_bootloader_context_t`: target, update (active, size, offset, digest), expected sequence, last request and response; flash | HELLO, INFO, BEGIN, DATA, END, ABORT, BOOT; entry window; idle timeout | power failure inside each flash operation, flash errors, repeats, padding of the last block, sequence numbers of otadata near their end | what boots always verifies, is never touched, moves only to what was declared; what a repeat is answered with is still true; the device boots once the line is silent |
| **Bootloader start** `bootloader_start.c` | the boot index | load partition table, read otadata, session, read otadata again, load | otadata changes between the two reads | the same |
| **Boot selection** (`choose_target`, `commit_target`, ESP-IDF) | two `ota_seq` | choose target, next entry, next sequence | a cut commit, a tie, overflow | the entry not in force is written, and it selects the target |
| **Application service** `main/iap_service.c` | `iap_service_context_t`, the running partition, `esp_ota` handles | the same requests on `esp_ota_*`, session timeout, restart | slow erase against the idle clock, a response that cannot be sent, errors in each stage of END, a commit without a restart | the same, and: the running slot is never touched, handles do not leak, an update does not outlive its session |
| **Frame parser, encoder** `components/iap_protocol` | a buffer of at most one frame | push a byte, encode, CRCs | resynchronisation on noise, cut frames | a frame is accepted only whole; after noise the next frame gets through |
| **Host frames** `host/protocol.py` | the decoder's buffer | feed, encode, decode | the same, in the other language | agrees with the C parser |
| **Host client** `host/transport.py` | next sequence, the decoder | `request` with repeats, `hello`, `flash_stream`, `abort`, `boot` | lost and late responses, the response to END | reports success only after a commit |
| **Command line** `host/iap_tool.py` | none | reset, run a command, report the failure | reset against the entry window | |
| **GUI** `host/gui.py` | cancel flag, event queue, buttons, status, log | start, cancel, refresh the ports, poll; a worker thread for each job | cancel against END, a flag left over, events of two workers | one worker at a time, a cancel hits its own job and soon, each job's outcome is logged, the buttons come back |
| **Hardware validation** `host/hardware_validation.py` | how far a scenario has got | three fault scenarios against a board | repeats on purpose among repeats by loss, a second HELLO, a reset in a transfer | each passes when the device is right, and none changes what boots |

How they interact: host and device exchange frames; bootloader and application
share nothing but flash (`otadata` and the slots) and the wire format; the
bootloader runs the application and a reset runs the bootloader.

## 2. Modules

| Module | What it models |
|---|---|
| `OtaData` | The two otadata entries, who is in force, what is selected, and `choose_target` / `commit_target`'s arithmetic. No state: operators on an otadata value. |
| `SerialIap` | What both devices share: flash contents and how erasing and programming change them, images, requests and responses. Declares the constants and `IapAssumption`. |
| `IapBootloader` | The bootloader: `call_start_cpu0` and `iap_bootloader_run` with every request. |
| `IapService` | The application's service task with every request. |
| `BootImage` | The abstract specification: an image that boots, and an offer; the image switches to the offered one in one step, if it verifies. |
| `HostClient` | The host's programs, `iap_tool.py` and the worker of `gui.py`, on `transport.py`: one request at a time, repeats, which responses are skipped and which end the run, cancel with ABORT. |
| `HardwareValidation` | The three scenarios of `hardware_validation.py` as sequences of requests with the response each must get, over the transport of `HostClient`. |
| `SerialUpgrade` | The composition: the host's programs, a line that loses, delays and damages frames, `IapBootloader`, and as much of the application as answers a stray request. |
| `FrameStream` | The wire below frames: `StreamDecoder.feed` and `iap_protocol_parser_push` on one stream of bytes. |
| `GuiWindow` | `gui.py`: the window's thread, the workers, the queue of events and the cancel flag. |
| `OtaDataProofs`, `SerialIapProofs` | Lemmas about the operators of the modules they are named after. |
| `IapBootloaderProofs`, `IapServiceProofs`, `GuiWindowProofs`, `SerialUpgradeProofs` | Theorems and their proofs. |
| `StopAndWaitProofs` | Theorems about `SerialUpgrade` that rest on which frames on the line still count, on top of `SerialUpgradeProofs`. |
| `FrameStreamProofs` | Theorems about both readers of `FrameStream`, for any alphabet and any checksums. |
| `MCSerialIap`, `MCIapBootloader`, `MCIapService`, `MCSerialUpgrade`, `MCFrameStream` | Values for TLC. |

Definitions whose comment begins with *Variant* are alternatives to the
definition that follows them, each with one mistake in it. No specification uses
them; they show that a property is about the code (`PROJECT.json`, `mutants`).

### From code to state and actions

*Variables have the names of the context's fields.* `last` stands for the five
`last_*` fields of the bootloader; `idle` and `age` for the idle time in units
of the 100 ms reads. `reply` is the response the latest step sent (in the
service, since the latest empty read). `slot` is the bytes of each OTA slot,
`otadata` the two `ota_seq`, where `SeqMax` is UINT32_MAX and means erased or
CRC mismatch, which every reader treats alike.

*A request is one action per outcome of its handler*: `RefuseBegin` is every
early return of `begin_update`, with the status the order of the checks gives
(`BeginStatus`), `Begin` goes past them. `Repeat`, `RefuseVersion`,
`RefuseSequence` are the early returns of `process_frame`; `Accept` and `Refuse`
are its tail and part of each action.

*The bootloader is one thread without interrupts*, so a handler is atomic except
where it changes flash. `Begin` stops at `pc = "erase"`, `Data` at `"write"`,
`End` at `"otaErase"` and `"otaWrite"`; the operation is then done, fails, or the
power fails (`PowerLoss`), each of the latter leaving flash half changed:
`TornErase` (a part is erased, the rest of the range unchanged or lost),
`TornProgram` (a part of the bytes is programmed), `CutOtadata` (the entry being
written is old, blank or new). Programming only clears bits (`Burn`): what is
programmed over something else is something else again. `PowerLoss` is possible
in every state and is also the host's pulse on the reset line.

*The service* runs a handler to its end before it reads on, and only its task
touches the context. A handler is one action; its flash operations may fail half way
(`BeginFails`, `DataFails`, `EndFails`) and a `Reboot` may follow, which is the
flash a power failure leaves. (A cut commit is `EndFails` followed by `Reboot`.)
`Reboot` passes through the bootloader, whose own session with a host at that
moment is not part of this module. `Unsendable` are the commands whose responses
`uart_write_bytes` or `uart_wait_tx_done` may fail to send.

*The bytes* are of a small alphabet and a header has five of them,
`<<SofFirst, SofSecond, tag, length, CRC>>`: the tag stands for version, command
and sequence number, the trailer is one byte. The CRCs are parameters, and in the
run so short that many a damaged frame passes them by chance, as the readers
must be right about those as well. `Drain` is the loop of `feed`,
`KeepPossibleSof` what the C parser does instead of going round; the branch of
the parser for a full buffer cannot be reached (`TypeOK`) and is left out.

*The window* runs its callbacks one at a time, so `Start`, `Cancel`, `RefreshPorts`
and every event handled are atomic, but a worker may act between any two events of a poll.
Each worker has a place of its own: an old one closes its port after it has put
its last event, when the next may already be running. A request succeeds or
raises one of the errors that `gui.py:391` catches. An error of another class,
`termios.error` for instance, would end the worker without an event and leave
the window busy for ever. `OutcomeIsLogged` is about the log because the status
line can be wrong: a poll that takes the last progress and the done event shows
the progress after the outcome (`gui.py:421`). It is about the step that gives the
buttons back, as the button that looks for ports is one of them and writes to the log
as well.

*A scenario* is `Script`, a sequence that is walked by `step`. The response a
request must get is part of it; `"settle"` and `"reset"` are steps that are no
request. `verify_application_running` opens the port without a reset. Of INFO the
wording and `inactive=ota_` are left out.

*The host* is `phase`, the command whose response it awaits, with the sequence
number, offset and attempt of that request. `Proceed` is the code between two
requests (the checks of the response and the next call), `Skip` the `continue` of
the receive loop, `Reject` each exception, `Wait` / `TimeOut` the deadline. A
file has two contents, what was hashed and what is sent later, as `flash_file`
opens it twice. The line is a queue of frames in each direction. `Open` discards
the input, of which at most the latest response can still be under way; the
program says HELLO to a device that has just been reset. The
application answers HELLO and refuses what comes without one; a session that a
stray HELLO opens in it is not followed (that is `IapService`). `Returns` lets
what one read has brought after the awaited response be lost, as
`transport.py:121` returns out of the loop over the decoded frames. `LoseHeader`
is a DATA whose header is damaged and among whose bytes the parser then finds a
HELLO. `astray` and `selected` are history.

*Time* in `SerialUpgrade` has two readings. With `Prompt`, host and device count
the same ticks and nothing is under way when a tick passes; a tick is the 1 s of
the shortest timeout, and the order of the real times is kept: entry window
(0.8 s) < response timeout (1 s), 3 attempts (3 s) < session (10 s) < BEGIN and
END timeouts (120 s). Without it every clock may run out at any moment,
which is more than can happen, and only safety is checked.

*Data are abstract.* A digest is the bytes it is the digest of; a payload CRC is
the payload; a frame is a record whose `sound` says the payload has the length
its command asks for; the detail text of responses is left out. `ValidImages` is
the set of byte strings `esp_image_verify` accepts to the last byte, no one a
proper prefix of another; a slot is `Bootable` if it starts with one.

*Assumptions about what is outside the repository*: a flash operation that
reports an error has not completed; the factory image always loads; the bootloader
of ESP-IDF loads the selected image if it verifies and else another that does;
`esp_ota_begin` erases the sectors of the declared size,
`esp_ota_set_boot_partition` computes the same entry as `commit_target` does.

## 3. Runs

| Run | Module | States | Shows |
|---|---|---|---|
| `Update` | MCIapBootloader | 65,950 | Seven properties of updates with all flash errors and power failures, `ImplementsBootImage` among them |
| `Session` | MCIapBootloader | 36,256 | All commands, sequence numbers modulo 3: `CachedAnswerHolds`, and `QuietLineBoots` (liveness) |
| `AppUpdate` | MCIapService | 74,904 | Four properties of updates when responses get out |
| `AppSession` | MCIapService | 99,216 | Sessions, handles, the running slot and repeats when they may not, and `QuietLineReleases` (liveness) |
| `Upload` | MCSerialUpgrade | 2,475,804 | Uploads, cancelled ones and fault scenarios against the bootloader with losses, damage, late answers, flash errors, power failures, programs that are stopped and started again, a file that changes |
| `Repaired` | MCSerialUpgrade | 6,875 | `LossesRepaired` (liveness) for lost INFO, DATA and ABORT frames |
| `Frames` | MCFrameStream | 407,474 | Frames, cut and damaged ones and noise, cut into reads in every way, heard by both readers |
| `Window` | GuiWindow | 32,260 | Every interleaving of the window, its polls and the workers of two jobs, with `EveryJobEnds` (liveness) |
| `AppSlowErase`, `AppStaleReply`, `AppUnsentEnd`, `LostBegin` | | | Disagreements (section 4) |

The properties:

- `SelectedAlwaysBootable`: the selection names an image that verifies.
- `SelectedSlotUntouched`, `RunningSlotUntouched`: no byte of the slot that is
  selected (that executes) changes. The two differ when a commit is not followed
  by a restart and when the bootloader has fallen back to another image.
- `SelectionMovesToVerified`: the selection moves only at an END, to the target,
  whose bytes are the declared ones and verify.
- `CommitSelectsTarget`: after a commit the target is what boots. It has an
  exception that the code has: the guard of `commit_target` lets the new sequence
  number be UINT32_MAX itself, which reads as erased. The number would take four
  thousand million updates to reach.
- `WriteInErasedUnits`: the flash driver is handed whole write units, on unit
  boundaries, inside what the BEGIN erased.
- `CachedAnswerHolds`: the response that the bootloader keeps for repeats is, whenever
  one is answered, still true: the update stands at the offset it names and is the one
  that it acknowledged, though DATA or END has failed since.
- `RepeatHasNoEffect`: a request that the service has accepted is not carried out
  again, although its response, and with it the cached one, may not have been sent.
- `UpdateBelongsToSession`: an update is only ever continued by the session that began
  it; one that has timed out, or has just begun by HELLO, has none.
- `OneOpenHandle`: the service gives each handle back once.
- `QuietLineBoots`, `QuietLineReleases`: once the line is silent (and, for the
  first, the power stays on) the device boots, the service lets go.
- `DoneMeansSelected`: when the host's program reports success, the image it
  hashed is what boots.
- `ReceivedIsSent`: the bytes the device counts as received are in the slot, and
  are the first bytes of the file.
- `InStep`: a device in a session is at the host's request or just past it.
- `OthersKeepSelection`: an upload that was cancelled and a fault scenario leave
  the selection as they found it.
- `LossesRepaired`: an upload that begins ends in success, or as cancelled, and a
  fault scenario passes, though frames are lost.
- `Agree`: decoder and parser hold the same bytes and have found the same frames,
  after every read. The two are written differently: one searches a buffer that
  grows by reads of any size, the other takes a byte at a time and moves what it
  keeps.
- `IncrementalIsWhole`: the frames found so far are those of the whole stream,
  found by a definition that has no buffer (`Scan`).
- `RepeatsGetThrough`: from every state that damage can leave the parser in, a
  frame sent again often enough is received.
- `ButtonsGuardWorker`: while the buttons are disabled there is one worker at work
  or one last event under way; while they are enabled there is neither.
- `CancelledOnlyIfAsked`: no job is cancelled by the flag of an earlier one.
- `CancelTakesEffect`: at most one more DATA or END is begun after a cancel. It may
  be the END, so a cancel in the last moment does not stop the update.
- `OutcomeIsLogged`: when the buttons come back, the outcome of the job has just been
  logged, it is true, and the worker has nothing more to log after it.
- `EveryJobEnds`: the window gets its buttons back.
- `ImplementsBootImage`: all of it at once, from far above: whole images, from
  the offer, or nothing.

### Bounds

- *Slots*: two, as in `partitions.csv`. The proofs cover 0 to 2; with three or
  more `choose_target` uses the first two only.
- *Slot size, sector, write unit*: 4/2/2 bytes in `Update`, so
  that padding, a ragged block, an erase beyond the image and a torn erase of
  several bytes occur; 2/1/1 or 1/1/1 elsewhere.
- *Images*: one of odd and one of even length; also an image followed by a
  byte, more bytes than the slot has, and bytes that are no image. Blocks of one
  write unit. Two images are enough for one to be replaced by the other.
- *SeqMax* (UINT32_MAX) is 3 or 4: from each initial otadata (fresh, after three
  updates, after a cut commit) there is room for several commits and the
  numbers run out within the model. In `IapService` END is guarded by `SeqMax`,
  as `ota_seq` is not bounded there.
- *SeqMod* (2^16) is 2 or 3, so that sequence numbers wrap and an old number
  comes round within a session; the initial flash and every frame are any of the
  given sets in any order, which includes what a host with losses, repeats and
  delays produces, and more.
- *SessionTicks* (100 receive calls) is 1 to 3.
- `open` is bounded by the properties it is in, not by a guard: a mutant that
  leaks shows at once.
- *Upload*: the real three attempts, one loss or damage, two runs of programs, at
  most three frames on the line when a timeout adds one; blocks of two bytes, so
  that an image has one or two. Late answers are not losses and are not counted.
  `Repaired` has two losses, as many as three attempts can repair of one request,
  and two runs, so that a scenario meets what an upload has left.
- *Frames*: two frames, one with a payload and one without, and one byte of noise;
  each frame loses any run of its bytes or has any byte changed. Both may fail and
  then overlap what follows. The alphabet is the two SOF bytes and a third, one of
  which is too great to be a length.
- *Window*: two jobs of any kind, so that one can follow on the other's heels,
  two blocks, two events per poll. `GuiWindowProofs` has no such bounds.
- `Unsendable` in `AppSession` is HELLO, BEGIN and END, the responses that open and
  close what the service holds; in `AppUpdate` none is, as `SelectedSlotUntouched`
  does not hold otherwise (`AppUnsentEnd`).
- `VIEW Unanswered` in `Update` and `AppUpdate` leaves `reply` out of the
  state's identity. In `Update` it also leaves out the response kept for repeats. No guard
  reads them, and no property of these runs but `TypeOK` for their type, so two
  states that differ only there have the same future.
- Deadlock is checked in the service, where it cannot occur as `Reboot` is always
  possible, and not in the bootloader, whose story ends in the application.

### Fairness

`Session` assumes weak fairness of `Device`, the steps the processor takes
by itself: the bootloader is a loop that polls a clock, with no one to preempt
it. There is no fairness on the line, on power, on a failing read of otadata or
on flash working: an operation must end, not succeed. `AppSession` assumes weak
fairness of the service's loop: its task is created with priority 5 and blocks
only in a read of 100 ms, a send of at most 1 s and flash operations. `Repaired`
and `LostBegin` assume weak fairness of the device's steps, of the host's receive
loop and of time; the line is not made to deliver anything more than it does by
not losing it, and nobody has to start the program. `Window` assumes weak fairness
of each worker (a request is answered or given up after its attempts), of the poll
(`root.after` arranges the next one at the end of each) and of whoever closes a
dialog, in which the poll stands still; nobody has to press a button.

## 4. Disagreements

Each has a run that finds the counterexample.

1. `AppSlowErase`: the service stamps the idle clock before it handles a
   frame and compares it after, so an erase of ten seconds closes the session that
   has just been answered. A `BEGIN` may erase 7 MB.
2. `AppStaleReply`: `last_command` and the like are set although the response
   could not be sent, and the cached response is not; a repeat is answered with
   the response to another request.
3. `AppUnsentEnd`: if the response to END cannot be sent the service does not
   restart; the next BEGIN erases the slot that is now selected.
4. `LostBegin`: the host waits 120 s before it repeats a BEGIN or an END, the
   device leaves its session after 10 s without a frame. A lost BEGIN is never
   repaired by a repeat, although `protocol.md:53` has repeats for that; a lost
   response to END cannot be either, as the device has been reset.

Without a run, as the difference shows in a single place of the code:

- An accepted ABORT leaves the session open; the comment in `bootloader_start.c:67`
  and `bootloader_interface.md` say it ends. The host's scripts count on the code:
  they send BOOT after ABORT.
- `gui.py:406` tells the user after a confirmed ABORT that the device still runs
  the old application; it is in the bootloader, in its session, until the idle
  timeout.
- `protocol.md:123` has END compare the length of the verified image with
  `image_size`; the service does not (`iap_service.c:318`), the bootloader does.
- `protocol.md:137` has BEGIN refused under Flash Encryption; only the bootloader
  asks (`iap_bootloader.c:239`).
- `protocol.md:114` excludes unaligned blocks in the middle; the service accepts
  them, without harm as `esp_ota_write` takes any length.
- A lost response to END makes the host report a failure after the selection has
  moved, while `src/README.md:3` says that a failure does not change it. The
  sentence is about the device, of which it is true (`SelectionMovesToVerified`).

Two limits of the design that no document denies:

- Every firmware image holds `golden_hello` (`iap_protocol.c:203`), a complete HELLO.
  A DATA whose header is damaged while its bytes hold that frame makes the device
  start over: the update is dropped and the next DATA refused. The upload fails and
  nothing else happens. `Upload` has this (`Embeds`); with it `Repaired` would
  find that such an upload does not get through.
- A frame cut within its payload takes what follows for the rest, for as long as the
  length it announced. A DATA of 1024 bytes swallows up to 75 copies of a
  HELLO of 14 bytes, and the host sends three; after a loss like that
  it is the reset, or the next DATA, that gets the parser going again.
  `RepeatsGetThrough` says how many copies are enough (`Enough`).

## 5. Proofs

`tlapm` on each of the eight proof modules. Everything is proved for every value of
the constants that satisfies the assumptions the modules name: `OtaDataAssumption`
(0 to 2 slots, `SeqMax` above 2), `IapAssumption` (sizes are positive and divide
each other, no image is a prefix of another, initial values and frames have their
types), `ServiceAssumption`, `GuiAssumption`, `UpgradeAssumption`, `FrameAssumption` (the
two SOF bytes differ, a length field can hold any length up to `MaxPayload`, the
checksums and the frames are made of bytes). TLC evaluates each of them on the values of
the runs.

| Module | Theorem | Says |
|---|---|---|
| `IapBootloaderProofs` | `TypeCorrect` | `Spec => []TypeOK` |
| | `SelectionSafe` | `Spec => []SelectedAlwaysBootable` |
| | `SelectedUntouched` | `Spec => SelectedSlotUntouched` |
| | `MovesToVerified` | `Spec => SelectionMovesToVerified` |
| | `CommitSelectsIt` | `Spec => []CommitSelectsTarget` |
| | `Refinement` | `Spec => ImplementsBootImage` |
| | `WritesAreSafe` | `Spec => []WriteInErasedUnits` |
| | `RepeatsAnsweredTruly` | `Spec => []CachedAnswerHolds` |
| `SerialUpgradeProofs` | `DeviceIsBootloader` | `AnyFrames`: `Upgrade => Spec` |
| | `WhatIsReceivedWasSent` | `AnyFrames`: `Upgrade => []ReceivedIsSent` |
| `StopAndWaitProofs` | `StaysInStep` | `AnyFrames`: `Upgrade => []InStep` |
| | `OthersDoNotSelect` | `AnyFrames`: `Upgrade => []OthersKeepSelection` |
| | `AcceptedIsSelected` | `AnyFrames`: `Upgrade => [](DoneMeansSelected \/ Exhausted)` |
| `IapServiceProofs` | `ServiceTypeCorrect` | `Spec => []TypeOK` |
| | `NoHandleLeaks` | `Spec => []OneOpenHandle` |
| | `UpdateInSession` | `Spec => []UpdateBelongsToSession` |
| | `RunningSlotSafe` | `Spec => RunningSlotUntouched` |
| | `RepeatsAreHarmless` | `Spec => RepeatHasNoEffect` |
| | `SelectionIsBootable` | `EndGetsOut`: `Spec => []SelectedAlwaysBootable` |
| | `SelectedSlotSafe` | `EndGetsOut`: `Spec => SelectedSlotUntouched` |
| | `SelectionMovesRight` | `EndGetsOut`: `Spec => SelectionMovesToVerified` |
| `GuiWindowProofs` | `WindowTypeCorrect` | `Spec => []TypeOK` |
| | `ButtonsAreRight` | `Spec => []ButtonsGuardWorker` |
| | `CancelIsOwn` | `Spec => []CancelledOnlyIfAsked` |
| | `CancelIsPrompt` | `Spec => []CancelTakesEffect` |
| | `LogIsTrue` | `Spec => OutcomeIsLogged` |
| `FrameStreamProofs` | `ReadersFit` | `Spec => []TypeOK` |
| | `ReadersAgree` | `Spec => []Agree` |
| | `IncrementalDecoding` | `Spec => []IncrementalIsWhole` |
| | `RepeatsHeard` | `Spec => []RepeatsGetThrough` |

Each module has one inductive invariant, `IInv`, `UInv`, `UInv /\ Inv` or `Inv`.

*The bootloader.* `SelectedAlwaysBootable` is not
inductive by itself: an erase destroys what boots unless the target is another
slot. So `TargetInv` says that the target chosen at the start remains
`ChooseTarget` of what is selected *now*, up to the commit; that a torn commit
does not disturb it is `OtaDataProofs`: erasing the entry not in force changes
neither the selection nor which entry is next, and the entry `NextSeq` writes
then selects the target. A commit must find a good image: `CommitInv` carries the
digest and the verification of END through the two flash operations of the
commit, `UpdateInv` says that there is a target, and `RequestInv` that the checks
that let a request through still hold when flash is changed. `Refinement`
uses `IInv` for the simulation: a commit is `Switch`, an accepted BEGIN `Offer`,
giving an update up `Withdraw`, the rest stutters; that images are prefix-free
makes the image in a slot unique. `AlignInv` is what `WritesAreSafe` adds: `next_offset`
stays a multiple of the write unit until the last block, and then is the size; with
that, padding a block cannot reach past the sectors that BEGIN erased, as these
are a multiple of the unit too (`EraseEndWhole`). `CachedAnswerHolds` is inductive
with `PendingInv`, which ties the operation under way to the command of its request:
a DATA that completes stands, by `RequestInv`, at the offset that its request gave.

*The composition.* `Upgrade` puts the host's programs and the line around the
bootloader. `AnyFrames` says that the bootloader alone was specified with any frame
as its input (`Frames = Frame`); `DeviceIsBootloader` then takes every theorem about
the bootloader over to the whole. `ReceivedIsSent` is about two ends. The line only
ever holds blocks that are what the file has at their offsets (`HostFrame`), whatever
command, scenario or repeat they come from; this needs that every scenario's script
is well formed (`ScriptSound`), by an argument over how it is put together. On the
device `SlotInv` says what `ReceivedIsSent` cannot say for itself: what lies *after*
the received bytes is erased or is already what the file has there, left by a write that
failed half way, so that programming the block again leaves the right bytes although
programming only clears bits (`ProgramBlock`). A file that is changed is covered as the
program that reads the other file resets the device first.

*Stop-and-wait.* `InStep`, `OthersKeepSelection` and `DoneMeansSelected` are about a
line on which old requests and responses may still be under way when new ones are sent,
while the sequence numbers are few and come round. What makes old ones harmless is
their order, and `WindowInv` says so: along each queue, and along the whole way out,
through a flash operation and back, nothing older follows the current request
(`Ordered`), so that once its response is read nothing but its own repeats is left
(`ReadsLeaves`). The one exception is a HELLO that comes out of a block that has lost its
header (`astray`); it ends the update and so does no more harm. On that rest: what is
outstanding is the current request or the one before (`BehindInv`); a device that has
answered is just past the request, whatever else it has answered since (`StepInv`, with
`LastInv` on the response it keeps); BEGIN speaks of this run's file (`FrameInv`). A
host waits (`Rests`), goes on (`Advances`), pauses or ends (`Pauses`, `Ends`), or starts
afresh (`Greets`), and there is one argument for each of them instead of one for each
action.

A scenario does not move the selection because no END of it is ever carried out
(`ScenarioEndRefused`): in `bad-hash` the slot holds the file, by `ReceivedIsSent`,
and the declared digest is another's; `interrupted-transfer` has no END at all
(`TransferWithoutEnd`); in `protocol-errors` END comes after one block of a longer file.
The last needs an invariant of its own (`ErrorsInv`), as an END or a DATA sent again could
find the device further on: at most one block is written, and none after ABORT. Scripts
are followed through `Linked`, which says of two instructions in a row how their sequence
numbers are related; it is proved of the three scripts for any number of blocks.

`DoneMeansSelected` alone is not true of the code for every value of the constants:
`commit_target` may write the `ota_seq` 0xFFFFFFFF, which readers take for an erased
entry, and answer OK. `AcceptedIsSelected` says that this is the only way: `Exhausted`
is that an entry holds the last number that can be read. (2^32 updates are needed to get
there from an empty otadata.)

*The service.* Its target is the slot after the one that *runs*, so
`RunningSlotUntouched` needs no more than `UpdateInv`. What is selected is safe only
if it is what runs. `FlashInv` says so, except while a restart is under way, and
needs for it that the service restarts after every commit: this is `EndGetsOut`,
that the response to END is not among those that may fail. Run `AppUnsentEnd` is the
counterexample without it; the other five theorems do without. An update in
progress and the one handle go together in `UpdateInv`, and with the session
in `UpdateBelongsToSession`: an accepted request leaves an update behind only if it is
not the HELLO that restarts the session, and a session ends only with `AbortUpdate`.

*The window.* The buttons are the lock of the protocol between two threads, and
the invariant says who holds it: a worker that works, or the one event, last in the
queue, that will give it back. The rest of `IInv` ties the cancel flag to the job
that is running, and the count of late requests to where its worker stands. Only
`TakeEvent` gives the buttons back, and what the invariant says of the event it takes is
`OutcomeIsLogged`.

*The readers.* `Agree` is not inductive: it says nothing of a buffer that
both hold and should not. The invariant (`Inv`) is what both readers are a function
of: each is, at any time, where the decoder's loop ends on everything that was read,
`decoder = parser = Drain[stream]`. The work is in the operators. `Drain` calls itself on
shorter and shorter suffixes, and before anything can be said of its values it has to
be shown that there is a function with the values that its definition asks for
(`DrainIs`). The library's theorems on recursive definitions take an operator as a
parameter and cannot be used; so the function is put together from approximations
that are right up to a length, and every induction is over a set of numbers
(`Induction`, from the well-foundedness of `<`) or of strings (`ByLength`).

From there: the loop comes to rest on less than a whole frame (`DrainRests`, which
is `ReadersFit`), and on a longer stream it goes on from where it had rested
(`DrainAppend`); so cuts between reads make no difference. The parser does not
search as the decoder does. It drops bytes one at a time until there is a SOF, and
after a bad header looks for another SOF *once*, as what is left from there is shorter than
a header and cannot be judged yet; `PushIs` is that one push, byte by byte of a header, is one
step of `Drain`. `ScanIs` does the same for the definition without a buffer.

`RepeatsHeard` follows the loop over what the parser holds, then the copies. A bad
header takes it one byte further; a sound one takes it past what it calls a frame, which
is whatever a damaged length makes it, but no longer than `MaxPayload` allows, and
so begins before the last copy and, by the choice of `Enough`, does not reach beyond
its start. As no copy has a SOF inside and none arises where two copies meet
(`StartsOfCopies`), the first place in the copies where the loop stops is the start of
one, and that one is found whole (`CopyIsFound`). Nothing is assumed of the
checksums: they may accept any damaged frame.

Not proved: liveness (`LossesRepaired`, `QuietLineBoots`, `QuietLineReleases`,
`EveryJobEnds`), which is out of the prover's reach, and stays with TLC.

## 6. Not modelled

The host's `--no-reset` mode, which upgrades through the application, is not
composed with `IapService`; the service meets every order of frames there instead.
The wire is modelled in `FrameStream`
apart from the polynomials of the CRCs and the field layout of payloads;
`SerialUpgrade` starts from whole frames. Of the GUI the layout, which ports there are
and the checks of what is typed in are left out. Further: the
watchdog, the wording of responses, the set-up of the UART and the self-test at
start; rollback and Secure Boot, which the protocol does not use. `PROJECT.json`
lists each part with the reason.

## 7. Plan

Done, in this order: `OtaData`, `IapBootloader`, `BootImage`, `IapService`,
`HostClient`, `SerialUpgrade`, `FrameStream`, `GuiWindow`, `HardwareValidation`; the
proofs about the bootloader, the service, the window, the composition and the readers.

Left, in order of what matters most:

1. `Device`: bootloader and service over the same flash, with a host that talks to
   whichever runs (`--no-reset`); the target that each computes is never what boots.
2. An abstract specification of what the host is told, an upload that is reported
   done, failed or unknown, which `SerialUpgrade` implements.

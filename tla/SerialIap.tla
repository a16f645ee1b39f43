----------------------------- MODULE SerialIap -----------------------------
(***************************************************************************)
(* What the two implementations of the upgrade protocol share, the one in  *)
(* the bootloader and the one in the application: the OTA slots, the       *)
(* images, and the requests and responses of protocol.md.                  *)
(*                                                                         *)
(* Images and SHA-256 digests are modelled by the bytes they stand for (no *)
(* two images collide), a CRC of a payload by the payload.                 *)
(***************************************************************************)
EXTENDS OtaData, Sequences

CONSTANTS
  Byte, Erased, Dirty,  \* byte values; 0xFF, and a value no programming raises
  SlotSize,             \* bytes in an OTA slot
  Sector,               \* FLASH_SECTOR_SIZE
  Align,                \* IAP_WRITE_ALIGNMENT
  ValidImages,          \* what esp_image_verify accepts, to the last byte
  FlashEncryption,      \* esp_flash_encryption_enabled()
  SeqMod,               \* 2^16
  SessionTicks,         \* 100 ms receive calls in IAP_SESSION_TIMEOUT_MS
  Frames,               \* the frames the line may deliver
  InitOtadata, InitCells

Cells    == [1..SlotSize -> Byte]
Commands == {"HELLO", "INFO", "BEGIN", "DATA", "END", "ABORT", "BOOT", "other"}
Statuses == {"OK", "ERR_VERSION", "ERR_COMMAND", "ERR_SEQUENCE", "ERR_LENGTH",
             "ERR_STATE", "ERR_OFFSET", "ERR_FLASH", "ERR_IMAGE", "ERR_HASH"}

\* A frame that passed the parser.  size and data are BEGIN's image_size and
\* digest, offset and data are DATA's; sound says that the payload has the
\* length its command asks for.
Frame == [version: Nat, command: Commands, seq: 0..(SeqMod - 1),
          size: Nat, offset: Nat, data: Seq(Byte), sound: BOOLEAN]
\* The payload of a response; its header repeats the request's.
Reply == [status: Statuses, expected: 0..(SeqMod - 1), offset: Nat]

NoFrame   == [command |-> "none"]
NoReply   == [status |-> "none"]
NoRequest == [request |-> NoFrame, response |-> NoReply]

IsPrefixOf(img, c) == Len(img) <= SlotSize /\ SubSeq(c, 1, Len(img)) = img
Bootable(c)        == \E img \in ValidImages : IsPrefixOf(img, c)

SelectedBootable(d, s) == BootIndex(d) \in Slots => Bootable(s[BootIndex(d)])

ASSUME IapAssumption ==
  /\ Erased \in Byte /\ Dirty \in Byte
  /\ SlotSize \in Nat \ {0} /\ Sector \in Nat \ {0} /\ Align \in Nat \ {0}
  /\ SlotSize % Sector = 0 /\ Sector % Align = 0
  /\ ValidImages \subseteq Seq(Byte) \ {<<>>}
  /\ \A a, b \in ValidImages :
        Len(a) <= Len(b) /\ SubSeq(b, 1, Len(a)) = a => a = b
  /\ FlashEncryption \in BOOLEAN
  /\ SeqMod \in Nat /\ SeqMod > 1
  /\ SessionTicks \in Nat \ {0}
  /\ Frames \subseteq Frame
  /\ InitOtadata \subseteq Otadata
  /\ InitCells \subseteq Cells

\* --------------------------------------------------------------- flash ----
\* NOR flash: programming only clears bits, erasing sets them all.
Burn(old, new) ==
  IF old = Erased THEN new ELSE IF new \in {old, Erased} THEN old ELSE Dirty

Program(c, at, data) ==
  [i \in 1..SlotSize |->
     IF i \in (at + 1)..(at + Len(data)) THEN Burn(c[i], data[i - at]) ELSE c[i]]

\* The end of the sectors that erase_target_range erases for n bytes.
EraseEnd(n) == ((n + Sector - 1) \div Sector) * Sector

EraseTo(c, n) == [i \in 1..SlotSize |-> IF i <= n THEN Erased ELSE c[i]]

\* An erase that stopped: a part is erased, the rest of the range is as it was
\* or has lost its contents.
TornErase(c, n) ==
  {[i \in 1..SlotSize |-> IF i <= done THEN Erased
                          ELSE IF lost /\ i <= n THEN Dirty ELSE c[i]]
     : done \in 0..n, lost \in BOOLEAN}

\* A write that stopped: a part of the bytes is programmed.
TornProgram(c, at, data) ==
  {Program(c, at, SubSeq(data, 1, k)) : k \in 0..Len(data)}

\* ------------------------------------------------------------ responses ----
Response(status, expected, offset) ==
  [status |-> status, expected |-> expected, offset |-> offset]

\* The key of request_matches_last: command, sequence and payload, whatever
\* the version byte says.
Key(f) == [f EXCEPT !.version = 1]

=============================================================================

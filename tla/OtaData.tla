------------------------------ MODULE OtaData ------------------------------
(***************************************************************************)
(* The two-entry boot selection record (partition `otadata`) and the       *)
(* arithmetic that both the bootloader and the ESP-IDF libraries do on it. *)
(*                                                                         *)
(* An entry is the ota_seq it carries.  SeqMax stands for UINT32_MAX, the  *)
(* erased value: an entry whose CRC does not match counts as erased too,   *)
(* because every reader treats the two alike.                              *)
(***************************************************************************)
EXTENDS Integers

CONSTANTS AppCount,  \* OTA slots in the partition table (app_count)
          SeqMax     \* UINT32_MAX

ASSUME OtaDataAssumption == AppCount \in 0..2 /\ SeqMax \in Nat /\ SeqMax > 2

Entries == {0, 1}
Blank   == SeqMax
Otadata == [Entries -> 1..SeqMax]

Slots    == 0..(AppCount - 1)
Factory  == -1
NoTarget == -99           \* INVALID_INDEX

Valid(d, e) == d[e] # Blank

\* The entry bootloader_common_get_active_otadata picks: the valid one with
\* the larger sequence, entry 0 on a tie; -1 when neither is valid.
ActiveEntry(d) ==
  IF Valid(d, 0) /\ (Valid(d, 1) => d[0] >= d[1]) THEN 0
  ELSE IF Valid(d, 1) THEN 1 ELSE -1

\* What bootloader_utility_get_selected_boot_partition returns.
BootIndex(d) ==
  IF AppCount = 0 \/ ActiveEntry(d) = -1 THEN Factory
  ELSE (d[ActiveEntry(d)] - 1) % AppCount

\* Variant: every image goes to the first slot.
ChooseTargetFirst(boot) == IF AppCount < 2 THEN NoTarget ELSE 0

\* choose_target: the other slot of the pair; the factory image makes slot 0
\* the target.  Every slot has a non-zero offset and size (partitions.csv).
ChooseTarget(boot) ==
  IF AppCount < 2 THEN NoTarget ELSE IF boot = 0 THEN 1 ELSE 0

\* Variant: the entry in force is overwritten.
NextEntryInPlace(d) == IF ActiveEntry(d) = 1 THEN 1 ELSE 0

\* commit_target writes the entry that is not in force.
NextEntry(d) == IF ActiveEntry(d) = 0 THEN 1 ELSE 0

\* Variant: the sequence in force is not looked at.
NextSeqFirst(d, target) == target + 1

\* The loop of commit_target: the first member of target+1, target+1+AppCount,
\* ... that is not below the sequence in force.
NextSeq(d, target) ==
  LET first == target + 1
      floor == IF ActiveEntry(d) = -1 THEN 0 ELSE d[ActiveEntry(d)]
  IN  IF floor <= first THEN first
      ELSE first + AppCount * ((floor - first + AppCount - 1) \div AppCount)

\* The guard inside the loop: ERR_INVALID_SIZE instead of wrapping round.
SeqOverflows(d, target) == NextSeq(d, target) > SeqMax
=============================================================================

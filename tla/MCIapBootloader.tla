--------------------------- MODULE MCIapBootloader ---------------------------
(***************************************************************************)
(* The bootloader on the values of MCSerialIap.                            *)
(***************************************************************************)
EXTENDS IapBootloader, MCSerialIap

\* The responses sent and cached are no part of what the bootloader goes on
\* from: states that differ in nothing else are one.
Unanswered ==
  <<pc, flash, target_index, update, expected_sequence, last.request, idle,
    frame, running>>
=============================================================================

------------------------------ MODULE BootImage ------------------------------
(***************************************************************************)
(* What an upgrade session promises to the owner of the device: the image  *)
(* that boots is always one that verifies, and it is replaced only by the  *)
(* image that a host has offered, as a whole and in one step.              *)
(***************************************************************************)
CONSTANTS Images,    \* byte strings that verify as an application
          Strings,   \* byte strings a host may declare the digest of
          FactoryImage

VARIABLES image,     \* what the next boot starts
          offered    \* {s}: the session is receiving s; {}: nothing

vars == <<image, offered>>

Init ==
  /\ image \in Images \cup {FactoryImage}
  /\ offered = {}

Offer ==
  /\ offered = {}
  /\ \E s \in Strings : offered' = {s}
  /\ UNCHANGED image

Withdraw ==
  /\ offered' = {}
  /\ UNCHANGED image

Switch ==
  /\ image' \in offered \cap Images
  /\ offered' = {}

Next == Offer \/ Withdraw \/ Switch

Spec == Init /\ [][Next]_vars
=============================================================================

---------------------------- MODULE MCIapService ----------------------------
(***************************************************************************)
(* Values for the service: slots of one or two bytes, an image of each     *)
(* length, and BEGINs of an image, of bytes that are no image, of an image *)
(* with a byte too many and of more than a slot holds.                     *)
(***************************************************************************)
EXTENDS IapService, MCSerialIap

CONSTANTS Declares  \* the byte strings that BEGIN declares in this run

ServiceImages == {img \in {<<"a">>, <<"b", "a">>} : Len(img) <= SlotSize}

ServiceCells == {SubSeq(c, 1, SlotSize) : c \in {Blanks, <<"a", "FF">>}}
EmptyCells == {SubSeq(Blanks, 1, SlotSize)}

\* A device that has never been updated.
Fresh == {Pair(Blank, Blank)}

TooLong == SubSeq(<<"a", "b", "b">>, 1, SlotSize + 1)
OneImage == {<<"a">>, TooLong}
Everything ==
  ServiceImages \cup {<<"b">>, TooLong} \cup (IF SlotSize = 1 THEN {} ELSE {<<"a", "b">>})

ServiceBegins == {[Empty("BEGIN") EXCEPT !.size = Len(d), !.data = d] : d \in Declares}

ServiceData ==
  {[Empty("DATA") EXCEPT !.offset = o, !.data = <<x>>] :
     o \in 0..(SlotSize - 1), x \in {d[1] : d \in Declares}}

ServiceFrames ==
  {f \in {[g EXCEPT !.seq = n] : g \in ServiceBegins \cup ServiceData \cup OtherFrames,
                                 n \in 0..(SeqMod - 1)} \cup OddFrames :
     f.command \in UseCommands}

\* Without the payloads of a wrong length and the version that is not spoken.
SoundFrames == ServiceFrames \ OddFrames

\* The commands that update an image; with those that do nothing or give it up;
\* and with the one that ends the session.
AskingCommands == UpdateCommands \cup {"INFO", "ABORT", "other"}
EndingCommands == UpdateCommands \cup {"BOOT"}

\* The responses that may fail to get out: none, or those that open and end an update.
NoCommand == {}
EndAndEntry == {"HELLO", "BEGIN", "END"}

\* The response that went out last is no part of what the service goes on from:
\* states that differ in nothing else are one.
Unanswered ==
  <<running, flash, update, session, cache, age, restarting>>
=============================================================================

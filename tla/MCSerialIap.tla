---------------------------- MODULE MCSerialIap ----------------------------
(***************************************************************************)
(* Values for model checking: slots of a few bytes, images of odd and even *)
(* length, and the frames that make each guard of the request handlers     *)
(* bite.                                                                   *)
(***************************************************************************)
EXTENDS SerialIap

CONSTANTS UseCommands  \* the commands the line carries in this run

MCByte == {"a", "b", "FF", "00"}
ImageA == <<"a", "b", "b">>
ImageB == <<"b", "a">>
MCImages == {img \in {ImageA, ImageB} : Len(img) <= SlotSize}
\* An image with a byte after its end: esp_image_verify accepts what it starts
\* with, only the comparison of the lengths rejects it.
LongImage == ImageB \o <<"b">>

Blanks == <<"FF", "FF", "FF", "FF">>
MCInitCells == {SubSeq(c, 1, SlotSize) : c \in {Blanks, ImageA \o <<"FF">>}}

Pair(x, y) == [e \in Entries |-> IF e = 0 THEN x ELSE y]

\* Fresh from the factory, after three updates, after a commit that a power
\* failure cut.
MCInitOtadata == {Pair(Blank, Blank), Pair(3, 2), Pair(Blank, 2)}

Empty(c) == [version |-> 1, command |-> c, seq |-> 0, size |-> 0, offset |-> 0,
             data |-> <<>>, sound |-> TRUE]

\* BEGIN of each image, of an image with a byte too many, and of more bytes than
\* a slot has.
BeginFrames ==
  {[Empty("BEGIN") EXCEPT !.size = Len(d), !.data = d] :
     d \in MCImages \cup {LongImage}} \cup
  {[Empty("BEGIN") EXCEPT !.size = SlotSize + 1, !.data = ImageA]}

\* The images in blocks of one write unit, blocks of a single byte, and a block
\* that would go past the end of every image.
Block(img, o) == SubSeq(img, o + 1, IF o + Align < Len(img) THEN o + Align ELSE Len(img))

DataFrames ==
  {[Empty("DATA") EXCEPT !.offset = x[2], !.data = Block(x[1], x[2])] :
     x \in {y \in MCImages \X (0..SlotSize) :
              y[2] < Len(y[1]) /\ y[2] % Align = 0}} \cup
  {[Empty("DATA") EXCEPT !.data = <<"a">>],
   [Empty("DATA") EXCEPT !.offset = 1, !.data = <<"b">>],
   [Empty("DATA") EXCEPT !.offset = 2, !.data = <<"b", "a">>]}

OtherFrames == {Empty(c) : c \in {"HELLO", "INFO", "END", "ABORT", "BOOT", "other"}}

\* Payloads of a wrong length and a version the device does not speak.
OddFrames ==
  {[Empty(c) EXCEPT !.sound = FALSE] : c \in {"BEGIN", "DATA", "END", "ABORT"}} \cup
  {[Empty("HELLO") EXCEPT !.version = 2]}

MCFrames ==
  {f \in {[g EXCEPT !.seq = n] :
            g \in BeginFrames \cup DataFrames \cup OtherFrames,
            n \in 0..(SeqMod - 1)} \cup OddFrames :
     f.command \in UseCommands}

AllCommands == Commands
UpdateCommands == {"HELLO", "BEGIN", "DATA", "END"}
=============================================================================

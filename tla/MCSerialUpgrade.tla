--------------------------- MODULE MCSerialUpgrade ---------------------------
(***************************************************************************)
(* The upgrade with the images of MCSerialIap: an image of two blocks, one *)
(* of a single block, a file that has changed since it was hashed, and one *)
(* that has become shorter.                                                *)
(***************************************************************************)
EXTENDS SerialUpgrade, MCSerialIap

Intact(img) == [declared |-> img, content |-> img]

GoodUploads == {Intact(img) : img \in MCImages}
AllUploads ==
  GoodUploads \cup
  {[declared |-> ImageA, content |-> <<"a", "b", "a">>],
   [declared |-> ImageA, content |-> <<"a", "b">>]}

AllJobs ==
  {"flash", "info", "boot", "protocol-errors", "bad-hash", "interrupted-transfer"}
TestJobs  == {"flash", "protocol-errors", "bad-hash", "interrupted-transfer"}
OnlyFlash == {"flash"}

\* The frames of the host's program: nothing else is on the line.
HostFrames ==
  {[f EXCEPT !.seq = n] :
     f \in {Empty(c) : c \in {"HELLO", "INFO", "END", "ABORT", "BOOT"}} \cup
           {[Empty("BEGIN") EXCEPT !.size = Len(u.declared), !.data = u.declared] :
              u \in Uploads} \cup
           {[Empty("DATA") EXCEPT !.offset = o,
                                  !.data = SubSeq(u.content, o + 1, IF o + BlockLength < Len(u.content) THEN o + BlockLength ELSE Len(u.content))] :
              u \in Uploads, o \in {0, 2}},
     n \in 0..(SeqMod - 1)}

TinyCells == {SubSeq(Blanks, 1, SlotSize)}
FreshOtadata == {Pair(Blank, Blank)}
DataLosses == {"INFO", "DATA", "ABORT"}
BeginLosses == {"BEGIN"}
=============================================================================

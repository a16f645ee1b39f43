---------------------------- MODULE MCFrameStream ----------------------------
(***************************************************************************)
(* Frames on an alphabet of three bytes, two of which start a frame: the   *)
(* length 10 is too long, and a checksum is right by chance every third    *)
(* time.                                                                   *)
(***************************************************************************)
EXTENDS FrameStream

MCByte == {0, 1, 10}
Symbol(n) == <<0, 1, 10>>[(n % 3) + 1]

MCHeaderCrc(tag, length) == Symbol(tag + 2 * length + 1)
MCPayloadCrc(payload) == Symbol(FoldLeft(LAMBDA sum, b : sum + 2 * b, 1, payload))

\* <<1, 10, 0, 0, 1, 1>> ends in SofFirst; <<1, 10, 10, 1, 1, 10, 0>> has a SOF in it.
MCFrames == {[tag |-> 0, payload |-> <<>>], [tag |-> 10, payload |-> <<10>>]}
=============================================================================

----------------------------- MODULE FrameStream -----------------------------
(***************************************************************************)
(* The two readers of the serial line: the host's StreamDecoder, which is  *)
(* fed whatever a read returned, and the device's parser, which is pushed  *)
(* one byte at a time (protocol.py, iap_protocol.c).  The line carries     *)
(* frames, frames that lost or changed bytes, and bytes that belong to     *)
(* none, and both readers hear all of it.                                  *)
(*                                                                         *)
(* A header is <<SofFirst, SofSecond, tag, length, CRC>>, one byte each:   *)
(* the tag stands for version, command and sequence.  The trailer is one   *)
(* byte.  Checksums this short accept many a damaged frame; the readers    *)
(* must cope with those as well.                                           *)
(***************************************************************************)
EXTENDS Integers, SequencesExt

CONSTANTS
  Byte, SofFirst, SofSecond,
  MaxPayload,                    \* MAX_PAYLOAD_LENGTH
  HeaderCrc(_, _), PayloadCrc(_),
  Frames,                        \* the frames that are sent
  MaxFrames, MaxNoise            \* bounds: frames sent, single bytes between them

ASSUME FrameAssumption ==
  /\ Byte \subseteq Nat /\ {SofFirst, SofSecond} \subseteq Byte /\ SofFirst # SofSecond
  /\ MaxPayload \in Nat /\ 0..MaxPayload \subseteq Byte
  /\ \A t, n \in Byte : HeaderCrc(t, n) \in Byte
  /\ Frames \subseteq [tag: Byte, payload: BoundedSeq(Byte, MaxPayload)]
  /\ \A f \in Frames : PayloadCrc(f.payload) \in Byte
  /\ {MaxFrames, MaxNoise} \subseteq Nat

HeaderSize  == 5
TrailerSize == 1

VARIABLES
  line,      \* bytes sent and not read yet
  stream,    \* every byte read so far
  decoder,   \* StreamDecoder: what it holds, and the frames it has returned
  parser,    \* iap_parser_t: the same
  frames, noise

vars == <<line, stream, decoder, parser, frames, noise>>

Reader == [buffer: Seq(Byte), frames: Seq([tag: Byte, payload: Seq(Byte)])]
Fresh  == [buffer |-> <<>>, frames |-> <<>>]

\* ------------------------------------------------------------- one frame ----
Encode(f) ==
  <<SofFirst, SofSecond, f.tag, Len(f.payload), HeaderCrc(f.tag, Len(f.payload))>>
    \o f.payload \o <<PayloadCrc(f.payload)>>

FrameLength(b) == HeaderSize + b[4] + TrailerSize

\* Variant: the length is not compared with MAX_PAYLOAD_LENGTH.
CheckedHeader(b) == b[5] = HeaderCrc(b[3], b[4])

SoundHeader(b) == b[4] <= MaxPayload /\ b[5] = HeaderCrc(b[3], b[4])

Payload(raw) == SubSeq(raw, HeaderSize + 1, Len(raw) - TrailerSize)

\* decode_frame, given a whole frame with a sound header: the frame, or nothing.
Decode(raw) ==
  IF Last(raw) = PayloadCrc(Payload(raw))
  THEN <<[tag |-> raw[3], payload |-> Payload(raw)]>>
  ELSE <<>>

SofAt(b, i) == i < Len(b) /\ b[i] = SofFirst /\ b[i + 1] = SofSecond

From(b, i) == SubSeq(b, i, Len(b))

\* ----------------------------------------------------- the host's decoder ----
\* Variant: a first SOF byte at the end of a read is thrown away.
KeptWhole(b) ==
  LET sofs == {i \in DOMAIN b : SofAt(b, i)}
  IN  IF sofs # {} THEN From(b, Min(sofs)) ELSE <<>>

\* What may still become a frame: from the first SOF on, or a trailing SofFirst.
Kept(b) ==
  LET sofs == {i \in DOMAIN b : SofAt(b, i)}
  IN  IF sofs # {} THEN From(b, Min(sofs))
      ELSE IF IsSuffix(<<SofFirst>>, b) THEN <<SofFirst>> ELSE <<>>

\* The loop of feed, run on what the buffer holds.
Drain[bytes \in Seq(Byte)] ==
  LET b == Kept(bytes)
  IN  IF Len(b) < HeaderSize THEN [buffer |-> b, frames |-> <<>>]
      ELSE IF ~SoundHeader(b) THEN Drain[Tail(b)]
      ELSE IF Len(b) < FrameLength(b) THEN [buffer |-> b, frames |-> <<>>]
      ELSE LET rest == Drain[From(b, FrameLength(b) + 1)]
           IN  [rest EXCEPT !.frames = Decode(SubSeq(b, 1, FrameLength(b))) \o @]

Feed(reader, data) ==
  LET drained == Drain[reader.buffer \o data]
  IN  [drained EXCEPT !.frames = reader.frames \o @]

\* ------------------------------------------------------ the device's parser ----
\* Variant: a candidate with an unsound header is dropped as a whole.
KeepNothing(b) == <<>>

KeepPossibleSof(b) ==
  LET sofs == {i \in 2..Len(b) : SofAt(b, i)}
  IN  IF sofs # {} THEN From(b, Min(sofs))
      ELSE IF Last(b) = SofFirst THEN <<SofFirst>> ELSE <<>>

\* What the parser does with a byte that it has added to its buffer.
Parse(b) ==
  IF Len(b) < HeaderSize THEN [buffer |-> b, frames |-> <<>>]
  ELSE IF ~SoundHeader(b) THEN [buffer |-> KeepPossibleSof(b), frames |-> <<>>]
  ELSE IF Len(b) < FrameLength(b) THEN [buffer |-> b, frames |-> <<>>]
  ELSE [buffer |-> <<>>, frames |-> Decode(b)]

\* iap_protocol_parser_push, when the buffer has room for the byte.
Push(reader, byte) ==
  LET b      == reader.buffer
      parsed == CASE b = <<>> -> IF byte = SofFirst THEN [Fresh EXCEPT !.buffer = <<byte>>]
                                 ELSE Fresh
                  [] Len(b) = 1 /\ byte = SofFirst -> [Fresh EXCEPT !.buffer = b]
                  [] Len(b) = 1 /\ byte \notin {SofFirst, SofSecond} -> Fresh
                  [] OTHER -> Parse(Append(b, byte))
  IN  [parsed EXCEPT !.frames = reader.frames \o @]

PushAll(reader, data) ==
  LET pushed[i \in 0..Len(data)] ==
        IF i = 0 THEN reader ELSE Push(pushed[i - 1], data[i])
  IN  pushed[Len(data)]

\* ------------------------------------------------------------------ steps ----
\* What may arrive of the bytes s: all of them, all but a run, or one changed.
Arriving(s) ==
  (UNION {{SubSeq(s, 1, i) \o From(s, j) : j \in (i + 1)..(Len(s) + 1)} : i \in 0..Len(s)})
  \cup {[s EXCEPT ![i] = b] : i \in DOMAIN s, b \in Byte}

Init ==
  /\ line = <<>> /\ stream = <<>>
  /\ decoder = Fresh /\ parser = Fresh
  /\ frames = 0 /\ noise = 0

Send(f) ==
  /\ frames < MaxFrames
  /\ \E s \in Arriving(Encode(f)) : line' = line \o s
  /\ frames' = frames + 1
  /\ UNCHANGED <<stream, decoder, parser, noise>>

Noise(byte) ==
  /\ noise < MaxNoise
  /\ line' = Append(line, byte)
  /\ noise' = noise + 1
  /\ UNCHANGED <<stream, decoder, parser, frames>>

\* One read of n bytes, at each end.
Read(n) ==
  /\ stream'  = stream \o SubSeq(line, 1, n)
  /\ decoder' = Feed(decoder, SubSeq(line, 1, n))
  /\ parser'  = PushAll(parser, SubSeq(line, 1, n))
  /\ line'    = From(line, n + 1)
  /\ UNCHANGED <<frames, noise>>

Next ==
  \/ \E f \in Frames : Send(f)
  \/ \E b \in Byte : Noise(b)
  \/ \E n \in 1..Len(line) : Read(n)

Spec == Init /\ [][Next]_vars

\* ------------------------------------------------------------- properties ----
\* The readers' memory is bounded: neither holds a whole frame of the greatest
\* length, so the parser's overflow branch cannot be reached.
TypeOK ==
  /\ {decoder, parser} \subseteq Reader
  /\ Len(decoder.buffer) < HeaderSize + MaxPayload + TrailerSize
  /\ {line, stream} \subseteq Seq(Byte)

\* Host and device hear the same: whatever is on the line, and however it is cut
\* into reads, StreamDecoder.feed and iap_protocol_parser_push have found the
\* same frames and hold the same bytes.
Agree == decoder = parser

\* The frames of a whole stream, found without a buffer: look for a SOF from
\* position i on, and go on one byte or one frame further.
Scan(s) ==
  LET found[i \in 1..(Len(s) + 1)] ==
        LET sofs == {j \in i..Len(s) : SofAt(s, j)}
            at   == Min(sofs)
            b    == From(s, at)
        IN  IF sofs = {} \/ Len(b) < HeaderSize THEN <<>>
            ELSE IF ~SoundHeader(b) THEN found[at + 1]
            ELSE IF Len(b) < FrameLength(b) THEN <<>>
            ELSE Decode(SubSeq(b, 1, FrameLength(b))) \o found[at + FrameLength(b)]
  IN  found[1]

\* The decoder recovers the frames of "an arbitrary byte stream" (protocol.py:191)
\* incrementally: it has returned those of the whole stream, however the stream
\* was cut into reads.
IncrementalIsWhole == decoder.frames = Scan(stream)

\* As many copies of f as it takes from any state of the reader: those that a
\* cut frame may still swallow, and one.
Enough(f) ==
  LET length == Len(Encode(f))
      most   == HeaderSize + MaxPayload + TrailerSize - 1
  IN  (most + length - 1) \div length + 1

\* Repeats get through: a frame without a SOF inside it reaches the device, in
\* whatever state a cut or damaged frame has left the parser, when it is sent
\* again often enough (docs/protocol.md:98: what fails a check is dropped,
\* and the host sends again when its time is up).
RepeatsGetThrough ==
  \A f \in Frames :
    (\A i \in 2..Len(Encode(f)) : ~SofAt(Encode(f), i)) =>
      LET copies == FlattenSeq([i \in 1..Enough(f) |-> Encode(f)])
      IN  Contains(PushAll([parser EXCEPT !.frames = <<>>], copies).frames, f)
=============================================================================

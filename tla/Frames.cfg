SPECIFICATION Spec
CONSTANTS
  Byte <- MCByte
  SofFirst = 1
  SofSecond = 10
  MaxPayload = 1
  HeaderCrc <- MCHeaderCrc
  PayloadCrc <- MCPayloadCrc
  Frames <- MCFrames
  MaxFrames = 2
  MaxNoise = 1
INVARIANTS
  TypeOK
  Agree
  IncrementalIsWhole
  RepeatsGetThrough
CHECK_DEADLOCK FALSE

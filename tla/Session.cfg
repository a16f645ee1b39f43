SPECIFICATION FairSpec
CONSTANTS
  AppCount = 2
  SeqMax = 4
  Byte <- MCByte
  Erased = "FF"
  Dirty = "00"
  SlotSize = 2
  Sector = 1
  Align = 1
  ValidImages <- MCImages
  FlashEncryption = FALSE
  SeqMod = 3
  SessionTicks = 2
  Frames <- MCFrames
  InitOtadata <- MCInitOtadata
  InitCells <- MCInitCells
  UseCommands <- AllCommands
INVARIANTS
  CachedAnswerHolds
PROPERTIES
  QuietLineBoots
CHECK_DEADLOCK FALSE

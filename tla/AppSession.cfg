SPECIFICATION FairSpec
CONSTANTS
  AppCount = 2
  SeqMax = 3
  Byte <- MCByte
  Erased = "FF"
  Dirty = "00"
  SlotSize = 1
  Sector = 1
  Align = 1
  ValidImages <- ServiceImages
  FlashEncryption = FALSE
  SeqMod = 2
  SessionTicks = 2
  Frames <- SoundFrames
  InitOtadata <- Fresh
  InitCells <- EmptyCells
  Declares <- OneImage
  UseCommands <- EndingCommands
  Unsendable <- EndAndEntry
INVARIANTS
  UpdateBelongsToSession
  OneOpenHandle
PROPERTIES
  RunningSlotUntouched
  RepeatHasNoEffect
  QuietLineReleases

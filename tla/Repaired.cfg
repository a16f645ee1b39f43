SPECIFICATION FairUpgrade
CONSTANTS
  AppCount = 2
  SeqMax = 5
  Byte <- MCByte
  Erased = "FF"
  Dirty = "00"
  SlotSize = 4
  Sector = 2
  Align = 2
  ValidImages <- MCImages
  FlashEncryption = FALSE
  SeqMod = 3
  SessionTicks = 4
  Frames <- HostFrames
  InitOtadata <- FreshOtadata
  InitCells <- TinyCells
  UseCommands <- AllCommands
  Uploads <- AllUploads
  Jobs <- TestJobs
  MayCancel = TRUE
  BlockLength = 2
  MaxAttempts = 3
  ShortTimeout = 1
  LongTimeout = 5
  TestBlocks = 1
  SettleTicks = 2
  Prompt = TRUE
  MayFail = FALSE
  Losable <- DataLosses
  Embeds = FALSE
  MaxLosses = 2
  MaxRuns = 2
  MaxInFlight = 2
PROPERTY
  LossesRepaired
CHECK_DEADLOCK FALSE

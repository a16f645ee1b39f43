SPECIFICATION Upgrade
CONSTANTS
  AppCount = 2
  SeqMax = 5
  Byte <- MCByte
  Erased = "FF"
  Dirty = "00"
  SlotSize = 4
  Sector = 2
  Align = 2
  ValidImages <- MCImages
  FlashEncryption = FALSE
  SeqMod = 3
  SessionTicks = 1
  Frames <- HostFrames
  InitOtadata <- FreshOtadata
  InitCells <- TinyCells
  UseCommands <- AllCommands
  Uploads <- AllUploads
  Jobs <- AllJobs
  MayCancel = TRUE
  BlockLength = 2
  MaxAttempts = 3
  ShortTimeout = 1
  LongTimeout = 1
  TestBlocks = 1
  SettleTicks = 2
  Prompt = FALSE
  MayFail = TRUE
  Losable <- AllCommands
  Embeds = TRUE
  MaxLosses = 1
  MaxRuns = 2
  MaxInFlight = 3
INVARIANTS
  DoneMeansSelected
  ReceivedIsSent
  InStep
  OthersKeepSelection
CHECK_DEADLOCK FALSE

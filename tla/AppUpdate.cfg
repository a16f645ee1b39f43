SPECIFICATION Spec
CONSTANTS
  AppCount = 2
  SeqMax = 4
  Byte <- MCByte
  Erased = "FF"
  Dirty = "00"
  SlotSize = 2
  Sector = 1
  Align = 1
  ValidImages <- ServiceImages
  FlashEncryption = FALSE
  SeqMod = 2
  SessionTicks = 1
  Frames <- ServiceFrames
  InitOtadata <- MCInitOtadata
  InitCells <- ServiceCells
  Declares <- Everything
  UseCommands <- AskingCommands
  Unsendable <- NoCommand
INVARIANTS
  TypeOK
  SelectedAlwaysBootable
PROPERTIES
  SelectedSlotUntouched
  SelectionMovesToVerified
VIEW Unanswered

SPECIFICATION Spec
CONSTANTS
  AppCount = 2
  SeqMax = 4
  Byte <- MCByte
  Erased = "FF"
  Dirty = "00"
  SlotSize = 4
  Sector = 2
  Align = 2
  ValidImages <- MCImages
  FlashEncryption = FALSE
  SeqMod = 2
  SessionTicks = 1
  Frames <- MCFrames
  InitOtadata <- MCInitOtadata
  InitCells <- MCInitCells
  UseCommands <- UpdateCommands
INVARIANTS
  TypeOK
  SelectedAlwaysBootable
  CommitSelectsTarget
  WriteInErasedUnits
PROPERTIES
  SelectedSlotUntouched
  SelectionMovesToVerified
  ImplementsBootImage
CHECK_DEADLOCK FALSE
VIEW Unanswered

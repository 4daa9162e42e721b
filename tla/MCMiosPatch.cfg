SPECIFICATION Spec
CONSTANTS
  Elfs <- MCElfs
  Dol <- MCDol
  MaxHeaders = 3
  FileSize = 9
  EhdrSize = 2
  PhdrSize = 1
  CopySize = 6
  ArmSize = 1
  Align = 2
  EntryAddr = 10
  CodeFrom = 20
  CodeTo = 30
  LoadAddr = 25
  OldEntry = 77
  NewEntry = 88
INVARIANTS TypeOK FitsInSize PatchedImage RefusesRightly
CHECK_DEADLOCK FALSE

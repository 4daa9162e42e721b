SPECIFICATION Spec
CONSTANTS
  Messages <- MCMessages
  MaxLength = 20
  Block = 8
  Word = 64
  LenSize = 4
  Base = 8
INVARIANTS TypeOK NothingLost CountIsLength PadsMessage
CHECK_DEADLOCK FALSE

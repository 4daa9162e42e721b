SPECIFICATION CipherSpec
CONSTANTS
  Keys <- MCKeys
  Blocks <- MCBlocks
INVARIANTS CallsUndo Example
PROPERTY StandardSpec
CHECK_DEADLOCK FALSE

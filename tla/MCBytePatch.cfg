SPECIFICATION Spec
CONSTANTS
  Patches <- MCPatches
  Memories <- MCMemories
  Sizes = {1, 2, 6, 8}
  Cut = 2
  Word = 16
  MemTop = 8
INVARIANTS TypeOK ReplacesMatches ChangesOnlyMatches
CHECK_DEADLOCK FALSE

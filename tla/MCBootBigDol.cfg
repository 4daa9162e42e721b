SPECIFICATION Spec
CONSTANTS
  MemTop = 17
  Base <- OrderedBase
  MarkerAt = 8
  Word = {"a", "b", "x"}
  Stale = "x"
  Marker = "gchomebrew dol"
  Files <- BigDols
  BooterBuilds = {"file"}
  BooterMagics = {"fileEcc"}
  ShortReads = FALSE
  INJECT = FALSE
  MaxDecay = 0
  MaxBoots = 1
INVARIANTS FiveCopiesMade

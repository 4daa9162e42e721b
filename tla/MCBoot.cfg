SPECIFICATION FairSpec
CONSTANTS
  MemTop = 10
  Base <- MCBase
  MarkerAt = 5
  Word = {"a", "b", "x"}
  Stale = "x"
  Marker = "gchomebrew dol"
  Files <- FittingDols
  BooterBuilds = {"inject", "file"}
  BooterMagics = {"file", "fileEcc"}
  ShortReads = FALSE
  INJECT = TRUE
  MaxDecay = 2
  MaxBoots = 2
INVARIANTS TypeOK DiHandshake LaunchedIsFile EccRecovers EccRepairsTwoCopies
PROPERTIES PolicySpec EveryBootEnds

SPECIFICATION DownloadSpec
CONSTANTS
  Wads <- WithModule
  Calls <- AnyCall
  PatchedSizes <- Sizes
  MaxRuns = 2
INVARIANTS HeapSafe KnownLeaksOnly HashedFits
PROPERTY StoreSpec
\* The installer ends, and the user need not start it again.
CHECK_DEADLOCK FALSE

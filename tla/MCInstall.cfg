SPECIFICATION Spec
CONSTANTS
  Wads <- WithModule
  Calls <- AnyCall
  PatchedSizes <- Sizes
  MaxRuns = 3
INVARIANTS TypeOK HeapSafe NothingLeftOpen BuffersHold SubmittedConsistent
PROPERTY StoreSpec
\* The installer ends, and the user need not start it again.
CHECK_DEADLOCK FALSE

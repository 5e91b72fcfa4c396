SPECIFICATION DetectionSpec
CONSTANTS
  None = None
  Lifecycles = {"a", "b"}
  Life <- MCLife
  Calls = {"a1", "a2", "a3", "b1"}
  Call <- MCCall
  Files = {"f", "g"}
  Empty = 0
  Signature <- MCSignature
  Imports <- MCImports
  Capabilities <- MCCapabilities
  Target = "main"
  Foreign <- MCForeign
  MaxFaults = 1
  Breaking <- MCBreaking
  MaxRuns = 2
  Together = FALSE
  States = {"delivered"}
INVARIANTS LogReplays ConcurrencySound OverlapReported AttributedWritten SliceWhole ReportedOnce FindingsGrounded
CHECK_DEADLOCK FALSE

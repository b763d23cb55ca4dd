SPECIFICATION Spec
CONSTANTS
  Invocations <- Lenient
  MaxPatchAttempts = 1
  HasReproTest = TRUE
  HasCheck = FALSE
  MaxRuns = 1
  MaxCrashes = 0
CHECK_DEADLOCK FALSE
INVARIANT RollbackHasReason

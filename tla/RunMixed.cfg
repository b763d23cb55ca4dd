SPECIFICATION FairSpec
CONSTANTS
  Invocations <- Mixed
  MaxPatchAttempts = 2
  HasReproTest = TRUE
  HasCheck = TRUE
  MaxRuns = 2
  MaxCrashes = 1
CHECK_DEADLOCK FALSE
INVARIANTS
  TypeOK
  TreeInv
  AcceptedPatchStays
  ReportedTicketIsSaved
  TrialPatchIsRecoverable
  NoStackingWithoutConsent
  CallBudget
PROPERTIES
  MemoGrowsUnlessTorn
  NoSpentStrategyIsRetried
  RecordedArtifactsAreKept
  RunMovesOn
  ImplementsContract
  RunEndsOrWaits

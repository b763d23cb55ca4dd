SPECIFICATION Spec
CONSTANTS
  Procs = {p1, p2}
  Tickets = {t1, t2}
  MaxAttempts = 2
  MaxRuns = 3
  MaxCrashes = 1
  MaxTime = 0
SYMMETRY Symmetry
CHECK_DEADLOCK FALSE
INVARIANTS
  TypeOK
  TreeIsShared
  PassedTicketHasItsPatch
  PassedTicketCanBeReverted
PROPERTIES
  AttemptsAreLostToOverlapOrTear
  ReportsOfOthersSurvive

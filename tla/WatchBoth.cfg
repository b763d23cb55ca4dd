SPECIFICATION FairSpec
CONSTANTS
  AutoApproves = {TRUE, FALSE}
  MaxAttempts = 2
  MaxTickets = 2
  MaxPolls = 2
CHECK_DEADLOCK FALSE
INVARIANTS
  TypeOK
  SummaryAddsUp
  StopBoundsWork
  ConsentPerPatch
PROPERTIES
  
  StopEndsOrWaits

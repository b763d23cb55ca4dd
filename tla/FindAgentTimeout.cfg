SPECIFICATION Spec
CONSTANTS
  AutoApproves = {FALSE}
  MaxAttempts = 2
  MaxTickets = 2
  MaxPolls = 1
CHECK_DEADLOCK FALSE
INVARIANT AgentTimeoutIsSurvived

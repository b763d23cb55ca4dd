SPECIFICATION Spec
CONSTANTS
  Regexes <- Patterns
  Payloads <- SomePayloads
  Worlds <- SomeWorlds
  Redacted <- Sanitized
  MaxTickets = 2
  MaxEdits = 5
CHECK_DEADLOCK FALSE
INVARIANTS
  TypeOK
  EveryFailureIsFiled
  AcceptedCheckIsGreen
  UnapprovedPatchIsConfigured

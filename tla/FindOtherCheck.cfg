SPECIFICATION Spec
CONSTANTS
  Regexes <- Patterns
  Payloads <- KeyOnly
  Worlds <- SomeWorlds
  Redacted <- Sanitized
  MaxTickets = 1
  MaxEdits = 4
CHECK_DEADLOCK FALSE
INVARIANT ExactCheckIsGreen

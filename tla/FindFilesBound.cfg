SPECIFICATION Spec
CONSTANTS
  Regexes <- Patterns
  Payloads <- ReadmeOnly
  Worlds <- SomeWorlds
  Redacted <- Sanitized
  MaxTickets = 1
  MaxEdits = 4
CHECK_DEADLOCK FALSE
INVARIANT FilesBoundIsKept

SPECIFICATION Spec
CONSTANTS
  Procs = {p1}
  Signals = {s2}
  Silent = {s2}
  MaxCommands = 4
  MaxIds = 2
CHECK_DEADLOCK FALSE
INVARIANT AcceptedSignalHolds

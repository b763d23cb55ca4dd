SPECIFICATION Spec
CONSTANTS
  Procs = {p1, p2}
  Signals = {s1, s2}
  Silent = {s2}
  MaxCommands = 3
  MaxIds = 3
SYMMETRY Symmetry
CHECK_DEADLOCK FALSE
INVARIANTS
  TypeOK
  NoRegressionMissed
PROPERTIES
  OldTicketsAreLeftAlone

SPECIFICATION Spec
CONSTANTS
  Account = {a1, a2}
  Command = {c1, c2}
  Plan = {p1, p2}
  None = None
  MaxLogins = 3
  MaxGenerations = 2
  MaxUpsets = 1
  MaxCommands = 3
INVARIANT ServedByItsContext
PROPERTY RecordedJobsSurvive
SYMMETRY Symmetry
CHECK_DEADLOCK FALSE

SPECIFICATION Spec
CONSTANTS
  Operation = {"DeleteAllMessagesAndLeave"}
  Client = {c1}
  Sizes <- MCSizes
  MaxPrompts = 1
  MaxSpawns = 1
  MaxCalls = 0
  MaxRates = 0
  MaxSetbacks = 0
  MaxTroubles = 0
INVARIANT LeavesNothingEligible
CHECK_DEADLOCK FALSE

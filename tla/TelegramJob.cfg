SPECIFICATION FairSpec
CONSTANTS
  Operation = {"ClearHistoryAndLeave", "DeleteAllMessagesAndLeave", "DeleteGroup"}
  Client = {c1, c2}
  Sizes <- MCSizes
  MaxPrompts = 1
  MaxSpawns = 2
  MaxCalls = 1
  MaxRates = 1
  MaxSetbacks = 1
  MaxTroubles = 1
INVARIANTS PhasesInOrder CompletedMeansDone SendsAreAllowed
PROPERTIES ComesToRest OwnRecordsAreAccepted
CHECK_DEADLOCK FALSE

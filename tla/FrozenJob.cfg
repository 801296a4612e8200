SPECIFICATION FairSpec
CONSTANTS
  Plan = {p1}
  Job = {j1}
  Client = {c1}
  None = None
  Ends <- OneThenTwo
  MaxApprovals = 1
  MaxRateLimits = 1
  MaxFaults = 1
  MaxCrashes = 1
INVARIANTS DeletedIsReal RecordIsHonest WaitingJobHasWorker
PROPERTIES EveryJobEnds CommandsReturn

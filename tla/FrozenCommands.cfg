SPECIFICATION Spec
CONSTANTS
  Plan = {p1}
  Job = {j1, j2}
  Client = {c1, c2}
  None = None
  Ends <- OneBatch
  MaxApprovals = 2
  MaxRateLimits = 0
  MaxFaults = 1
  MaxCrashes = 1
SYMMETRY Symmetry
INVARIANTS CancelIsFinal NoReplay StoppedIsQuiet ApprovalSpentOnce

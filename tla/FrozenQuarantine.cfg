SPECIFICATION Spec
CONSTANTS
  Plan = {p1, p2}
  Job = {j1, j2}
  Client = {c1}
  None = None
  Ends <- OneBatch
  MaxApprovals = 1
  MaxRateLimits = 1
  MaxFaults = 0
  MaxCrashes = 0
INVARIANT QueuedStaysCancellable

CONSTANTS
  Process = {p1, p2}
  Change = {t1, t2}
  None = None
  Imported = Imported
  MaxFaults = 2
  MaxDeaths = 2
SPECIFICATION Spec
INVARIANT SavedIsDurable
PROPERTY IsDurableJobs

CONSTANTS
  Call = {c1, c2, c3}
  Account = {a1, a2}
  Old = Old
  OldAccount = a1
  None = None
  MaxFaults = 1
SPECIFICATION FairSpec
INVARIANT ForgetErases
PROPERTIES SupersededChangesNothing VerifyingEnds

CONSTANTS
  d1 = d1  v1 = v1  v2 = v2  m1 = m1  ch1 = ch1
  None = None
  Call = {d1, v1, v2}
  Deletes = {d1}
  Message = {m1}
  Channel = {ch1}
  Target <- OneMessage
  ChannelOf <- OneChannel
  Permits = 2
  MaxLocks = 1
  MaxAttempts = 2
  MaxLimits = 1
SPECIFICATION FairSpec
INVARIANTS ChannelSerialized ConfirmedIsAbsent EditedSurvives
PROPERTY CallReturns

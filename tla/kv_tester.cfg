CONSTANTS
  Server = {s1, s2}
  Client = {k}
  Call = {c1}
  MaxStarts = 2
SPECIFICATION FairSpec
INVARIANTS PositiveReplyIsDurable OldInstanceSilent
PROPERTIES RemoteCallSpec OldInstanceWritesApart CallReturns
CHECK_DEADLOCK FALSE

CONSTANTS
  s1 = s1
  s2 = s2
  s3 = s3
  Server = {s1, s2}
  Command = {a, b}
  Nil = Nil
  Elections <- OneCandidate
  MaxCalls = 1
  Crashable = {}
  Readers = {s1, s2}
SPECIFICATION FairSpec
PROPERTIES CommandApplied
CHECK_DEADLOCK FALSE

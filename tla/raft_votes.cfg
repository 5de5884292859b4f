CONSTANTS
  s1 = s1
  s2 = s2
  s3 = s3
  Server = {s1, s2, s3}
  Command = {a}
  Nil = Nil
  Elections <- TwoCandidates
  MaxCalls = 1
  Crashable = {s1, s2, s3}
  Readers = {}
SPECIFICATION Spec
SYMMETRY Symmetry
INVARIANTS OneVotePerTerm OneMajorityPerTerm ElectionSafety MatchIsDurable CommittedOnMajority
PROPERTIES VotingSpec
CHECK_DEADLOCK FALSE

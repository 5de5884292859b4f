CONSTANTS
  s1 = s1
  s2 = s2
  s3 = s3
  Server = {s1, s2}
  Command = {a, b}
  Nil = Nil
  Elections <- TwoTerms
  MaxCalls = 1
  Crashable = {s1, s2}
  Readers = {}
SPECIFICATION Spec
SYMMETRY Symmetry
INVARIANTS TypeOK PersistedIsCurrent IndexIsPosition EntryTermsBounded OwnMatchInLog
PROPERTIES TermsNeverDecrease
CHECK_DEADLOCK FALSE

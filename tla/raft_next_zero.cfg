CONSTANTS
  s1 = s1
  s2 = s2
  s3 = s3
  Server = {s1, s2}
  Command = {}
  Nil = Nil
  Elections <- Return
  MaxCalls = 1
  Crashable = {}
  Readers = {s1, s2}
SPECIFICATION Spec
SYMMETRY Symmetry
INVARIANTS NextIndexPositive
CHECK_DEADLOCK FALSE

CONSTANTS
  s1 = s1
  s2 = s2
  s3 = s3
  Server = {s1, s2}
  Command = {a, b}
  Nil = Nil
  Elections <- FirstTerm
  MaxCalls = 1
  Crashable = {s1, s2}
  Readers = {s1, s2}
SPECIFICATION Spec
SYMMETRY Symmetry
INVARIANTS ApplyInOrder StateMachineSafety
CHECK_DEADLOCK FALSE

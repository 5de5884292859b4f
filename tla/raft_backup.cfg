CONSTANTS
  Command = {"cmd"}
  MaxLen = 5
  MaxTerm = 4
SPECIFICATION FairSpec
INVARIANTS MergeIsTheLoop NextInLog FewRounds Agreement NothingCut
PROPERTIES BackoffDescends EventuallyMatched
CHECK_DEADLOCK FALSE

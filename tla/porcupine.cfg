CONSTANT
  Checks <- SmallChecks
SPECIFICATION FairSpec
INVARIANTS VerdictIsRight ChoicesTakenBack DeadEndsAreDead LongestIsLongest
 
CHECK_DEADLOCK FALSE

CONSTANTS
  NShards = 2
  Groups0 <- TwoGroups
  Leader <- SecondLeads
  Masters = 2
  MasterLeader = 2
  Updates <- Reconfiguration
  Key <- OneKey
  MaxOps = 1
SPECIFICATION FairSpec
INVARIANTS ReturnMeansExecuted
PROPERTIES  ClerksReturn
CHECK_DEADLOCK FALSE

SPECIFICATION FairSpec
CONSTANTS
  Node <- MCNode
  NoNode = NoNode
  NoRow = NoRow
  Flows = {"loop", "short"}
  FlowData <- MCFlowData
  MaxRequests = 2
  MaxExecutions = 2
  MaxIterations = 9
  MaxLoopCount = 2
  Concurrent = FALSE
  Nameable = {}
  Budget <- EditBudget
PROPERTIES
  Settles
CHECK_DEADLOCK FALSE

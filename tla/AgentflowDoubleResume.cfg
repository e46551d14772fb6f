SPECIFICATION Spec
CONSTANTS
  Node <- MCNode
  NoNode = NoNode
  NoRow = NoRow
  Flows = {"short"}
  FlowData <- MCFlowData
  MaxRequests = 3
  MaxExecutions = 3
  MaxIterations = 7
  MaxLoopCount = 2
  Concurrent = TRUE
  Nameable = {}
  Budget <- NoDisturbance
INVARIANTS
  OneDriver
CHECK_DEADLOCK FALSE

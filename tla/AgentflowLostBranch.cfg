SPECIFICATION Spec
CONSTANTS
  Node <- MCNode
  NoNode = NoNode
  NoRow = NoRow
  Flows = {"side"}
  FlowData <- MCFlowData
  MaxRequests = 2
  MaxExecutions = 2
  MaxIterations = 7
  MaxLoopCount = 2
  Concurrent = FALSE
  Nameable = {}
  Budget <- NoDisturbance
INVARIANTS
  ResumeLosesNoBranch
CHECK_DEADLOCK FALSE

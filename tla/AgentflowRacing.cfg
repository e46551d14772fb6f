SPECIFICATION Spec
CONSTANTS
  Node <- MCNode
  NoNode = NoNode
  NoRow = NoRow
  Flows = {"short", "twoStarts"}
  FlowData <- MCFlowData
  MaxRequests = 3
  MaxExecutions = 3
  MaxIterations = 7
  MaxLoopCount = 2
  Concurrent = TRUE
  Nameable = {}
  Budget <- RacingBudget
INVARIANTS
  RowMatchesData
  OneAnswerOneGate
CHECK_DEADLOCK FALSE

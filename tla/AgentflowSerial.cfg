SPECIFICATION Spec
CONSTANTS
  Node <- MCNode
  NoNode = NoNode
  NoRow = NoRow
  Flows = {"review", "loop", "patient", "fork"}
  FlowData <- MCFlowData
  MaxRequests = 3
  MaxExecutions = 3
  MaxIterations = 7
  MaxLoopCount = 2
  Concurrent = FALSE
  Nameable = {"start"}
  Budget <- SerialBudget
INVARIANTS
  TypeOK
  RowMatchesData
  OneAnswerOneGate
  JoinWaitsForAll
  NoBranchForgotten
  LoopBodyBounded
PROPERTIES
  RefinesLifecycle
CHECK_DEADLOCK FALSE

SPECIFICATION FairSpec
CONSTANTS
  f1 = f1
  f2 = f2
  Flows <- MCFlows
  FlowId <- MCSameId
  NoFlow = NoFlow
  MaxFlows = 2
  Buffered = 1
INVARIANTS FlowsKept
PROPERTIES RunReturns
CHECK_DEADLOCK FALSE

SPECIFICATION FairSpec
CONSTANTS
  f1 = f1
  f2 = f2
  Flows <- MCOneFlow
  FlowId <- MCOneId
  NoFlow = NoFlow
  MaxFlows = 2
  Buffered = 1
PROPERTIES ShutdownReturns
CHECK_DEADLOCK FALSE

SPECIFICATION FairSpec
CONSTANTS
  TCPFlows <- MCTCPFlows
  UDPFlows <- MCUDPFlows
  FlowId <- MCFlowId
  Streams <- MCStreams
  Plans <- MCPlans
  None = None
  MaxFlows = 2
  Buffered = 1
INVARIANTS FlowsKept EndsClean
PROPERTIES SessionEnds

SPECIFICATION MCSpec
CONSTANTS
  Packets <- MCPackets
  Plans <- MCPlans
  MaxChunk = 1
  Workers = 2
  QueueCap = 1
  Base = 4
  Width <- MCWidth
  Scripts <- MCScripts
  MayTimeOut = TRUE
INVARIANTS PacketsIntact CounterExact StreamWhole
PROPERTIES PipelineStops StreamArrives

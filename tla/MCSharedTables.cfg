SPECIFICATION MCSpec
CONSTANTS
  k1 = k1
  k2 = k2
  Keys <- MCKeys
  SlotCount = 4
  Interval = 2
  TTLs <- MCTTLs
  Data <- MCData
  Capacity = 3
  Payloads <- MCPayloads
  Maxes <- MCMaxes
  Casts <- MCCasts
  Kind <- MCKind
  Pair <- MCPair
INVARIANTS WheelSound ClientsShared StatesReleased
PROPERTIES CloseReturns ImplementsFIFO StatesEnd

SPECIFICATION MCSpec
CONSTANTS
  c1 = c1
  c2 = c2
  c3 = c3
  a = a
  b = b
  Conns <- MCConns
  Clients <- MCClients
  Owner <- MCOwner
  MaxTotalConns = 2
  MaxConnsPerClient = 1
  IdleTicks = 2
  MayOverflow = TRUE
  Requests = {r1, r2, r3}
  MaxLate = 1
  MaxStale = 1
  StatsInterval = 1
  RTTs = {100, 300}
  CapHigh = 250
  CapLow = 150
  CapEnable = 1
  CapDisable = 1
  CapNew = 1
  CapMargin = 1
SYMMETRY Symmetry
INVARIANTS SlotsExact NoneForgotten Admission
CHECK_DEADLOCK FALSE

SPECIFICATION MCSpec
CONSTANTS
  c1 = c1
  c2 = c2
  a = a
  b = b
  Conns <- MCConns
  Clients <- MCClients
  Owner <- MCOwner
  MaxTotalConns = 2
  MaxConnsPerClient = 1
  IdleTicks = 2
  MayOverflow = FALSE
  Setups <- MCSetups
  Lane <- MCLane
  Minute = 3
  Second = 2
  ByteLimit = 2
  PacketLimit = 2
  Amounts <- MCAmounts
  Horizon = 6
INVARIANTS MCTypeOK ShutdownLeaves WindowsBounded
PROPERTIES RelayEnds GatewayEnds SilentIsClosed

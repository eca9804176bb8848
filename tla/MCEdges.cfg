SPECIFICATION FairSpec
CONSTANTS
  Requests = {"c", "u"}
  UDPRequests = {"u"}
  Configured = {"auto", "survival"}
  QUIC = TRUE
  Fallback = TRUE
  QUICThreshold = 1
  ErrThreshold = 2
  FailWindow = 0
  MinDelay = 1
  MaxErrors = 2
  MaxLate = 1
  Assocs = {"a", "b"}
  Targets = {"t", "u"}
  MaxAssoc = 1
  MaxNAT = 1
  MaxEntries = 2
  Serving = {"a"}
  Conns = {"c"}
  Addrs = {"x"}
  MaxSessions = 2
  Mixed = FALSE
INVARIANTS AssociationsKept SessionsKept
PROPERTIES SurvivalMode ServeReturns TransitEnds

SPECIFICATION Spec
CONSTANTS
  s1 = s1
  s2 = s2
  r1 = r1
  c1 = c1
  Senders <- MCSenders
  Receivers <- MCNone
  Closers <- MCOneCloser
  PayloadLen = 3
  Chunk = 2
  QueueCap = 3
  SendWindow = 2
  RecvWindow = 1
  ReadMax = 2
  OutLen = 0
INVARIANTS UpstreamSound

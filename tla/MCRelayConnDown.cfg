SPECIFICATION FairSpec
CONSTANTS
  s1 = s1
  s2 = s2
  r1 = r1
  c1 = c1
  Senders <- MCNone
  Receivers <- MCReceivers
  Closers <- MCOneCloser
  PayloadLen = 1
  Chunk = 2
  QueueCap = 3
  SendWindow = 4
  RecvWindow = 2
  ReadMax = 2
  OutLen = 4
INVARIANTS ClientStream
PROPERTIES CloseQuiets EOSStopsBoth
CHECK_DEADLOCK FALSE

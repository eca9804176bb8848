SPECIFICATION FairSpec
CONSTANTS
  Requests = {"t", "u", "p"}
  Kind <- MCKind
  Plans <- MCPlans
  MaxData = 2
  DataCap = 1
  QRequests = {"t", "u", "p"}
  QKind <- MCKind
  QPlans <- MCQPlans
  MaxPings = 1
  MaxDgrams = 1
  IncomingCap = 1
  Polls = 2
  OutLen = 3
  InLen = 3
INVARIANTS AnswersMatch StreamsInOrder FlowsKnown
PROPERTIES DialSettles ReadersEnd CloseEnds
CHECK_DEADLOCK FALSE

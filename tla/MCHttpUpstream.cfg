CONSTANTS
  c1 = c1
  c2 = c2
  Callers = {c1, c2}
  NoOne = NoOne
  MaxBackends = 3
  MaxRequests <- TwoAndOne
SPECIFICATION FairSpec
INVARIANTS
  TypeOK
  ReplyIsOwn
  NothingLeaks
PROPERTIES
  MessageIsAnswered
CHECK_DEADLOCK FALSE

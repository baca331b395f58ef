CONSTANTS
  Clients = {c1, c2}
  NoOne = NoOne
  KeepReal = TRUE
  ResponseCap = 1
  MaxReals = 2
  MaxRequests = 3
SPECIFICATION FairSpec
INVARIANTS
  TypeOK
  ReplyIsOwn
  AckHasOneOwner
  RunningIsManaged
PROPERTIES
  KeepsCallContract
  RequestIsAnswered
CHECK_DEADLOCK FALSE

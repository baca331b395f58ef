CONSTANTS
  Clients = {c1, c2}
  NoOne = NoOne
  NoList = NoList
  SubCap = 1
  MaxVersion = 1
  MaxCalls = 1
  MaxOutput = 1
SPECIFICATION Spec
INVARIANTS
  ListChangedInvalidates
CHECK_DEADLOCK FALSE

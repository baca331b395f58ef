CONSTANTS
  Clients = {c1, c2}
  NoOne = NoOne
  NoList = NoList
  SubCap = 1
  MaxVersion = 1
  MaxCalls = 2
  MaxOutput = 2
SYMMETRY ClientSymmetry
CONSTRAINT OneFault
SPECIFICATION Spec
INVARIANTS
  TypeOK
  StaleIsDoomed
  NeverOlderThanTold
CHECK_DEADLOCK FALSE

CONSTANTS
  Sessions = {s1, s2}
  Logins = {l}
  Servers = {a, b}
  MaxTokens = 3
SYMMETRY SessionSymmetry
SPECIFICATION Spec
INVARIANTS
  TypeOK
  UsedTokenIsForServer
  StoredCredentialIsWhole
  ChainUnbroken
CHECK_DEADLOCK FALSE

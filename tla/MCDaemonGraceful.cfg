CONSTANTS
  a = a
  b = b
  Names = {a, b}
  Versions = {1, 2}
  Conns = {c1, c2}
  NoClient = NoClient
  Broken = Broken
  Listings <- MCListings
  MaxGeneration = 4
SPECIFICATION Spec
PROPERTY GracefulKeepsOldClients
CHECK_DEADLOCK FALSE

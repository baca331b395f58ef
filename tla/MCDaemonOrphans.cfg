CONSTANTS
  a = a
  b = b
  Names = {a, b}
  Versions = {1, 2}
  Conns = {c1, c2}
  NoClient = NoClient
  Broken = Broken
  Listings <- MCFewListings
  MaxGeneration = 4
SPECIFICATION FairSpec
PROPERTY OrphanIsReaped
CHECK_DEADLOCK FALSE

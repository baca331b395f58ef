CONSTANTS
  Platforms = {"darwin"}
  Clients = {}
  MaxDaemons = 2
  MaxRequests = 0
  MaxEvents = 2
SPECIFICATION FairSpec
PROPERTIES
  StopIsRestarted
CHECK_DEADLOCK FALSE

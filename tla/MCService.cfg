CONSTANTS
  Platforms = {"linux", "darwin", "windows"}
  Clients = {c}
  MaxDaemons = 2
  MaxRequests = 1
  MaxEvents = 3
SPECIFICATION FairSpec
INVARIANTS
  TypeOK
  InstallLeavesDaemon
  UninstallLeavesNothing
  DoneIsComplete
PROPERTIES
  SessionEnds
  StopIsObeyed
CHECK_DEADLOCK FALSE

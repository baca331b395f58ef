SPECIFICATION Spec
CONSTANTS
  NumClients = 2
  Names = {n1, n2}
  Versions = {v1}
  Plain = Plain
  Ref = Ref
  Absent = Absent
  NoJob = NoJob
  MaxRuns = 2
  MaxEdits = 1
SYMMETRY Symmetry
CHECK_DEADLOCK FALSE
INVARIANTS
  TypeOK
  SetupKeepsDefinitions
PROPERTIES
  NoRefBroken
  CompletedRunLoads
  RewrittenEntryResolves
  UpdateRepairs
  UninstallRemovesWrappers

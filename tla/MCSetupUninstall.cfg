SPECIFICATION Spec
CONSTANTS
  NumClients = 1
  Names = {n1, n2}
  Versions = {v1}
  Plain = Plain
  Ref = Ref
  Absent = Absent
  NoJob = NoJob
  MaxRuns = 3
  MaxEdits = 1
SYMMETRY Symmetry
CHECK_DEADLOCK FALSE
PROPERTIES
  UninstallLeavesNoRefs

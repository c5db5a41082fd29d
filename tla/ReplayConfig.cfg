CONSTANTS
  Args = {a1, a2}
  Broken = broken
  DataCap = 2
  MaxEdits = 3

SPECIFICATION FairSpec

PROPERTIES
  ImplementsFollower
  UpdateSparesUnchanged
  RemovedAreSilent

CHECK_DEADLOCK FALSE

CONSTANTS
  Urls = {u1, u2}
  Types = {k1, k2}
  NoType = none
  Configs <- SmallConfigs
  Broken = broken
  MaxEdits = 3
  MaxQueue = 1

SPECIFICATION FairSpec

INVARIANTS
  FollowsFile

PROPERTIES
  UpdateSparesUnchanged
  HandlesAreKept
  ImplementsFollower
  FollowerSettles
  RemovedAreSilent

CHECK_DEADLOCK FALSE

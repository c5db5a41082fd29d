CONSTANTS
  Cids = {c1, c2}
  Topics = {ipc, other}
  Ipc = ipc
  NoCid = none
  MaxCommands = 2
  Contexts = {TRUE, FALSE}
  SocketFaults = TRUE

SPECIFICATION FairSpec

INVARIANTS
  SubscribersAreListed
  OnlyTheCycleDeadlocks

PROPERTIES
  FrozenAfterPoison
  SubscriptionKept
  ImplementsService
  ClosedAreCollected
  DistributionCompletes
  PanicsEndTheServer

CHECK_DEADLOCK FALSE

CONSTANTS
  Clients = {c1}
  Addrs = {a1, a2}
  NoToken = none
  Networks <- BestAndWorst

SPECIFICATION FairSpec

INVARIANTS
  OneConnectionPerAttempt
  PeersAreValidated
  NoPacketIsStranded
  NothingStalls

PROPERTIES
  AcceptedIsNotRetried
  EveryoneSubscribes

CHECK_DEADLOCK FALSE

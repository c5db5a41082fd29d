CONSTANTS
  Sessions = {u1, u2}
  Symbols = {btc, eth}
  NoSession = none
  ActionCap = 1
  DataCap = 1
  JsonCap = 1
  MaxArgs = 1
  MaxHistory = 1
SPECIFICATION Spec
SYMMETRY Symmetry
INVARIANTS
  SubscribersAreUsers
  GoneAreForgotten
PROPERTY SubscriptionsChangeOnRequest
CHECK_DEADLOCK FALSE

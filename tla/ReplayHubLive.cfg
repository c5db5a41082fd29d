CONSTANTS
  Sessions = {u1, u2}
  Symbols = {btc}
  NoSession = none
  ActionCap = 1
  DataCap = 1
  JsonCap = 1
  MaxArgs = 2
  MaxHistory = 0
SPECIFICATION FairSpec
PROPERTIES
  HubComesBack
  EndedAreForgotten
CHECK_DEADLOCK FALSE

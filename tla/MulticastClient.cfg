CONSTANTS
  Cells = {1, 2}
  BufLen = 2
  MaxLen = 3
  MaxSends = 2

SPECIFICATION ClientFairSpec

INVARIANTS
  MessagesAreDatagrams

PROPERTIES
  ArrivedIsTaken

CHECK_DEADLOCK FALSE

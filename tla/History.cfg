CONSTANTS
  Tasks = {t1, t2}
  Args = {a1}
  JsonCap = 1
  MaxDay = 1
  MaxLen = 1
  MaxArgs = 2
  MaxNights = 1

SPECIFICATION FairSpec

INVARIANTS
  CommandsAreAnswered
  DaysAdjoin

PROPERTY HistoryEnds

CHECK_DEADLOCK FALSE

CONSTANTS
  Tasks = {t1}
  Args = {a1, a2}
  JsonCap = 1
  MaxDay = 2
  MaxLen = 2
  MaxArgs = 1
  MaxNights = 0
SPECIFICATION Spec
INVARIANT RangeIsServed
CHECK_DEADLOCK FALSE

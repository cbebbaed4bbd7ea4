\* Two pubs over two seconds of ten units, punctual, and late for more than one.
CONSTANTS
  Pubs = {p1, p2}
  Schedules <- TwoPubs
  Second = 10
  PollSlice = 1
  MaxSlack = 2
  Durations <- WithAndWithout
  Lateness = {0, 13}
  StartTimes = {0, 7}
  MaxTime = 23

SPECIFICATION Spec
SYMMETRY PubSymmetry

INVARIANTS
  TypeOK
  ScheduleKept
  LinesExact
  TicksInTime
  EndsInTime
CHECK_DEADLOCK FALSE

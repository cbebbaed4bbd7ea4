\* One slow pub in a run of one second, with nobody late.
CONSTANTS
  Pubs = {p1}
  Schedules <- SlowPub
  Second = 10
  PollSlice = 1
  MaxSlack = 2
  Durations <- OneSecond
  Lateness = {0}
  StartTimes = {0}
  MaxTime = 15

SPECIFICATION Spec

INVARIANT EverySecondTicked
CHECK_DEADLOCK FALSE

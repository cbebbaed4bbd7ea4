\* Two endpoints that come and go twice, and an executor of two threads.
CONSTANTS
  Endpoints = {e1, e2}
  Spinners = {s1, s2}
  Ways <- AllWays
  MaxChanges = 2

SPECIFICATION Spec

INVARIANTS
  TypeOK
  LinesPaired
  NoFalseMatch
  NoLostEvent
PROPERTY PeersFollowed
CHECK_DEADLOCK FALSE

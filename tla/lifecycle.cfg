\* Two modes in a process, in the combinations that differ in their threads.
CONSTANTS
  N = 2
  Configs <- Pairs

SPECIFICATION Spec

INVARIANTS
  TypeOK
  SummaryComplete
  PeersFlushed
  NoThreadOutlivesMain
  Served
PROPERTY StopEnds
CHECK_DEADLOCK FALSE

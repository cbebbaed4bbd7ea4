\* A network without faults: no ping is ever lost.
CONSTANTS
  Responders = {r1}
  Drivers <- BothDrivers
  Networks <- FairNetwork
  MaxPings <- TwoFair
  TheirPings <- OneStranger
  SeqMod = 16
  TotalCap = 2
  WindowCap = 1

SPECIFICATION Spec

INVARIANT SummaryAddsUp
CHECK_DEADLOCK FALSE

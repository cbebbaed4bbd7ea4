\* A reply-driven run whose responder may appear after the bootstrap ping.
CONSTANTS
  Responders = {r1}
  Drivers <- ReplyDriven
  Networks <- LateNetwork
  MaxPings <- TwoLate
  TheirPings <- OneStranger
  SeqMod = 16
  TotalCap = 2
  WindowCap = 1

SPECIFICATION Spec

PROPERTY BootstrapStartsLoop
CHECK_DEADLOCK FALSE

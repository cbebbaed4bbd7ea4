\* One responder, every fault, both ways of driving the run.
CONSTANTS
  Responders = {r1}
  Drivers <- BothDrivers
  Networks <- AllNetworks
  MaxPings <- ThreeOrTwo
  TheirPings <- OneStranger
  SeqMod = 4
  TotalCap = 2
  WindowCap = 1

SPECIFICATION Spec

INVARIANTS
  TypeOK
  NoPongCountedTwice
  SelfClocked
  PingsExact
  LossBracket
  LossNeverHidden
  RttNotLate
  EndsAgree
  SummaryFinal
CHECK_DEADLOCK FALSE
PROPERTIES
  MeterSpec
  LoopNeverStalls
  SummaryComes

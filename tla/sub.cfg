\* Two publishers, every kind of network, ticks at any moment.
CONSTANTS
  Publishers = {p1, p2}
  Networks <- LossyNetworks
  StartSeqs <- FromZero
  MaxSeq = 3
  MaxArrivals = 4
  SeqMod = 16
  OnewayNs <- SomeOneway
  WindowCap = 1

SPECIFICATION Spec
SYMMETRY PublisherSymmetry

INVARIANTS
  TypeOK
  GapLedger
  LossReported
  WindowPartition
  LatencyWindow


PROPERTY MeterSpec

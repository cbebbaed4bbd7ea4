\* One publisher on a network without faults, long enough for its seq to pass
\* what PubTrack::last_seq can hold.
CONSTANTS
  Publishers = {p1}
  Networks <- FairNetwork
  StartSeqs <- ZeroOrOne
  MaxSeq = 6
  MaxArrivals = 6
  SeqMod = 4
  OnewayNs <- Unmeasured
  WindowCap = 1

SPECIFICATION Spec

INVARIANT NoPhantomLoss

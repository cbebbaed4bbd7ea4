\* Buffers of seven and three samples, and more samples than either can hold.
CONSTANTS
  total_cap = 7
  window_cap = 3
  Scale = 420
  Samples <- FewSamples
  MaxAdds = 8

SPECIFICATION Spec

INVARIANTS
  TypeOK
  BuffersExact
  MomentsExact
  RanksExact
CHECK_DEADLOCK FALSE

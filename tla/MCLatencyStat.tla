--------------------------- MODULE MCLatencyStat ---------------------------
(* A small instance of LatencyStat for TLC.                                *)
EXTENDS LatencyStat

\* Two equal steps and a long one, and a clock that ran backwards.
FewSamples == {-1, 0, 1, 5}
=============================================================================

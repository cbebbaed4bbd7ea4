--------------------------- MODULE MCPubSchedule ---------------------------
(* Small instances of PubSchedule for TLC.                                 *)
EXTENDS PubSchedule, TLC

\* The same rate twice, and another beside it that does not divide the second.
TwoPubs == {s \in [Pubs -> {3, 5}] : \A p, q \in Pubs : p = q \/ 5 \in {s[p], s[q]}}
PubSymmetry == Permutations(Pubs)

SlowPub == [Pubs -> {5}]

WithAndWithout == {0, 15}
OneSecond == {10}
=============================================================================

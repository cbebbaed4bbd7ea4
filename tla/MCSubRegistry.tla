--------------------------- MODULE MCSubRegistry ---------------------------
(* Small instances of SubRegistry for TLC.                                 *)
EXTENDS SubRegistry, TLC

\* Best effort in order (which includes the runs that lose nothing), and every
\* fault at once; and a network without faults.
LossyNetworks == {{"lose"}, {"lose", "reorder", "duplicate"}}
FairNetwork == {{}}

\* A clock difference LatencyStat refuses and the smallest one it takes; and
\* nothing measured.
SomeOneway == {-1, 0}
Unmeasured == {-1}

\* Publishers that have just started.
FromZero == {0}

\* Or that had sent a sample before the subscriber appeared.
ZeroOrOne == {0, 1}

PublisherSymmetry == Permutations(Publishers)
============================================================================
